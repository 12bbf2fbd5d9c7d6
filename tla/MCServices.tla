------------------------------ MODULE MCServices ------------------------------
(* What a process keeps beside each other, in one run: the schedule of a sign *)
(* task, the polling of the bot, the keyword monitor, and the client of one   *)
(* session key.  These share no state, so a behaviour has one of them at work *)
(* and the others switched off.                                               *)
EXTENDS SignSchedule, BotPolling, KeywordMonitor, ClientLifecycle

VARIABLE part

AtNoonOrInAWindow ==
  {[mode |-> "fixed", from |-> 1, to |-> 1], [mode |-> "range", from |-> 1, to |-> 2]}

WhatHappensToTheTask ==
  {{"restart", "late"}, {"restart", "manual"}, {"edit", "restart"}}

WhatHappensToTheBot ==
  {{"crash", "stop"}, {"api", "conflict"}, {"disk"}}

WhatHappensToTheMonitor ==
  {{"crash", "disk"}, {"shutdown", "again"}, {"refused", "disconnect"}}

ServicesInit ==
  /\ part \in {"schedule", "bot", "monitor", "client"}
  /\ ScheduleInit /\ BotInit /\ MonitorInit /\ Init
  /\ part = "monitor" => rules.accounts # {}
  /\ part # "schedule" => file.plan.mode = "fixed" /\ chances = {"edit", "restart"}
  /\ part # "bot" => settings.on /\ trouble = {"crash", "stop"}
  /\ part # "monitor" => rules.accounts = {} /\ upsets = {"crash", "disk"}
  /\ part # "client" => variant = [c \in Clients |-> "noUpdates"]

ServicesNext ==
  \/ part = "schedule" /\ ScheduleNext /\ UNCHANGED <<part, botVars, monitorVars, vars>>
  \/ part = "bot" /\ BotNext /\ UNCHANGED <<part, scheduleVars, monitorVars, vars>>
  \/ part = "monitor" /\ MonitorNext /\ UNCHANGED <<part, scheduleVars, botVars, vars>>
  \/ part = "client" /\ Next /\ UNCHANGED <<part, scheduleVars, botVars, monitorVars>>

ServicesSpec ==
  /\ ServicesInit /\ [][ServicesNext]_<<part, scheduleVars, botVars, monitorVars, vars>>
  /\ BotFairness /\ MonitorFairness
=============================================================================
