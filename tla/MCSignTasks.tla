----------------------------- MODULE MCSignTasks -----------------------------
(* The runs of a sign task and the engine that plays the script of a run, in   *)
(* one run of TLC.  What the engine does inside a run is only its outcome to   *)
(* SignTaskRun, so a behaviour has one of them at work.                        *)
EXTENDS SignTaskRun, SignEngine

VARIABLE part

(* A bot that does as it likes meets the short scripts, a helpful one the long. *)
ScriptsOfTheChat ==
  {<<"send", "click">>, <<"click", "reply">>,
   <<"send", "reply", "click">>, <<"click", "reply", "send">>}

SuccessOfYesterday == {<<"success", "menu">>}

Moody ==
  [helpful |-> FALSE, unreadable |-> FALSE, deaf |-> FALSE, backoff |-> 0,
   faults |-> {"raise", "unconfirmed"}]

HowTheBotIs ==
  [helpful : {TRUE}, unreadable : {FALSE}, deaf : BOOLEAN, backoff : {0}, faults : {{}}]
  \cup {Moody, [helpful |-> FALSE, unreadable |-> TRUE, deaf |-> TRUE, backoff |-> 1,
                faults |-> {"raise"}]}

TasksInit ==
  /\ part \in {"runs", "engine"} /\ Init /\ EngineInit
  /\ IF part = "engine" THEN terms.helpful <=> Len(script) > 2
     ELSE script = <<"send", "click">> /\ terms = Moody

TasksNext ==
  \/ part = "runs" /\ Next /\ UNCHANGED <<part, engineVars>>
  \/ part = "engine" /\ EngineNext /\ UNCHANGED <<part, vars>>

(* EngineFairness, if the engine is the one at work.                           *)
EngineGoesOn ==
  /\ WF_engineVars(part = "engine" /\ EngineStep)
  /\ WF_engineVars(part = "engine" /\ HandlerGets)
  /\ WF_engineVars(part = "engine" /\ BotHelps)

TasksSpec ==
  /\ TasksInit /\ [][TasksNext]_<<part, vars, engineVars>>
  /\ (\A r \in Runs : WF_vars(RunStep(r))) /\ EngineGoesOn
=============================================================================
