---------------------------- MODULE KeywordMonitor ----------------------------
(***************************************************************************)
(* The keyword monitor (services/keyword_monitor/runtime.py): a restart    *)
(* brings the message handlers in line with the rules of the sign tasks,   *)
(* account by account under the account lock, and a watermark per account  *)
(* keeps messages that Telegram delivers again from being handled again.   *)
(*                                                                         *)
(* A message of an account is known by its number; the rules are a version *)
(* and the accounts they speak of.                                         *)
(***************************************************************************)
EXTENDS Naturals, FiniteSets

CONSTANTS
  Accounts,
  Contended,    \* those whose lock sign runs take
  MaxMessages,  \* messages per account
  MaxEdits,     \* times the tasks are saved
  Upsets,       \* what may go wrong in one behaviour: sets of kinds
  MaxUpsets

ASSUME MonitorAssumption ==
  /\ IsFiniteSet(Accounts) /\ Contended \subseteq Accounts
  /\ MaxMessages \in Nat /\ MaxEdits \in Nat /\ MaxUpsets \in Nat
  /\ Upsets \subseteq
       SUBSET {"crash", "shutdown", "again", "disconnect", "refused", "disk"}

VARIABLES
  rules,      \* those of the task files: version, accounts
  loaded,     \* self._rules
  activeKey,  \* self._active_key, or 0
  handlers,   \* the accounts with a handler in _handler_refs
  linked,     \* the accounts whose client is connected
  busy,       \* the accounts whose lock somebody else holds
  restart,    \* the restart under self._lock: where it is, its rules, accounts to do
  waiting,    \* requests that wait for self._lock
  posted,     \* the messages of each account are 1..posted
  next,       \* the next message Telegram delivers to the account
  passed,     \* messages that reached a client without a handler
  seen,       \* self._seen
  dirty,      \* self._seen_dirty
  stored,     \* seen.json
  hits,       \* how often each message was handled
  upsets,     \* the kinds that may happen
  upsetCount

monitorVars == <<rules, loaded, activeKey, handlers, linked, busy, restart,
                 waiting, posted, next, passed, seen, dirty, stored, hits, upsets,
                 upsetCount>>

Messages == 1..MaxMessages
RuleSets == [version : 1..(MaxEdits + 1), accounts : SUBSET Accounts]
NoRules == [version |-> 1, accounts |-> {}]
NoRestart == [at |-> "none", rules |-> NoRules, todo |-> {}, ok |-> TRUE]
Nothing == [a \in Accounts |-> 0]

MonitorTypeOK ==
  /\ rules \in RuleSets /\ loaded \in SUBSET Accounts
  /\ activeKey \in 0..(MaxEdits + 1)
  /\ handlers \subseteq loaded /\ linked \subseteq Accounts /\ busy \subseteq Accounts
  /\ restart \in [at : {"none", "down", "stopping", "starting"}, rules : RuleSets,
                  todo : SUBSET Accounts, ok : BOOLEAN]
  /\ waiting \in 0..(MaxEdits + MaxUpsets + 1)
  /\ posted \in [Accounts -> 0..MaxMessages] /\ next \in [Accounts -> 1..(MaxMessages + 1)]
  /\ seen \in [Accounts -> 0..MaxMessages] /\ stored \in [Accounts -> 0..MaxMessages]
  /\ passed \in [Accounts -> SUBSET Messages] /\ dirty \in BOOLEAN
  /\ hits \in [Accounts -> [Messages -> Nat]]
  /\ upsets \in Upsets /\ upsetCount \in 0..MaxUpsets

MonitorInit ==
  /\ rules \in [version : {1}, accounts : SUBSET Accounts]
  /\ loaded = {} /\ activeKey = 0 /\ handlers = {} /\ linked = {} /\ busy = {}
  /\ restart = [NoRestart EXCEPT !.at = "down"] /\ waiting = 0
  /\ posted = Nothing /\ next = [a \in Accounts |-> 1]
  /\ passed = [a \in Accounts |-> {}]
  /\ seen = Nothing /\ dirty = FALSE /\ stored = Nothing
  /\ hits = [a \in Accounts |-> [m \in Messages |-> 0]]
  /\ upsets \in Upsets /\ upsetCount = 0

-----------------------------------------------------------------------------
serviceVars == <<loaded, activeKey, handlers, linked>>
messageVars == <<posted, next, passed, hits>>
seenVars == <<seen, dirty, stored>>
Upset(kind) ==
  /\ kind \in upsets /\ upsetCount < MaxUpsets /\ upsetCount' = upsetCount + 1
  /\ UNCHANGED upsets
Peacefully == UNCHANGED <<upsets, upsetCount>>

(* _maybe_persist_seen_state with force; writing may fail.                 *)
Persisted ==
  \/ ~dirty /\ UNCHANGED stored /\ Peacefully
  \/ dirty /\ stored' = seen /\ Peacefully
  \/ dirty /\ UNCHANGED stored /\ Upset("disk")

(* _handlers_are_active_for *)
ActiveFor(r) ==
  IF r.accounts = {} THEN handlers = {} ELSE r.accounts \subseteq handlers \cap linked

(* Mutant: a restart that is asked for while another one is at work is     *)
(* dropped.                                                                *)
EntersOrDrops ==
  /\ waiting > 0
  /\ IF restart.at # "none"
       THEN UNCHANGED restart
       ELSE restart' = IF rules.version = activeKey /\ ActiveFor(rules) THEN restart
                         ELSE [at |-> "stopping", rules |-> rules, todo |-> handlers, ok |-> TRUE]
  /\ waiting' = waiting - 1
  /\ UNCHANGED <<rules, serviceVars, busy, messageVars, seenVars>> /\ Peacefully

(* restart_from_tasks up to its first wait: the rules are read; nothing is *)
(* to be done if they are served.                                          *)
Enters ==
  /\ waiting > 0 /\ restart.at = "none"
  /\ waiting' = waiting - 1
  /\ restart' = IF rules.version = activeKey /\ ActiveFor(rules) THEN restart
                  ELSE [at |-> "stopping", rules |-> rules, todo |-> handlers, ok |-> TRUE]
  /\ UNCHANGED <<rules, serviceVars, busy, messageVars, seenVars>> /\ Peacefully

(* stop() for one account, under its lock: the handler goes, the client is *)
(* disconnected unless others use it.                                      *)
Detaches(a) ==
  /\ restart.at = "stopping" /\ a \in restart.todo /\ a \notin busy
  /\ handlers' = handlers \ {a}
  /\ linked' \in {linked, linked \ {a}}
  /\ restart' = [restart EXCEPT !.todo = @ \ {a}]
  /\ UNCHANGED <<rules, loaded, activeKey, busy, waiting, messageVars, seenVars>>
  /\ Peacefully

(* Mutant: the watermark is not written when the monitor stops.            *)
TurnsUnsaved ==
  /\ restart.at = "stopping" /\ restart.todo = {}
  /\ seen' = stored /\ dirty' = FALSE
  /\ loaded' = restart.rules.accounts
  /\ activeKey' = IF restart.rules.accounts = {} THEN restart.rules.version ELSE 0
  /\ restart' = IF restart.rules.accounts = {} THEN NoRestart
                  ELSE [restart EXCEPT !.at = "starting", !.todo = restart.rules.accounts]
  /\ UNCHANGED <<rules, handlers, linked, busy, waiting, messageVars, stored>>
  /\ Peacefully

(* Mutant: stop() is not awaited. *)
TurnsAtOnce ==
  /\ restart.at = "stopping"
  /\ Persisted
  /\ seen' = stored' /\ dirty' = FALSE
  /\ loaded' = restart.rules.accounts
  /\ activeKey' = 0
  /\ restart' = [restart EXCEPT !.at = "starting", !.todo = restart.rules.accounts]
  /\ UNCHANGED <<rules, handlers, linked, busy, waiting, messageVars>>

(* The end of stop(): the watermark is written; then the new rules count,  *)
(* and the watermark is read again.                                        *)
Turns ==
  /\ restart.at = "stopping" /\ restart.todo = {}
  /\ Persisted
  /\ IF restart.rules.accounts = {}
       THEN UNCHANGED seen /\ dirty' = (dirty /\ stored' # seen)
       ELSE seen' = stored' /\ dirty' = FALSE
  /\ loaded' = restart.rules.accounts
  /\ activeKey' = IF restart.rules.accounts = {} THEN restart.rules.version ELSE 0
  /\ restart' = IF restart.rules.accounts = {} THEN NoRestart
                  ELSE [restart EXCEPT !.at = "starting", !.todo = restart.rules.accounts]
  /\ UNCHANGED <<rules, handlers, linked, busy, waiting, messageVars>>

Left(a, ok) ==
  LET r == [restart EXCEPT !.todo = @ \ {a}, !.ok = @ /\ ok] IN
  IF r.todo # {} THEN restart' = r /\ UNCHANGED activeKey
    ELSE /\ restart' = NoRestart
         /\ activeKey' = IF r.ok THEN r.rules.version ELSE 0

(* The client of one account gets its handler and connects, under the      *)
(* account lock; the code goes through the accounts by name.               *)
Attaches(a) ==
  /\ restart.at = "starting" /\ a \in restart.todo /\ a \notin busy
  /\ handlers' = handlers \cup {a} /\ linked' = linked \cup {a}
  /\ Left(a, TRUE)
  /\ UNCHANGED <<rules, loaded, busy, waiting, messageVars, seenVars>> /\ Peacefully

(* Mutant: a client that does not start is not noted.                      *)
AttachFailsUnnoted(a) ==
  /\ restart.at = "starting" /\ a \in restart.todo /\ a \notin busy
  /\ Upset("refused")
  /\ Left(a, TRUE)
  /\ UNCHANGED <<rules, loaded, handlers, linked, busy, waiting, messageVars, seenVars>>

AttachFails(a) ==
  /\ restart.at = "starting" /\ a \in restart.todo /\ a \notin busy
  /\ Upset("refused")
  /\ Left(a, FALSE)
  /\ UNCHANGED <<rules, loaded, handlers, linked, busy, waiting, messageVars, seenVars>>

-----------------------------------------------------------------------------
(* Mutant: the watermark is that of the chat, whichever account heard it. *)
SeenByAny(a, m) == \E b \in Accounts : m <= seen[b]
(* _is_seen_message *)
Seen(a, m) == m <= seen[a]

(* _on_message up to its first wait.  The watermark is written at most     *)
(* every thirty seconds.                                                   *)
Receives(a, m) ==
  /\ a \in handlers \cap linked
  /\ IF Seen(a, m)
       THEN UNCHANGED <<seenVars, hits>>
       ELSE /\ seen' = [seen EXCEPT ![a] = m]
            /\ \/ stored' = seen' /\ dirty' = FALSE
               \/ UNCHANGED stored /\ dirty' = TRUE
            /\ hits' = IF a \in loaded THEN [hits EXCEPT ![a][m] = @ + 1] ELSE hits
  /\ UNCHANGED <<rules, serviceVars, busy, restart, waiting, posted, passed>>

(* A client that others keep connected hears the message, and no handler.  *)
Passes(a) ==
  /\ next[a] <= posted[a] /\ a \in linked \ handlers
  /\ next' = [next EXCEPT ![a] = @ + 1]
  /\ passed' = [passed EXCEPT ![a] = @ \cup {next[a]}]
  /\ UNCHANGED <<rules, serviceVars, busy, restart, waiting, posted, hits, seenVars>>
  /\ Peacefully

Delivers(a) ==
  /\ next[a] <= posted[a]
  /\ Receives(a, next[a])
  /\ next' = [next EXCEPT ![a] = @ + 1]
  /\ Peacefully

(* After a reconnection Telegram delivers what it delivered before. *)
DeliversAgain(a) ==
  /\ Upset("again")
  /\ \E m \in 1..(next[a] - 1) : Receives(a, m)
  /\ UNCHANGED next

IsPosted(a) ==
  /\ posted[a] < MaxMessages /\ posted' = [posted EXCEPT ![a] = @ + 1]
  /\ UNCHANGED <<rules, serviceVars, busy, restart, waiting, next, passed, hits, seenVars>>
  /\ Peacefully

-----------------------------------------------------------------------------
(* The tasks are saved; the background sync of the request asks for a      *)
(* restart.                                                                *)
SaveTasks ==
  /\ rules.version <= MaxEdits /\ restart.at # "down"
  /\ \E A \in SUBSET Accounts : rules' = [version |-> rules.version + 1, accounts |-> A]
  /\ waiting' = waiting + 1
  /\ UNCHANGED <<serviceVars, busy, restart, messageVars, seenVars>> /\ Peacefully

(* A sign run takes the account lock, or gives it back. *)
RunTakes(a) ==
  /\ a \in Contended \ busy /\ busy' = busy \cup {a}
  /\ UNCHANGED <<rules, serviceVars, restart, waiting, messageVars, seenVars>>
  /\ Peacefully

RunGives(a) ==
  /\ a \in busy /\ busy' = busy \ {a}
  /\ UNCHANGED <<rules, serviceVars, restart, waiting, messageVars, seenVars>>
  /\ Peacefully

(* A client loses its connection; some request asks for a restart later. *)
Disconnects(a) ==
  /\ a \in linked /\ Upset("disconnect")
  /\ linked' = linked \ {a} /\ waiting' = waiting + 1
  /\ UNCHANGED <<rules, loaded, activeKey, handlers, busy, restart, messageVars, seenVars>>

Emptied ==
  /\ loaded' = {} /\ activeKey' = 0 /\ handlers' = {} /\ linked' = {} /\ waiting' = 0
  /\ restart' = [NoRestart EXCEPT !.at = "down"] /\ seen' = Nothing /\ dirty' = FALSE

(* stop() of the shutdown, when no restart is at work: the watermark is    *)
(* written before the process ends.                                        *)
ShutsDown ==
  /\ restart.at = "none" /\ waiting = 0 /\ Upset("shutdown")
  /\ stored' = (IF dirty THEN seen ELSE stored)
  /\ Emptied
  /\ UNCHANGED <<rules, busy, messageVars>>

MonitorDies ==
  /\ restart.at # "down" /\ Upset("crash")
  /\ Emptied
  /\ UNCHANGED <<rules, busy, messageVars, stored>>

(* The next process, whose start asks for a restart; Telegram delivers     *)
(* again from some message on.                                             *)
MonitorReturns ==
  /\ restart.at = "down" /\ restart' = NoRestart /\ waiting' = 1
  /\ next' \in {f \in [Accounts -> 1..(MaxMessages + 1)] : \A a \in Accounts : f[a] <= next[a]}
  /\ UNCHANGED <<rules, serviceVars, busy, posted, passed, hits, seenVars>> /\ Peacefully

RestartStep ==
  Enters \/ Turns \/ \E a \in Accounts : Detaches(a) \/ Attaches(a) \/ AttachFails(a)

MonitorNext ==
  \/ RestartStep \/ SaveTasks \/ ShutsDown \/ MonitorDies \/ MonitorReturns
  \/ \E a \in Accounts :
       Delivers(a) \/ DeliversAgain(a) \/ Passes(a) \/ IsPosted(a) \/ RunTakes(a) \/ RunGives(a)
       \/ Disconnects(a)

MonitorSpec == MonitorInit /\ [][MonitorNext]_monitorVars

(* The restart is stepped; sign runs end, and the waiters of an account    *)
(* lock get it in their order.                                             *)
MonitorFairness ==
  /\ SF_monitorVars(RestartStep)
  /\ \A a \in Accounts : WF_monitorVars(RunGives(a))

-----------------------------------------------------------------------------
(* A message that Telegram delivers again, after a reconnection, a restart *)
(* of the monitor or of the service, is not handled again; only a crash,   *)
(* or a watermark that could not be written, may repeat what was handled   *)
(* since it was last written.                                              *)
HitOnce ==
  \A a \in Accounts, m \in Messages :
    hits[a][m] <= 1 + (IF upsets \cap {"crash", "disk"} = {} THEN 0 ELSE upsetCount)

(* The watermark swallows nothing: what a handler got in the order of the  *)
(* channel has been handled, whatever restarts of the monitor and edits of *)
(* the rules came in between.                                              *)
NoneMissed ==
  \A a \in Accounts : \A m \in 1..(next[a] - 1) : hits[a][m] >= 1 \/ m \in passed[a]

(* The key of the rules is kept only if every account of them was started, *)
(* so that a later request tries again.                                    *)
KeyMeansServed ==
  activeKey # 0 /\ restart.at = "none" => handlers = loaded

(* Saved rules come to be served: a restart that is asked for while        *)
(* another one is at work runs after it, with the newest rules, although   *)
(* sign runs take the account locks again and again.                       *)
RulesAreServed ==
  \A v \in 1..(MaxEdits + 1) :
    rules.version = v /\ "refused" \notin upsets ~>
      \/ activeKey = v /\ handlers = rules.accounts
      \/ rules.version # v \/ restart.at = "down"

(* Each message a handler gets counts once.                                *)
HitsAreExact == MonitorTypeOK /\ HitOnce /\ NoneMissed /\ KeyMeansServed
=============================================================================
