------------------------------ MODULE BotPolling ------------------------------
(***************************************************************************)
(* The long polling of the Telegram bot (services/telegram_bot/runtime.py) *)
(* in the processes that share a data directory.  The process that holds   *)
(* the scheduler lock polls.  In each process a supervisor brings the      *)
(* polling in line with the settings every few seconds or when it is woken.*)
(* The poller writes the offset of an update before it handles the update. *)
(*                                                                         *)
(* Updates are numbered in the order of their arrival; an offset is the    *)
(* number of the next update to ask for.                                   *)
(***************************************************************************)
EXTENDS Naturals, FiniteSets

CONSTANTS
  Nodes,       \* the processes
  MaxUpdates,  \* updates users send
  MaxSaves,    \* times the settings are saved
  Troubles,    \* what may go wrong in one behaviour: sets of kinds
  MaxTroubles,
  NoNode

ASSUME PollingAssumption ==
  /\ IsFiniteSet(Nodes) /\ NoNode \notin Nodes
  /\ MaxUpdates \in Nat /\ MaxSaves \in Nat /\ MaxTroubles \in Nat
  /\ Troubles \subseteq SUBSET {"crash", "stop", "api", "conflict", "disk"}

VARIABLES
  owner,     \* the process that holds .scheduler.lock
  node,      \* what each process knows and does
  settings,  \* the saved settings: their version, and whether the bot is on
  saved,     \* the offset in .telegram_bot_state.json
  arrived,   \* updates 1..arrived have been sent
  acked,     \* Telegram keeps the updates from this number on
  handled,   \* how often the handling of each update began
  finished,  \* the updates that were handled to the end
  broken,    \* how often the handling of an update was cut off
  trouble,   \* the kinds of trouble that may happen
  suffered   \* how many did

botVars == <<owner, node, settings, saved, arrived, acked, handled, finished,
             broken, trouble, suffered>>

Updates == 1..MaxUpdates
Offsets == 1..(MaxUpdates + 1)

Absent == [life |-> "down", sup |-> "none", wake |-> FALSE, probing |-> 0,
           fingerprint |-> 0, state |-> "stopped", recent |-> FALSE,
           poll |-> "none", offset |-> 1, current |-> 0, rest |-> {}]

BotTypeOK ==
  /\ owner \in Nodes \cup {NoNode}
  /\ node \in [Nodes ->
       [life : {"down", "up", "stopping"},
        sup : {"none", "pass", "probing", "resting"}, wake : BOOLEAN,
        probing : 0..(MaxSaves + 1), fingerprint : 0..(MaxSaves + 1),
        state : {"stopped", "disabled", "standby", "running", "error", "conflict"},
        recent : BOOLEAN, poll : {"none", "asking", "handling"},
        offset : Offsets, current : 0..MaxUpdates, rest : SUBSET Updates]]
  /\ \A n \in Nodes :
       IF node[n].poll = "handling"
         THEN node[n].current \in 1..arrived /\ node[n].rest \subseteq 1..arrived
         ELSE node[n].current = 0 /\ node[n].rest = {}
  /\ settings \in [version : 1..(MaxSaves + 1), on : BOOLEAN]
  /\ saved \in Offsets /\ arrived \in 0..MaxUpdates /\ acked \in Offsets
  /\ handled \in [Updates -> Nat] /\ finished \subseteq Updates
  /\ broken \in Nat /\ trouble \in Troubles /\ suffered \in 0..MaxTroubles

BotInit ==
  /\ owner = NoNode /\ node = [n \in Nodes |-> Absent]
  /\ settings \in [version : {1}, on : BOOLEAN]
  /\ saved = 1 /\ arrived = 0 /\ acked = 1
  /\ handled = [u \in Updates |-> 0] /\ finished = {} /\ broken = 0
  /\ trouble \in Troubles /\ suffered = 0

-----------------------------------------------------------------------------
deliveryVars == <<saved, acked, handled, finished>>
Larger(a, b) == IF a > b THEN a ELSE b
Smallest(S) == CHOOSE u \in S : \A v \in S : u <= v

Happens(kind) ==
  /\ kind \in trouble /\ suffered < MaxTroubles /\ suffered' = suffered + 1
  /\ UNCHANGED trouble
Smoothly == UNCHANGED <<trouble, suffered>>

(* Mutant: the batch of a stopped poller is kept. *)
WithoutTask(x) == [x EXCEPT !.poll = "none"]

(* Where _stop_worker_locked leaves the process. *)
WithoutPoller(x) == [x EXCEPT !.poll = "none", !.current = 0, !.rest = {}]
Cut(x) == broken' = broken + (IF x.poll = "handling" THEN 1 ELSE 0)

(* try_acquire_scheduler_lock of init_scheduler, the only place that asks  *)
(* for the lock, and the start of the supervisor.                          *)
BootNode(n) ==
  /\ node[n].life = "down"
  /\ owner' = IF owner = NoNode THEN n ELSE owner
  /\ node' = [node EXCEPT ![n] = [Absent EXCEPT !.life = "up", !.sup = "pass"]]
  /\ UNCHANGED <<settings, arrived, deliveryVars, broken>> /\ Smoothly

(* Mutant: who holds the lock is not asked. *)
MayPollAnyway(n) == settings.on
MayPoll(n) == settings.on /\ owner = n

(* Mutant: an ended poller is taken for a running one. *)
InOrderIfSame(x) == x.fingerprint = settings.version

(* The pass leaves alone a poller of these settings, and for a while a     *)
(* failure under them.                                                     *)
InOrder(x) ==
  /\ x.fingerprint = settings.version
  /\ x.poll # "none" \/ (x.state \in {"error", "conflict"} /\ x.recent)

(* _supervise and _reconcile_locked up to the calls of the Bot API. *)
Reconcile(n) ==
  LET x == [node[n] EXCEPT !.wake = FALSE] IN
  /\ x.sup = "pass" /\ x.life = "up"
  /\ IF ~MayPoll(n)
       THEN /\ Cut(x)
            /\ node' = [node EXCEPT ![n] =
                 [WithoutPoller(x) EXCEPT
                    !.sup = "resting", !.fingerprint = settings.version,
                    !.state = IF settings.on THEN "standby" ELSE "disabled"]]
       ELSE IF InOrder(x)
         THEN node' = [node EXCEPT ![n] = [x EXCEPT !.sup = "resting"]] /\ UNCHANGED broken
         ELSE /\ Cut(x)
              /\ node' = [node EXCEPT ![n] =
                   [WithoutPoller(x) EXCEPT !.sup = "probing",
                                            !.probing = settings.version]]
  /\ UNCHANGED <<owner, settings, arrived, deliveryVars>> /\ Smoothly

AfterPass(x) == [x EXCEPT !.sup = IF x.life = "stopping" THEN "none" ELSE "resting",
                          !.fingerprint = x.probing, !.probing = 0]

(* Mutant: the stored offset is taken for that of the last handled update. *)
StartsAfter(x) ==
  [AfterPass(x) EXCEPT !.poll = "asking", !.state = "running",
                       !.offset = IF saved \in Updates THEN saved + 1 ELSE saved]

(* The end of _reconcile_locked: the offset is loaded, the poller created. *)
Starts(x) ==
  [AfterPass(x) EXCEPT !.poll = "asking", !.state = "running", !.offset = saved]

Probed(n) ==
  /\ node[n].sup = "probing"
  /\ node' = [node EXCEPT ![n] = Starts(node[n])]
  /\ UNCHANGED <<owner, settings, arrived, deliveryVars, broken>> /\ Smoothly

ProbeFails(n) ==
  /\ node[n].sup = "probing" /\ Happens("api")
  /\ node' = [node EXCEPT ![n] =
                [AfterPass(node[n]) EXCEPT !.state = "error", !.recent = TRUE]]
  /\ UNCHANGED <<owner, settings, arrived, deliveryVars, broken>>

(* The supervisor is woken, or its five seconds are over. *)
Wakes(n) ==
  /\ node[n].sup = "resting" /\ node[n].life = "up"
  /\ node' = [node EXCEPT ![n].sup = "pass"]
  /\ UNCHANGED <<owner, settings, arrived, deliveryVars, broken>> /\ Smoothly

(* A minute has passed since the last failure. *)
Recovers(n) ==
  /\ node[n].recent
  /\ node' = [node EXCEPT ![n].recent = FALSE]
  /\ UNCHANGED <<owner, settings, arrived, deliveryVars, broken>> /\ Smoothly

-----------------------------------------------------------------------------
(* Mutant: the offset moves behind the whole batch at once. *)
TakesBatch(n, batch) ==
  LET u == Smallest(batch)
      last == CHOOSE v \in batch : \A w \in batch : w <= v IN
  /\ node' = [node EXCEPT ![n] =
       [@ EXCEPT !.poll = "handling", !.current = u, !.rest = batch \ {u}, !.offset = last + 1]]
  /\ saved' = last + 1
  /\ handled' = [handled EXCEPT ![u] = @ + 1]
  /\ Smoothly

(* Mutant: the offset is kept in memory only. *)
TakesUnsaved(n, batch) ==
  LET u == Smallest(batch) IN
  /\ node' = [node EXCEPT ![n] =
       [@ EXCEPT !.poll = "handling", !.current = u, !.rest = batch \ {u}, !.offset = u + 1]]
  /\ UNCHANGED saved
  /\ handled' = [handled EXCEPT ![u] = @ + 1]
  /\ Smoothly

(* The next update of a batch: the offset moves behind it, in memory and,  *)
(* unless the file cannot be written, on disk; then it is handled.         *)
Takes(n, batch) ==
  LET u == Smallest(batch) IN
  /\ node' = [node EXCEPT ![n] =
       [@ EXCEPT !.poll = "handling", !.current = u, !.rest = batch \ {u}, !.offset = u + 1]]
  /\ \/ saved' = u + 1 /\ Smoothly
     \/ UNCHANGED saved /\ Happens("disk")
  /\ handled' = [handled EXCEPT ![u] = @ + 1]

(* getUpdates returns: what is before the offset is dropped by Telegram. *)
Fetch(n) ==
  LET from == Larger(acked, node[n].offset)
      batch == {u \in 1..arrived : u >= from} IN
  /\ node[n].poll = "asking" /\ batch # {}
  /\ acked' = from
  /\ Takes(n, batch)
  /\ UNCHANGED <<owner, settings, arrived, finished, broken>>

(* handle_update returned: the next of the batch, or the next getUpdates.  *)
Handled(n) ==
  LET x == node[n] IN
  /\ x.poll = "handling"
  /\ finished' = finished \cup {x.current}
  /\ IF x.rest # {}
       THEN Takes(n, x.rest)
       ELSE /\ node' = [node EXCEPT ![n] =
                 [WithoutPoller(x) EXCEPT
                    !.poll = IF x.life = "stopping" THEN "none" ELSE "asking"]]
            /\ UNCHANGED <<saved, handled>> /\ Smoothly
  /\ UNCHANGED <<owner, settings, arrived, acked, broken>>

(* 409: somebody else asks for the updates; the poller ends. *)
Conflict(n) ==
  /\ node[n].poll = "asking" /\ Happens("conflict")
  /\ node' = [node EXCEPT ![n] =
                [WithoutPoller(node[n]) EXCEPT !.state = "conflict", !.recent = TRUE]]
  /\ UNCHANGED <<owner, settings, arrived, deliveryVars, broken>>

-----------------------------------------------------------------------------
UpdateArrives ==
  /\ arrived < MaxUpdates /\ arrived' = arrived + 1
  /\ UNCHANGED <<owner, node, settings, deliveryVars, broken>> /\ Smoothly

(* The settings are saved in one process, which wakes its own supervisor.  *)
Save(n) ==
  /\ node[n].life = "up" /\ settings.version <= MaxSaves
  /\ \E on \in BOOLEAN : settings' = [version |-> settings.version + 1, on |-> on]
  /\ node' = [node EXCEPT ![n].wake = TRUE]
  /\ UNCHANGED <<owner, arrived, deliveryVars, broken>> /\ Smoothly

(* on_shutdown: stop() ends the supervisor, then the poller, and only then *)
(* shutdown_scheduler gives the lock back.                                 *)
StopNode(n) ==
  /\ node[n].life = "up" /\ Happens("stop")
  /\ node' = [node EXCEPT ![n].life = "stopping", ![n].wake = TRUE]
  /\ UNCHANGED <<owner, settings, arrived, deliveryVars, broken>>

LoopEnds(n) ==
  /\ node[n].life = "stopping" /\ node[n].sup \in {"pass", "resting"}
  /\ node' = [node EXCEPT ![n].sup = "none"]
  /\ UNCHANGED <<owner, settings, arrived, deliveryVars, broken>> /\ Smoothly

Released(n) == IF owner = n THEN NoNode ELSE owner

Quits(n) ==
  /\ node[n].life = "stopping" /\ node[n].sup = "none"
  /\ Cut(node[n])
  /\ node' = [node EXCEPT ![n] = Absent]
  /\ owner' = Released(n)
  /\ UNCHANGED <<settings, arrived, deliveryVars>> /\ Smoothly

CrashNode(n) ==
  /\ node[n].life # "down" /\ Happens("crash")
  /\ Cut(node[n])
  /\ node' = [node EXCEPT ![n] = Absent]
  /\ owner' = Released(n)
  /\ UNCHANGED <<settings, arrived, deliveryVars>>

-----------------------------------------------------------------------------
Supervises(n) ==
  \/ Reconcile(n) \/ Probed(n) \/ ProbeFails(n) \/ Wakes(n) \/ LoopEnds(n) \/ Quits(n)

Polls(n) == Fetch(n) \/ Handled(n)

BotNext ==
  \/ UpdateArrives
  \/ \E n \in Nodes :
       Supervises(n) \/ Polls(n) \/ Recovers(n) \/ Conflict(n) \/ BootNode(n)
       \/ Save(n) \/ StopNode(n) \/ CrashNode(n)

(* The event loop steps both tasks, the calls of the Bot API return, and a *)
(* minute ends.                                                            *)
BotFairness ==
  \A n \in Nodes : /\ WF_botVars(Supervises(n)) /\ WF_botVars(Polls(n))
                   /\ WF_botVars(Recovers(n))

BotFairSpec == BotInit /\ [][BotNext]_botVars /\ BotFairness

-----------------------------------------------------------------------------
(* "So a multi-replica deployment never consumes the same update stream    *)
(* twice": a poller runs only where the scheduler lock is, in a shutdown   *)
(* and while the settings change too.                                      *)
OnlyOwnerPolls == \A n \in Nodes : node[n].poll # "none" => owner = n

(* A command is not carried out twice, after a crash or a restart either,  *)
(* as long as the offset could be written.                                 *)
HandledOnce == "disk" \notin trouble => \A u \in Updates : handled[u] <= 1

(* What Telegram will not send again has been handled, but for the update  *)
(* whose handling a stop, a crash or new settings cut off: the others of   *)
(* its batch come again.                                                   *)
LostOnlyIfCut ==
  LET now == {node[n].current : n \in {m \in Nodes : node[m].poll = "handling"}} IN
  Cardinality({u \in 1..arrived : u < saved} \ (finished \cup now)) <= broken

(* The process that holds the lock comes to poll with the saved settings,  *)
(* also after an error or a conflict, or stops polling if the bot is off.  *)
BotFollowsSettings ==
  \A n \in Nodes :
    /\ owner = n /\ settings.on ~>
         \/ owner # n \/ ~settings.on \/ node[n].life = "stopping"
         \/ node[n].poll # "none" /\ node[n].fingerprint = settings.version
    /\ ~settings.on ~> settings.on \/ node[n].poll = "none"

(* Every update is handled in the end, unless the bot is off or no process *)
(* holds the lock.                                                         *)
UpdateIsHandled ==
  \A u \in Updates :
    arrived >= u ~> handled[u] > 0 \/ ~settings.on \/ owner = NoNode

(* "Secondaries remain in standby and can take over if scheduler ownership *)
(* changes later" (main.py): when the lock is free, a process that is up   *)
(* comes to hold it.                                                       *)
StandbyTakesOver ==
  \A n \in Nodes :
    owner = NoNode /\ node[n].life = "up" ~> owner # NoNode \/ node[n].life # "up"

(* No update is handled twice or goes unhandled behind the offset.         *)
UpdatesAreKept == BotTypeOK /\ HandledOnce /\ LostOnlyIfCut

(* The bot comes to do what the settings say, and handles what it is sent. *)
BotServes == BotFollowsSettings /\ UpdateIsHandled
=============================================================================
