----------------------------- MODULE SignTaskRun -----------------------------
(***************************************************************************)
(* The runs of one sign task of one account: start_task_run and            *)
(* cancel_task_run of backend/services/sign_tasks.py around                *)
(* execute_sign_task of backend/services/sign_task_runner.py.              *)
(*                                                                         *)
(* The service keeps its bookkeeping in dictionaries keyed by account and  *)
(* task name: the mark that the task runs, the status a client polls, the  *)
(* asyncio.Task that cancel_task_run cancels and the live log.  A run goes *)
(* through suspended phases; an action is the code between two of them.    *)
(* Renaming the account moves the entries to another key.                  *)
(***************************************************************************)
EXTENDS Naturals, Sequences, FiniteSets

CONSTANTS
  Runs,        \* the runs, each with its own run_id
  Scheduled,   \* those the scheduler executes directly, without run_id
  CancelAt,    \* the phases in which the user may ask to cancel a run
  Renames,     \* whether the account may be renamed
  NoRun

(* Where a run is suspended: before its first step, in the account check,  *)
(* waiting for the account lock, working with the lock held, in the pause  *)
(* that follows a success, fetching the last message after the work, and   *)
(* sending the success notification.                                       *)
Suspended == {"created", "checking", "waiting", "running", "settling",
              "fetching", "notifying"}

Executing == Suspended \ {"created"}

Outcomes == {"succeeded", "failed", "timeout"}

Keys == {"old", "new"}   \* the names the account has had

ASSUME RunAssumption ==
  /\ IsFiniteSet(Runs)
  /\ NoRun \notin Runs
  /\ Scheduled \subseteq Runs
  /\ CancelAt \subseteq Suspended
  /\ Renames \in BOOLEAN

VARIABLES
  name,        \* the name of the account now
  ready,       \* created background tasks the event loop has not stepped yet
  active,      \* _active_tasks[key]
  status,      \* _run_statuses[key], the run_id and the state
  background,  \* _background_run_tasks[key]
  logs,        \* whether _active_logs[key] exists
  timer,       \* whether a cleanup of the status of the key is pending
  lockOf,      \* the run that holds the account lock of each name
  key,         \* the key each run captured when it started
  pc,          \* the phase of each run
  success,     \* state["success"] of each run
  cancelled,   \* state["cancelled"] of each run
  requested,   \* a CancelledError is on its way to the run
  recorded     \* what each run appended to the history of the task

service == <<active, status, background, timer>>
vars == <<name, ready, service, logs, lockOf, key, pc, success, cancelled,
          requested, recorded>>

NoStatus == [run |-> NoRun, state |-> "idle"]
Running(r) == [run |-> r, state |-> "running"]
States == {"idle", "running", "cancelled"} \cup Outcomes

TypeOK ==
  /\ name \in Keys
  /\ ready \in Seq(Runs)
  /\ active \in [Keys -> BOOLEAN]
  /\ status \in [Keys -> [run : Runs \cup {NoRun}, state : States]]
  /\ background \in [Keys -> Runs \cup {NoRun}]
  /\ logs \in [Keys -> BOOLEAN]
  /\ timer \in [Keys -> BOOLEAN]
  /\ lockOf \in [Keys -> Runs \cup {NoRun}]
  /\ key \in [Runs -> Keys]
  /\ pc \in [Runs -> {"new", "ended"} \cup Suspended]
  /\ success \in [Runs -> BOOLEAN]
  /\ cancelled \in [Runs -> BOOLEAN]
  /\ requested \in [Runs -> BOOLEAN]
  /\ recorded \in [Runs -> {"none"} \cup Outcomes]

Init ==
  /\ name = "old"
  /\ ready = <<>>
  /\ active = [k \in Keys |-> FALSE]
  /\ status = [k \in Keys |-> NoStatus]
  /\ background = [k \in Keys |-> NoRun]
  /\ logs = [k \in Keys |-> FALSE]
  /\ timer = [k \in Keys |-> FALSE]
  /\ lockOf = [k \in Keys |-> NoRun]
  /\ key = [r \in Runs |-> "old"]
  /\ pc = [r \in Runs |-> "new"]
  /\ success = [r \in Runs |-> FALSE]
  /\ cancelled = [r \in Runs |-> FALSE]
  /\ requested = [r \in Runs |-> FALSE]
  /\ recorded = [r \in Runs |-> "none"]

-----------------------------------------------------------------------------
(* _update_run_phase: the status becomes that of the run, if it has an id. *)
Phase(r, k) ==
  IF r \in Scheduled THEN status ELSE [status EXCEPT ![k] = Running(r)]

(* Mutant: the state is published whatever run the status is about. *)
PublishAnyway(r, seen, final) ==
  /\ pc' = [pc EXCEPT ![r] = "ended"]
  /\ timer' = [timer EXCEPT ![key[r]] = TRUE]
  /\ background' = [background EXCEPT ![key[r]] = NoRun]
  /\ status' = [seen EXCEPT ![key[r]] = [run |-> r, state |-> final]]

(* Mutant: the run compares the handle of the key instead of the run_id.   *)
PublishByHandle(r, seen, final) ==
  /\ pc' = [pc EXCEPT ![r] = "ended"]
  /\ background' = [background EXCEPT ![key[r]] = NoRun]
  /\ IF background[key[r]] = r
       THEN /\ status' = [seen EXCEPT ![key[r]].state = final]
            /\ timer' = [timer EXCEPT ![key[r]] = TRUE]
       ELSE status' = seen /\ UNCHANGED timer

(* The end of runner(): the final state is published unless the status is  *)
(* that of another run by now, and the handle of the key is dropped.       *)
Publish(r, seen, final) ==
  /\ pc' = [pc EXCEPT ![r] = "ended"]
  /\ IF r \in Scheduled
       THEN status' = seen /\ UNCHANGED <<background, timer>>
       ELSE /\ background' = [background EXCEPT ![key[r]] = NoRun]
            /\ IF seen[key[r]].run = r
                 THEN /\ status' = [seen EXCEPT ![key[r]].state = final]
                      /\ timer' = [timer EXCEPT ![key[r]] = TRUE]
                 ELSE status' = seen /\ UNCHANGED timer

(* The run stays suspended in the middle of _runner_finalize. *)
Suspend(r, phase, seen) ==
  /\ pc' = [pc EXCEPT ![r] = phase]
  /\ status' = seen
  /\ UNCHANGED <<active, background, timer>>

(* Mutant: the mark of a failed run is not taken back. *)
CloseOnSuccess(r, seen, out) ==
  /\ active' = [active EXCEPT ![key[r]] = out # "succeeded"]
  /\ Publish(r, seen, out)

(* The end of _runner_finalize: the task no longer counts as running. *)
Close(r, seen, out) ==
  /\ active' = [active EXCEPT ![key[r]] = FALSE]
  /\ Publish(r, seen, out)

(* Mutant: a cancelled run is recorded like any other. *)
RecordCancelled(r, seen, out, isCancelled) ==
  /\ recorded' = [recorded EXCEPT ![r] = out]
  /\ \/ Close(r, seen, IF isCancelled THEN "cancelled" ELSE out)
     \/ out = "succeeded" /\ ~isCancelled /\ Suspend(r, "notifying", seen)

(* Mutant: the history says what the run knew before it read the reply.    *)
RecordUnread(r, seen, out, isCancelled) ==
  IF isCancelled
    THEN Close(r, seen, "cancelled") /\ UNCHANGED recorded
    ELSE /\ recorded' = [recorded EXCEPT ![r] =
                           IF success[r] THEN "succeeded" ELSE out]
         /\ Close(r, seen, out)

(* History and notification, unless the run was cancelled.  Failures are   *)
(* announced without waiting, a success may be.                            *)
Record(r, seen, out, isCancelled) ==
  IF isCancelled
    THEN Close(r, seen, "cancelled") /\ UNCHANGED recorded
    ELSE /\ recorded' = [recorded EXCEPT ![r] = out]
         /\ \/ Close(r, seen, out)
            \/ out = "succeeded" /\ Suspend(r, "notifying", seen)

(* _runner_finalize.  A success may turn into a failure when the reply of  *)
(* the bot says so; otherwise its last message may have to be fetched.     *)
Finalize(r, seen, out, isCancelled) ==
  /\ lockOf' = [k \in Keys |-> IF lockOf[k] = r THEN NoRun ELSE lockOf[k]]
  /\ cancelled' = [cancelled EXCEPT ![r] = isCancelled]
  /\ \E verdict \in {out} \cup (IF out = "succeeded" THEN {"failed"} ELSE {}) :
       /\ success' = [success EXCEPT ![r] = verdict = "succeeded"]
       /\ \/ Record(r, seen, verdict, isCancelled)
          \/ /\ verdict = "succeeded"
             /\ Suspend(r, "fetching", seen)
             /\ UNCHANGED recorded

-----------------------------------------------------------------------------
(* start_task_run: nothing that happens until the new task is stepped      *)
(* marks the sign task as running.                                         *)
Start(r) ==
  /\ pc[r] = "new"
  /\ r \notin Scheduled
  /\ ~active[name]
  /\ status' = [status EXCEPT ![name] = Running(r)]
  /\ background' = [background EXCEPT ![name] = r]
  /\ ready' = Append(ready, r)
  /\ key' = [key EXCEPT ![r] = name]
  /\ pc' = [pc EXCEPT ![r] = "created"]
  /\ UNCHANGED <<name, active, timer, logs, lockOf, success, cancelled,
                 requested, recorded>>

(* execute_sign_task up to its first suspension: the task is marked as     *)
(* running and its configuration loaded, which fails if it is gone.        *)
Execute(r, k) ==
  /\ logs' = [logs EXCEPT ![k] = TRUE]
  /\ \/ /\ k = name
        /\ active' = [active EXCEPT ![k] = TRUE]
        /\ pc' = [pc EXCEPT ![r] = "checking"]
        /\ status' = Phase(r, k)
        /\ UNCHANGED <<background, timer, lockOf, success, cancelled, recorded>>
     \/ Finalize(r, status, "failed", FALSE)

(* Mutant: is_task_running is checked in start_task_run only. *)
BeginUnchecked(r) ==
  /\ pc[r] = "created"
  /\ ready # <<>> /\ r = Head(ready)
  /\ ~requested[r]
  /\ ready' = Tail(ready)
  /\ Execute(r, key[r])
  /\ UNCHANGED <<name, key, requested>>

(* The first step of runner(), in the order in which the tasks were        *)
(* created; a task that is already running is refused.                     *)
Begin(r) ==
  /\ pc[r] = "created"
  /\ ready # <<>> /\ r = Head(ready)
  /\ ~requested[r]
  /\ ready' = Tail(ready)
  /\ IF active[key[r]]
       THEN /\ Publish(r, status, "failed")
            /\ UNCHANGED <<active, logs, lockOf, success, cancelled, recorded>>
       ELSE Execute(r, key[r])
  /\ UNCHANGED <<name, key, requested>>

(* The scheduler awaits execute_sign_task itself, without run_id. *)
Schedule(r) ==
  /\ pc[r] = "new"
  /\ r \in Scheduled
  /\ ~active[name]
  /\ key' = [key EXCEPT ![r] = name]
  /\ logs' = [logs EXCEPT ![name] = TRUE]
  /\ \/ /\ active' = [active EXCEPT ![name] = TRUE]
        /\ pc' = [pc EXCEPT ![r] = "checking"]
        /\ UNCHANGED recorded
     \/ /\ recorded' = [recorded EXCEPT ![r] = "failed"]
        /\ pc' = [pc EXCEPT ![r] = "ended"]
        /\ UNCHANGED active
  /\ UNCHANGED <<name, ready, status, background, timer, lockOf, success,
                 cancelled, requested>>

-----------------------------------------------------------------------------
Proceeds(r, phase) ==
  /\ pc[r] = phase
  /\ ~requested[r]
  /\ UNCHANGED <<name, ready, logs, key, requested>>

(* The account check: an invalid account ends the run. *)
Checked(r) ==
  /\ Proceeds(r, "checking")
  /\ \/ /\ pc' = [pc EXCEPT ![r] = "waiting"]
        /\ status' = Phase(r, key[r])
        /\ UNCHANGED <<active, background, timer, lockOf, success, cancelled,
                       recorded>>
     \/ Finalize(r, status, "failed", FALSE)

(* The account lock is obtained.  From here the log of the run is written  *)
(* to: without it the run fails with a KeyError.                           *)
Acquire(r) ==
  /\ Proceeds(r, "waiting")
  /\ lockOf[key[r]] = NoRun
  /\ IF logs[key[r]]
       THEN /\ lockOf' = [lockOf EXCEPT ![key[r]] = r]
            /\ pc' = [pc EXCEPT ![r] = "running"]
            /\ status' = Phase(r, key[r])
            /\ UNCHANGED <<active, background, timer, success, cancelled,
                           recorded>>
       ELSE Finalize(r, Phase(r, key[r]), "failed", FALSE)

(* Cooldown, set-up of the signer, the work with its retries: it succeeds, *)
(* fails or exceeds the execution timeout.                                 *)
WorkSucceeds(r) ==
  /\ Proceeds(r, "running")
  /\ pc' = [pc EXCEPT ![r] = "settling"]
  /\ success' = [success EXCEPT ![r] = TRUE]
  /\ UNCHANGED <<service, lockOf, cancelled, recorded>>

WorkFails(r) ==
  /\ Proceeds(r, "running")
  /\ \E out \in {"failed", "timeout"} :
       Finalize(r, Phase(r, key[r]), out, FALSE)

Settled(r) ==
  /\ Proceeds(r, "settling")
  /\ Finalize(r, Phase(r, key[r]), "succeeded", FALSE)

Fetched(r) ==
  /\ Proceeds(r, "fetching")
  /\ Record(r, status, "succeeded", cancelled[r])
  /\ UNCHANGED <<lockOf, success, cancelled>>

Notified(r) ==
  /\ Proceeds(r, "notifying")
  /\ Close(r, status, "succeeded")
  /\ UNCHANGED <<lockOf, success, cancelled, recorded>>

-----------------------------------------------------------------------------
(* cancel_task_run: the handle of the key is cancelled.  The error arrives *)
(* when the run is stepped next.                                           *)
CancelRun(r) ==
  /\ background[name] = r
  /\ pc[r] \in CancelAt
  /\ ~requested[r]
  /\ requested' = [requested EXCEPT ![r] = TRUE]
  /\ UNCHANGED <<name, ready, service, logs, lockOf, key, pc, success,
                 cancelled, recorded>>

Arrives(r) ==
  /\ requested[r]
  /\ requested' = [requested EXCEPT ![r] = FALSE]
  /\ UNCHANGED <<name, logs, key>>

(* A task cancelled before its first step runs none of its code. *)
CancelUnstarted(r) ==
  /\ Arrives(r)
  /\ pc[r] = "created"
  /\ ready # <<>> /\ r = Head(ready)
  /\ ready' = Tail(ready)
  /\ pc' = [pc EXCEPT ![r] = "ended"]
  /\ UNCHANGED <<service, lockOf, success, cancelled, recorded>>

(* Inside the try of execute_sign_task the cancellation is noted, the      *)
(* finally clause runs, and the runner publishes "cancelled".              *)
CancelExecution(r) ==
  /\ Arrives(r)
  /\ pc[r] \in {"checking", "waiting", "running", "settling"}
  /\ Finalize(r, IF pc[r] \in {"running", "settling"} THEN Phase(r, key[r])
                                                      ELSE status,
              IF success[r] THEN "succeeded" ELSE "failed", TRUE)
  /\ UNCHANGED ready

(* Inside _runner_finalize the rest of it is skipped. *)
CancelFinalize(r) ==
  /\ Arrives(r)
  /\ pc[r] \in {"fetching", "notifying"}
  /\ Publish(r, status, "cancelled")
  /\ UNCHANGED <<ready, active, lockOf, success, cancelled, recorded>>

-----------------------------------------------------------------------------
(* The timers: ten minutes after its end the status of a run is dropped,   *)
(* one minute after it the log, unless the task runs again.                *)
StatusCleanup(k) ==
  /\ timer[k]
  /\ timer' = [timer EXCEPT ![k] = FALSE]
  /\ status' = IF active[k] THEN status ELSE [status EXCEPT ![k] = NoStatus]
  /\ UNCHANGED <<name, ready, active, background, logs, lockOf, key, pc,
                 success, cancelled, requested, recorded>>

LogCleanup(k) ==
  /\ logs[k]
  /\ ~active[k]
  /\ logs' = [logs EXCEPT ![k] = FALSE]
  /\ UNCHANGED <<name, ready, service, lockOf, key, pc, success, cancelled,
                 requested, recorded>>

(* rename_account, under the account locks of both names: the entries move *)
(* to the new key; what the runs captured stays the same.                  *)
Moved(f, empty) == [k \in Keys |-> IF k = "new" THEN f["old"] ELSE empty]

Rename ==
  /\ Renames
  /\ name = "old"
  /\ \A k \in Keys : lockOf[k] = NoRun
  /\ name' = "new"
  /\ active' = Moved(active, FALSE)
  /\ status' = Moved(status, NoStatus)
  /\ background' = Moved(background, NoRun)
  /\ logs' = Moved(logs, FALSE)
  /\ UNCHANGED <<ready, timer, lockOf, key, pc, success, cancelled, requested,
                 recorded>>

-----------------------------------------------------------------------------
RunStep(r) ==
  \/ Begin(r)
  \/ Checked(r)
  \/ Acquire(r)
  \/ WorkSucceeds(r)
  \/ WorkFails(r)
  \/ Settled(r)
  \/ Fetched(r)
  \/ Notified(r)
  \/ CancelUnstarted(r)
  \/ CancelExecution(r)
  \/ CancelFinalize(r)

Next ==
  \/ \E r \in Runs : Start(r) \/ Schedule(r) \/ RunStep(r) \/ CancelRun(r)
  \/ \E k \in Keys : StatusCleanup(k) \/ LogCleanup(k)
  \/ Rename

Spec == Init /\ [][Next]_vars

(* The event loop steps every ready coroutine, and each wait of a run ends:*)
(* the check, the work and the fetch have timeouts, the other users of the *)
(* account lock release it, the notification request returns.              *)
FairSpec == Spec /\ \A r \in Runs : WF_vars(RunStep(r))

-----------------------------------------------------------------------------
IsExecuting(r) == pc[r] \in Executing

(* A sign task is executed by one run at a time, whoever asks for it: the  *)
(* scheduler, or several start_task_run before any of them is stepped.     *)
OneRunPerTask ==
  \A q, r \in Runs :
    IsExecuting(q) /\ IsExecuting(r) /\ key[q] = key[r] => q = r

(* is_task_running tells the truth: a task is marked as running exactly    *)
(* while a run of it executes.                                             *)
ActiveMeansExecuting ==
  \A k \in Keys : active[k] <=> \E r \in Runs : IsExecuting(r) /\ key[r] = k

(* A client that polls a run sees that run while it executes, not one that *)
(* was refused in the meantime.                                            *)
StatusFollowsRun ==
  \A r \in Runs \ Scheduled :
    IsExecuting(r) => status[key[r]] = Running(r)

(* A run that has ended is not reported as running.                        *)
NoGhostRunning ==
  \A k \in Keys :
    status[k].state = "running" => pc[status[k].run] # "ended"

(* A run reported as cancelled has left no entry in the history.           *)
CancelledLeavesNoHistory ==
  \A k \in Keys :
    status[k].state = "cancelled" => recorded[status[k].run] = "none"

(* The status a client reads at the end is what the history says: a        *)
(* success and a timeout were recorded as such, a failure was recorded     *)
(* unless the run was refused.                                             *)
StatusMatchesHistory ==
  \A k \in Keys :
    LET s == status[k] IN
    /\ s.state \in {"succeeded", "timeout"} => recorded[s.run] = s.state
    /\ s.state = "failed" => recorded[s.run] \in {"failed", "none"}

(* A run that executes in the background can be cancelled.                 *)
Cancellable ==
  \A r \in Runs \ Scheduled :
    IsExecuting(r) => background[key[r]] = r

(* A task never stays marked as running: it can be run again.              *)
TaskIsReleased ==
  \A k \in Keys : active[k] ~> ~active[k]

(* Every run that is started comes to an end a client can see: its status  *)
(* becomes final, or another run takes its place.                          *)
RunSettles ==
  \A r \in Runs :
    pc[r] = "created" ~> \A k \in Keys : status[k] # Running(r)

(* The status of a task tells which run executes, and that none does.      *)
StatusTellsTheRun == StatusFollowsRun /\ NoGhostRunning

(* Every run ends: for the next one, and for who polls its status.         *)
RunsEnd == TaskIsReleased /\ RunSettles
=============================================================================
