---------------------------- MODULE BackgroundJobs ----------------------------
(***************************************************************************)
(* The jobs that check many accounts (backend/services/background_job.py   *)
(* and account_status_jobs.py): a store of jobs in memory with one file    *)
(* each, a coroutine per job, a cancellation that comes from a worker      *)
(* thread of the HTTP server, trimming of the history, and restarts that   *)
(* find jobs whose coroutine is gone.                                      *)
(*                                                                         *)
(* Jobs are numbered in the order of their creation.  An action is what    *)
(* the event loop does between two awaits; the cancelling thread may be    *)
(* interrupted between its steps (preempt).                                *)
(***************************************************************************)
EXTENDS Naturals, FiniteSets

CONSTANTS
  MaxJobs,      \* how many jobs are ever created
  MaxHistory,   \* max_history, 50 in the code
  ListLimit,    \* the active check looks at so many jobs, 10 in the code
  Batch,        \* accounts to check per job
  MaxRestarts,  \* how often the process restarts
  WriteFaults,  \* the writes that may fail: "create", "later", "unlink"
  Scenarios     \* the jobs whose file may fail (flaky), and whether the
                \* cancelling thread may be interrupted (preempt)

ASSUME JobsAssumption ==
  /\ MaxJobs \in Nat /\ MaxHistory \in Nat \ {0} /\ ListLimit \in Nat \ {0}
  /\ Batch \in Nat \ {0} /\ MaxRestarts \in Nat
  /\ WriteFaults \subseteq {"create", "later", "unlink"}
  /\ Scenarios \subseteq [flaky : SUBSET (1..MaxJobs), preempt : BOOLEAN]

VARIABLES
  status,     \* self.jobs: the status of each job in memory, "none" if absent
  place,      \* the position of each job in the dictionary
  stamp,      \* created_at in seconds, 0 before the creation
  file,       \* the status in the job's file, "none" without file
  check,      \* where the coroutine of each job is
  checked,    \* how many accounts it has checked
  asked,      \* the jobs whose cancellation was accepted
  canceller,  \* the cancelling thread: its job (0: idle) and its next step
  clock,      \* the wall clock
  restarts,
  scenario    \* one of Scenarios

jobVars == <<status, place, stamp, file, check, checked, asked, canceller,
             clock, restarts, scenario>>

Jobs == 1..MaxJobs
ActiveStatuses == {"running", "canceling"}
FinalStatuses == {"completed", "canceled", "failed"}
Statuses == ActiveStatuses \cup FinalStatuses \cup {"none"}
Executing == {"created", "testing", "pausing"}
Idle == [job |-> 0, at |-> "check"]

JobTypeOK ==
  /\ status \in [Jobs -> Statuses] /\ file \in [Jobs -> Statuses]
  /\ place \in [Jobs -> Nat] /\ stamp \in [Jobs -> Nat]
  /\ check \in [Jobs -> Executing \cup {"none", "ended"}]
  /\ checked \in [Jobs -> 0..Batch]
  /\ asked \subseteq Jobs
  /\ canceller \in [job : 0..MaxJobs, at : {"check", "write"}]
  /\ clock \in Nat /\ restarts \in 0..MaxRestarts
  /\ scenario \in Scenarios

JobsInit ==
  /\ status = [j \in Jobs |-> "none"] /\ file = [j \in Jobs |-> "none"]
  /\ place = [j \in Jobs |-> 0] /\ stamp = [j \in Jobs |-> 0]
  /\ check = [j \in Jobs |-> "none"] /\ checked = [j \in Jobs |-> 0]
  /\ asked = {} /\ canceller = Idle
  /\ clock = 1 /\ restarts = 0
  /\ scenario \in Scenarios

-----------------------------------------------------------------------------
(* The store.                                                              *)

Stored == {j \in Jobs : status[j] # "none"}

(* sorted(..., key=created_at, reverse=True) keeps the order of equal keys:
   the first n of the jobs J, newest first. *)
(* Mutant: oldest first. *)
PrecedesOlder(made, at, i, j) == made[i] < made[j]

Precedes(made, at, i, j) ==
  \/ made[i] > made[j]
  \/ made[i] = made[j] /\ at[i] < at[j]
Newest(J, made, at, n) ==
  {j \in J : Cardinality({i \in J : Precedes(made, at, i, j)}) < n}

Active(j) == status[j] \in ActiveStatuses
(* Mutant: a job that is being cancelled is not looked at. *)
RunningListed ==
  \E j \in Newest(Stored, stamp, place, ListLimit) : status[j] = "running"

ActiveListed == \E j \in Newest(Stored, stamp, place, ListLimit) : Active(j)
Runs(j) == check[j] \in Executing

(* _write_job of a job with status s: it may fail, and then it raises. *)
Saved(j, s) == [file EXCEPT ![j] = s]
Written(j, s) == file' = Saved(j, s)
Fails(j, w) == j \in scenario.flaky /\ w \in WriteFaults
WriteFails(j) == Fails(j, "later") /\ UNCHANGED file

(* mark_failed, the last thing a coroutine does: the error of its own write
   is lost with it.  A job that is no longer stored is left alone. *)
(* Mutant: the state is set after the write. *)
MarkFailedOnceWritten(j) ==
  /\ check' = [check EXCEPT ![j] = "ended"]
  /\ \/ /\ j \in Stored /\ Written(j, "failed")
        /\ status' = [status EXCEPT ![j] = "failed"]
     \/ (j \in Stored => WriteFails(j)) /\ UNCHANGED <<status, file>>

MarkFailed(j) ==
  /\ check' = [check EXCEPT ![j] = "ended"]
  /\ IF j \in Stored
       THEN /\ status' = [status EXCEPT ![j] = "failed"]
            /\ Written(j, "failed") \/ WriteFails(j)
       ELSE UNCHANGED <<status, file>>

(* mark_completed; when its write fails the runner calls mark_failed. *)
(* Mutant: the cancellation is not looked at again. *)
VerdictCompleted(j) == "completed"

Verdict(j) == IF status[j] = "canceling" THEN "canceled" ELSE "completed"
(* Mutant: the error of the write is ignored. *)
MarkCompletedUnwritten(j) ==
  /\ check' = [check EXCEPT ![j] = "ended"]
  /\ status' = IF j \in Stored THEN [status EXCEPT ![j] = Verdict(j)] ELSE status
  /\ \/ j \in Stored /\ Written(j, Verdict(j))
     \/ (j \in Stored => Fails(j, "later")) /\ UNCHANGED file

MarkCompleted(j) ==
  \/ /\ check' = [check EXCEPT ![j] = "ended"]
     /\ IF j \in Stored
          THEN /\ status' = [status EXCEPT ![j] = Verdict(j)]
               /\ Written(j, Verdict(j))
          ELSE UNCHANGED <<status, file>>
  \/ Fails(j, "later") /\ MarkFailed(j)

-----------------------------------------------------------------------------
(* Starting: the lock of start_account_status_check_job and the absence of
   awaits make the look at the active jobs and the creation one step.      *)

(* The clock does not go back; fewer than ListLimit jobs share a second. *)
Second(t) ==
  /\ t \in {clock, clock + 1}
  /\ Cardinality({j \in Jobs : stamp[j] = t}) < ListLimit

NextJob(j) == \A i \in Jobs : stamp[i] # 0 <=> i < j
AtEnd(j) == [place EXCEPT ![j] = MaxJobs + j]

(* _trim_history after the creation of j: a file may survive its job. *)
Trimmed(j) ==
  LET J == Stored \cup {j}
      dropped == J \ Newest(J, stamp', place', MaxHistory)
  IN /\ status' = [i \in Jobs |-> IF i \in dropped THEN "none"
                                  ELSE IF i = j THEN "running" ELSE status[i]]
     /\ \E stays \in SUBSET {i \in dropped : Fails(i, "unlink")} :
          file' = [i \in Jobs |-> IF i \in dropped \ stays THEN "none"
                                    ELSE IF i = j THEN "running" ELSE file[i]]

StartCheck(j) ==
  /\ NextJob(j) /\ ~ActiveListed
  /\ \E t \in {clock, clock + 1} :
       Second(t) /\ clock' = t /\ stamp' = [stamp EXCEPT ![j] = t]
  /\ place' = AtEnd(j)
  /\ \/ Trimmed(j) /\ check' = [check EXCEPT ![j] = "created"]
     \/ /\ Fails(j, "create")      \* raised by create_job: no coroutine
        /\ status' = [status EXCEPT ![j] = "running"]
        /\ UNCHANGED <<file, check>>
  /\ UNCHANGED <<checked, asked, canceller, restarts, scenario>>

-----------------------------------------------------------------------------
(* The coroutine: _run_status_check inside _runner.                        *)

CancelRequested(j) == status[j] = "canceling"

JobStep == UNCHANGED <<place, stamp, asked, canceller, clock, restarts, scenario>>

(* Going on to a point of the loop; logs and progress write the job. *)
GoOn(j, at) == check' = [check EXCEPT ![j] = at] /\ UNCHANGED status
Record(j) == IF j \in Stored THEN Written(j, status[j]) ELSE UNCHANGED file
RecordFails(j) == Fails(j, "later") /\ MarkFailed(j)

Begin(j) ==
  /\ check[j] = "created"
  /\ \/ CancelRequested(j) /\ MarkCompleted(j)
     \/ ~CancelRequested(j) /\ GoOn(j, "testing") /\ Record(j)
     \/ RecordFails(j)
  /\ UNCHANGED checked /\ JobStep

(* Mutants: one account too many; an account is tested until it works. *)
TestedBeyond(j) ==
  /\ check[j] = "testing"
  /\ checked' = [checked EXCEPT ![j] = @ + 1]
  /\ \/ CancelRequested(j) /\ MarkCompleted(j)
     \/ ~CancelRequested(j) /\ GoOn(j, "pausing") /\ Record(j)
     \/ RecordFails(j)
  /\ JobStep

TestedUntilItWorks(j) ==
  /\ check[j] = "testing"
  /\ \E d \in {0, 1} : checked' = [checked EXCEPT ![j] = @ + d]
  /\ LET over == checked'[j] = Batch \/ CancelRequested(j)
     IN \/ over /\ MarkCompleted(j)
        \/ ~over /\ GoOn(j, "pausing") /\ Record(j)
        \/ RecordFails(j)
  /\ JobStep

Tested(j) ==
  /\ check[j] = "testing"
  /\ checked' = [checked EXCEPT ![j] = @ + 1]
  /\ LET over == checked'[j] = Batch \/ CancelRequested(j)
     IN \/ over /\ MarkCompleted(j)
        \/ ~over /\ GoOn(j, "pausing") /\ Record(j)
        \/ RecordFails(j)
  /\ JobStep

Paused(j) ==
  /\ check[j] = "pausing"
  /\ \/ CancelRequested(j) /\ (MarkCompleted(j) \/ RecordFails(j))
     \/ ~CancelRequested(j) /\ GoOn(j, "testing") /\ UNCHANGED file
  /\ UNCHANGED checked /\ JobStep

-----------------------------------------------------------------------------
(* request_cancel, in a thread of the server.                              *)

ThreadStep == UNCHANGED <<place, stamp, check, checked, clock, restarts, scenario>>

(* Mutant: a job that has ended may be cancelled. *)
CancelAnything(j) ==
  /\ ~scenario.preempt /\ j \in Stored
  /\ status' = [status EXCEPT ![j] = "canceling"]
  /\ asked' = asked \cup {j} /\ Written(j, "canceling")
  /\ UNCHANGED canceller /\ ThreadStep

CancelNow(j) ==
  /\ ~scenario.preempt /\ Active(j)
  /\ status' = [status EXCEPT ![j] = "canceling"]
  /\ \/ asked' = asked \cup {j} /\ Written(j, "canceling") /\ status[j] = "running"
     \/ asked' = asked \cup {j} /\ UNCHANGED file /\ status[j] = "canceling"
     \/ UNCHANGED asked /\ WriteFails(j) /\ status[j] = "running"
  /\ UNCHANGED canceller /\ ThreadStep

(* The status is read ... *)
CancelReads(j) ==
  /\ scenario.preempt /\ canceller = Idle /\ status[j] = "running"
  /\ canceller' = [job |-> j, at |-> "check"]
  /\ UNCHANGED <<status, file, asked>> /\ ThreadStep

(* ... set, whatever it has become ... *)
CancelSets(j) ==
  /\ canceller = [job |-> j, at |-> "check"]
  /\ canceller' = [job |-> j, at |-> "write"]
  /\ status' = IF j \in Stored THEN [status EXCEPT ![j] = "canceling"] ELSE status
  /\ UNCHANGED <<file, asked>> /\ ThreadStep

(* ... and written as it was when the writing began. *)
CancelWrites(j) ==
  /\ canceller = [job |-> j, at |-> "write"]
  /\ canceller' = Idle
  /\ \/ /\ asked' = asked \cup {j}
        /\ \E s \in {"canceling", status[j]} \ {"none"} : Written(j, s)
     \/ UNCHANGED asked /\ WriteFails(j)
  /\ UNCHANGED status /\ ThreadStep

-----------------------------------------------------------------------------
(* The process ends.  When it is shut down, a coroutine is cancelled and its
   done callback writes the job as failed; after a crash it does not.  Then
   _load_jobs: what was active is failed, the newest MaxHistory are kept,
   files of the same second in the order of the directory.                 *)

Sorted(made, at, J) ==
  /\ {at[j] : j \in J} = 1..Cardinality(J)
  /\ \A i, j \in J : made[i] > made[j] => at[i] < at[j]

ProcessRestarts ==
  /\ restarts < MaxRestarts /\ restarts' = restarts + 1
  /\ \E ended \in SUBSET {j \in Jobs : Runs(j) /\ Active(j)},
        at \in [Jobs -> 0..MaxJobs] :
       LET left == [j \in Jobs |-> IF j \in ended THEN "failed" ELSE file[j]]
           loaded == {j \in Jobs : left[j] # "none"}
           kept == Newest(loaded, stamp, at, MaxHistory)
           Read(j) == IF left[j] \in ActiveStatuses THEN "failed" ELSE left[j]
       IN /\ Sorted(stamp, at, loaded) /\ \A j \in Jobs \ loaded : at[j] = 0
          /\ place' = at
          /\ status' = [j \in Jobs |-> IF j \in kept THEN Read(j) ELSE "none"]
          /\ \E lost \in SUBSET {j \in Jobs : Fails(j, "later")} :
               file' = [j \in Jobs |-> IF j \in lost THEN left[j] ELSE Read(j)]
  /\ check' = [j \in Jobs |-> IF Runs(j) THEN "ended" ELSE check[j]]
  /\ canceller' = Idle
  /\ UNCHANGED <<stamp, checked, asked, clock, scenario>>

-----------------------------------------------------------------------------
CheckStep(j) == Begin(j) \/ Tested(j) \/ Paused(j)
Cancel(j) == CancelNow(j) \/ CancelReads(j) \/ CancelSets(j) \/ CancelWrites(j)

JobsNext ==
  \/ ProcessRestarts
  \/ \E j \in Jobs : StartCheck(j) \/ CheckStep(j) \/ Cancel(j)

JobsSpec == JobsInit /\ [][JobsNext]_jobVars
JobsFairness == \A j \in Jobs : WF_jobVars(CheckStep(j))
FairJobsSpec == JobsSpec /\ JobsFairness

-----------------------------------------------------------------------------
(* Properties.                                                             *)

(* Telegram is asked by one batch at a time, although only the ten newest
   jobs are looked at before another is created and the list is sorted by
   whole seconds (account_status_jobs.py, _start_lock). *)
OneCheck == Cardinality({j \in Jobs : Runs(j)}) <= 1

(* A batch that runs is in the history and active there, whatever was
   trimmed, so it can be watched and cancelled (_trim_history). *)
RunningCheckIsListed == \A j \in Jobs : Runs(j) => Active(j) /\ file[j] # "none"

(* A job is active only while its coroutine runs.  Anything else would
   refuse every later batch until the process restarts. *)
ActiveIsRunning ==
  "create" \notin WriteFaults /\ ~scenario.preempt => \A j \in Jobs : Active(j) => Runs(j)

(* Once ended, a job keeps the state it ended in, also over restarts and
   failed writes, as long as the store has it. *)
FinalIsFinal ==
  [][~scenario.preempt => \A j \in Jobs :
       status[j] \in FinalStatuses => status'[j] \in {status[j], "none"}]_jobVars

(* An accepted cancellation is never answered with a completed job, not even
   when it arrives between the last account and the end (mark_completed). *)
CancelWins == \A j \in asked : status[j] # "completed"

(* A completed job has checked every account of its batch, and completed and
   canceled are told to clients only when the file says the same. *)
OutcomeIsDurable ==
  \A j \in Jobs :
    /\ status[j] = "completed" => checked[j] = Batch
    /\ ~scenario.preempt /\ status[j] \in {"completed", "canceled"} => file[j] = status[j]

(* Every job settles, so that the next batch can be started. *)
JobSettles ==
  "create" \notin WriteFaults =>
    \A j \in Jobs : (~scenario.preempt /\ Active(j)) ~> ~Active(j)

(* One batch at most runs, and it can be found: whoever asks for another one
   is given it. *)
OneListedCheck == JobTypeOK /\ OneCheck /\ RunningCheckIsListed

(* What a job ended with is true, on disk, and final. *)
OutcomeStands == []OutcomeIsDurable /\ []CancelWins /\ FinalIsFinal
=============================================================================
