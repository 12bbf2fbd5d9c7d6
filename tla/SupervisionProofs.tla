------------------------- MODULE SupervisionProofs --------------------------
(***************************************************************************)
(* Proofs about the two supervisors of the backend: BackgroundJobs, then   *)
(* SourceSupervisor.                                                       *)
(***************************************************************************)
EXTENDS BackgroundJobs, SourceSupervisor, FiniteSetTheorems, TLAPS

-----------------------------------------------------------------------------
(***************************************************************************)
(* BackgroundJobs, for any number of jobs, accounts, restarts and failing  *)
(* writes: what a job ended with is true, on disk and final, one batch runs*)
(* at a time and can be found, and only such a job is active.              *)
(***************************************************************************)

(* Proofs about BackgroundJobs, for any number of jobs, accounts, restarts *)
(* and failing writes: what a job ended with is true, on disk and final,   *)
(* one batch runs at a time and can be found, and only such a job is       *)
(* active.                                                                 *)
(***************************************************************************)

(* The variables the argument is about.                                    *)
Shape ==
  /\ status \in [Jobs -> Statuses] /\ file \in [Jobs -> Statuses]
  /\ check \in [Jobs -> Executing \cup {"none", "ended"}]
  /\ checked \in [Jobs -> Nat] /\ stamp \in [Jobs -> Nat]
  /\ asked \subseteq Jobs /\ clock \in Nat \ {0}
  /\ scenario.preempt \in BOOLEAN

(* A job that is not created yet has left no trace.                        *)
Untouched(j) ==
  stamp[j] = 0 =>
    /\ status[j] = "none" /\ file[j] = "none" /\ check[j] = "none"
    /\ j \notin asked /\ canceller.job # j

Done == {"completed", "canceled"}
Setting(j) == canceller = [job |-> j, at |-> "write"]

(* A job is not completed, in memory or on disk, before its last account,  *)
(* nor once its cancellation was set.                                      *)
Truthful(j) ==
  /\ Runs(j) => status[j] \in ActiveStatuses \cup {"none"} /\ file[j] # "completed"
  /\ status[j] = "completed" \/ file[j] = "completed" => checked[j] = Batch
  /\ j \in asked \/ Setting(j) => status[j] \notin {"running", "completed"}
  /\ j \in asked => file[j] # "completed"

(* Without an interrupted cancellation the file says completed or canceled *)
(* only of jobs that are so, or are no longer stored.                      *)
Durable(j) ==
  /\ Runs(j) => file[j] \notin Done
  /\ status[j] \in Done => file[j] = status[j]
  /\ status[j] \in ActiveStatuses \cup {"failed"} => file[j] \notin Done

(* The inductive invariant.                                                *)
JobsInv ==
  /\ Shape
  /\ \A j \in Jobs : Untouched(j) /\ Truthful(j)
  /\ ~scenario.preempt => canceller = Idle /\ \A j \in Jobs : Durable(j)

Kept(j) ==
  /\ Untouched(j)' /\ Truthful(j)'
  /\ ~scenario'.preempt => Durable(j)'

(* What is assumed of the constants, for the provers.                      *)
LEMMA Facts ==
  /\ Batch \in Nat \ {0} /\ MaxJobs \in Nat /\ Jobs = 1..MaxJobs
  /\ \A s \in Scenarios : s.preempt \in BOOLEAN
BY JobsAssumption DEF Jobs

(* mark_failed and mark_completed, for the job itself.                     *)
LEMMA Failing ==
  \A j \in Jobs :
    Shape /\ MarkFailed(j) =>
      /\ status' \in [Jobs -> Statuses] /\ file' \in [Jobs -> Statuses]
      /\ check' = [check EXCEPT ![j] = "ended"]
      /\ \A i \in Jobs \ {j} : status'[i] = status[i] /\ file'[i] = file[i]
      /\ \/ status[j] = "none" /\ status'[j] = "none" /\ file'[j] = file[j]
         \/ status[j] # "none" /\ status'[j] = "failed" /\ file'[j] \in {"failed", file[j]}
<1> SUFFICES ASSUME NEW j \in Jobs, Shape, MarkFailed(j)
             PROVE  /\ status' \in [Jobs -> Statuses] /\ file' \in [Jobs -> Statuses]
                    /\ check' = [check EXCEPT ![j] = "ended"]
                    /\ \A i \in Jobs \ {j} : status'[i] = status[i] /\ file'[i] = file[i]
                    /\ \/ status[j] = "none" /\ status'[j] = "none" /\ file'[j] = file[j]
                       \/ /\ status[j] # "none" /\ status'[j] = "failed"
                          /\ file'[j] \in {"failed", file[j]}
  OBVIOUS
<1> USE DEF Shape, MarkFailed, Stored, Written, Saved, WriteFails, Statuses, FinalStatuses
<1>1. CASE j \in Stored /\ file' = [file EXCEPT ![j] = "failed"]
  BY <1>1
<1>2. CASE j \in Stored /\ file' = file
  BY <1>2
<1>3. CASE j \notin Stored
  BY <1>3
<1> QED BY <1>1, <1>2, <1>3

(* mark_completed writes its verdict, or fails as above.                   *)
LEMMA Completing ==
  \A j \in Jobs :
    Shape /\ MarkCompleted(j) =>
      /\ status' \in [Jobs -> Statuses] /\ file' \in [Jobs -> Statuses]
      /\ check' = [check EXCEPT ![j] = "ended"]
      /\ \A i \in Jobs \ {j} : status'[i] = status[i] /\ file'[i] = file[i]
      /\ \/ status[j] = "none" /\ status'[j] = "none" /\ file'[j] = file[j]
         \/ status[j] # "none" /\ status'[j] = "failed" /\ file'[j] \in {"failed", file[j]}
         \/ status[j] = "canceling" /\ status'[j] = "canceled" /\ file'[j] = "canceled"
         \/ /\ status[j] \notin {"none", "canceling"}
            /\ status'[j] = "completed" /\ file'[j] = "completed"
<1> SUFFICES ASSUME NEW j \in Jobs, Shape, MarkCompleted(j)
             PROVE  /\ status' \in [Jobs -> Statuses] /\ file' \in [Jobs -> Statuses]
                    /\ check' = [check EXCEPT ![j] = "ended"]
                    /\ \A i \in Jobs \ {j} : status'[i] = status[i] /\ file'[i] = file[i]
                    /\ \/ status[j] = "none" /\ status'[j] = "none" /\ file'[j] = file[j]
                       \/ /\ status[j] # "none" /\ status'[j] = "failed"
                          /\ file'[j] \in {"failed", file[j]}
                       \/ /\ status[j] = "canceling" /\ status'[j] = "canceled"
                          /\ file'[j] = "canceled"
                       \/ /\ status[j] \notin {"none", "canceling"}
                          /\ status'[j] = "completed" /\ file'[j] = "completed"
  OBVIOUS
<1>1. CASE MarkFailed(j)
  BY <1>1, Failing
<1>2. CASE ~MarkFailed(j)
  <2> USE <1>2 DEF Shape, MarkCompleted, Stored, Written, Saved, Verdict, Statuses,
                   FinalStatuses
  <2>1. CASE j \in Stored /\ status[j] = "canceling"
    BY <2>1
  <2>2. CASE j \in Stored /\ status[j] # "canceling"
    BY <2>2
  <2>3. CASE j \notin Stored
    BY <2>3
  <2> QED BY <2>1, <2>2, <2>3
<1> QED BY <1>1, <1>2

(* The steps of a coroutine are of one kind: the job goes on, or it ends.  *)
CoroutineStep(j) ==
  /\ Runs(j) /\ JobStep
  /\ checked' \in [Jobs -> Nat] /\ \A i \in Jobs \ {j} : checked'[i] = checked[i]
  /\ check' = [check EXCEPT ![j] = check'[j]]
  /\ check'[j] \in {"ended", "testing", "pausing"}
  /\ status' \in [Jobs -> Statuses] /\ file' \in [Jobs -> Statuses]
  /\ \A i \in Jobs \ {j} : status'[i] = status[i] /\ file'[i] = file[i]
  /\ \/ status'[j] = status[j] /\ file'[j] \in {file[j], status[j]} /\ check'[j] # "ended"
     \/ status[j] = "none" /\ status'[j] = "none" /\ file'[j] = file[j]
     \/ /\ status[j] # "none" /\ status'[j] = "failed" /\ file'[j] \in {"failed", file[j]}
        /\ check'[j] = "ended"
     \/ /\ status[j] = "canceling" /\ status'[j] = "canceled" /\ file'[j] = "canceled"
        /\ check'[j] = "ended"
     \/ /\ status[j] \notin {"none", "canceling"} /\ checked'[j] = Batch
        /\ status'[j] = "completed" /\ file'[j] = "completed" /\ check'[j] = "ended"

(* Every step of a coroutine is of that kind.                              *)
LEMMA Coroutine ==
  ASSUME Shape, NEW j \in Jobs, CheckStep(j)
  PROVE  CoroutineStep(j)
<1> USE Facts
<1>1. Runs(j) /\ JobStep
  BY DEF CheckStep, Begin, Tested, Paused, Runs, Executing
<1>2. checked' \in [Jobs -> Nat] /\ \A i \in Jobs \ {j} : checked'[i] = checked[i]
  BY DEF Shape, CheckStep, Begin, Tested, Paused
<1>3. ASSUME NEW at \in {"testing", "pausing"}, GoOn(j, at), Record(j) \/ UNCHANGED file
      PROVE  CoroutineStep(j)
  <2>1. /\ check' = [check EXCEPT ![j] = at] /\ status' = status
        /\ file' = file \/ file' = [file EXCEPT ![j] = status[j]]
    BY <1>3 DEF GoOn, Record, Written, Saved
  <2>2. check'[j] = at /\ check' = [check EXCEPT ![j] = check'[j]]
    BY <2>1 DEF Shape
  <2>3. CASE file' = file
    BY <1>1, <1>2, <2>1, <2>2, <2>3 DEF Shape, CoroutineStep
  <2>4. CASE file' = [file EXCEPT ![j] = status[j]]
    BY <1>1, <1>2, <2>1, <2>2, <2>4 DEF Shape, CoroutineStep
  <2> QED BY <2>1, <2>3, <2>4
<1>4. ASSUME MarkFailed(j) PROVE CoroutineStep(j)
  <2>1. check'[j] = "ended" /\ check' = [check EXCEPT ![j] = check'[j]]
    BY <1>4 DEF MarkFailed, Shape
  <2> QED BY <1>1, <1>2, <1>4, <2>1, Failing DEF CoroutineStep
<1>5. ASSUME MarkCompleted(j), CancelRequested(j) \/ checked'[j] = Batch
      PROVE  CoroutineStep(j)
  <2>1. check' = [check EXCEPT ![j] = "ended"]
    BY <1>5, Completing
  <2>2. check'[j] = "ended" /\ check' = [check EXCEPT ![j] = check'[j]]
    BY <2>1 DEF Shape
  <2> QED BY <1>1, <1>2, <1>5, <2>2, Completing DEF CoroutineStep, CancelRequested
<1> QED
  BY <1>3, <1>4, <1>5 DEF CheckStep, Begin, Tested, Paused, RecordFails

(* The steps of a coroutine keep the invariant: only a batch that was not  *)
(* asked to stop, and has checked its last account, is completed.          *)
LEMMA CoroutineKeeps ==
  ASSUME JobsInv, NEW j \in Jobs, CheckStep(j)
  PROVE  JobsInv'
<1>1. CoroutineStep(j)
  BY Coroutine DEF JobsInv
<1>2. Shape' /\ canceller' = canceller /\ asked' = asked /\ scenario' = scenario /\ stamp' = stamp
  <2>1. /\ canceller' = canceller /\ asked' = asked /\ scenario' = scenario
        /\ stamp' = stamp /\ clock' = clock
    BY <1>1 DEF CoroutineStep, JobStep
  <2>2. check' \in [Jobs -> Executing \cup {"none", "ended"}]
    BY <1>1 DEF CoroutineStep, JobsInv, Shape, Executing
  <2> QED BY <1>1, <2>1, <2>2 DEF CoroutineStep, JobsInv, Shape
<1>3. ASSUME NEW i \in Jobs \ {j} PROVE Kept(i)
  <2>1. /\ status'[i] = status[i] /\ file'[i] = file[i] /\ check'[i] = check[i]
        /\ checked'[i] = checked[i]
    BY <1>1 DEF CoroutineStep, JobsInv, Shape
  <2> QED
    BY <1>2, <2>1 DEF JobsInv, Kept, Untouched, Truthful, Durable, Runs, Setting
<1>4. Kept(j)
  <2>1. Untouched(j)'
    BY <1>1, <1>2 DEF CoroutineStep, JobsInv, Untouched, Runs, Executing
  <2>2. Truthful(j)'
    <3>1. /\ Truthful(j) /\ Runs(j) /\ (Setting(j)' <=> Setting(j))
          /\ status[j] \in ActiveStatuses \cup {"none"} /\ file[j] # "completed"
      BY <1>1, <1>2 DEF CoroutineStep, JobsInv, Truthful, Setting
    <3>2. /\ status'[j] = "completed" \/ file'[j] = "completed" =>
               /\ status[j] = "running" /\ checked'[j] = Batch /\ check'[j] = "ended"
          /\ status'[j] = "running" => status[j] = "running"
      BY <1>1, <3>1 DEF CoroutineStep, ActiveStatuses
    <3>3. check'[j] # "ended" => status'[j] = status[j]
      BY <1>1 DEF CoroutineStep
    <3> HIDE DEF Setting
    <3> QED BY <1>2, <3>1, <3>2, <3>3 DEF Truthful, Runs, Executing
  <2>3. ~scenario'.preempt => Durable(j)'
    BY <1>1, <1>2 DEF CoroutineStep, JobsInv, Durable, Runs, Executing, ActiveStatuses, Done
  <2> QED BY <2>1, <2>2, <2>3 DEF Kept
<1> QED
  BY <1>2, <1>3, <1>4 DEF JobsInv, Kept

(* So does request_cancel, in one step or interrupted.                     *)
LEMMA CancelKeeps ==
  ASSUME JobsInv, NEW j \in Jobs, Cancel(j)
  PROVE  JobsInv'
<1> USE Facts
<1>1. ThreadStep
  BY DEF Cancel, CancelNow, CancelReads, CancelSets, CancelWrites
<1>2. /\ checked' = checked /\ check' = check /\ stamp' = stamp /\ clock' = clock
      /\ scenario' = scenario
  BY <1>1 DEF ThreadStep
<1>3. j # 0 /\ \A i \in Jobs : i # 0
  BY DEF Jobs
<1>4. stamp[j] # 0
  BY <1>3 DEF JobsInv, Untouched, Cancel, CancelNow, CancelReads, CancelSets, CancelWrites,
              Active, ActiveStatuses
<1>5. CASE CancelNow(j)
  <2>1. ~scenario.preempt /\ canceller = Idle /\ canceller' = canceller
    BY <1>5 DEF CancelNow, JobsInv
  <2>2. /\ status[j] \in ActiveStatuses /\ status' = [status EXCEPT ![j] = "canceling"]
        /\ \/ asked' = asked \cup {j} /\ file' = [file EXCEPT ![j] = "canceling"]
           \/ asked' = asked \cup {j} /\ file' = file
           \/ asked' = asked /\ file' = file
    BY <1>5 DEF CancelNow, Active, Written, Saved, WriteFails
  <2>3. Shape'
    BY <1>2, <2>2 DEF JobsInv, Shape, Statuses, ActiveStatuses
  <2>4. ASSUME NEW i \in Jobs \ {j} PROVE Kept(i)
    <3>1. status'[i] = status[i] /\ file'[i] = file[i] /\ (i \in asked' <=> i \in asked)
      BY <2>2 DEF JobsInv, Shape
    <3> QED
      BY <1>2, <2>1, <3>1 DEF JobsInv, Kept, Untouched, Truthful, Durable, Runs, Setting
  <2>5. /\ status'[j] = "canceling" /\ file'[j] \in {file[j], "canceling"}
        /\ file[j] \notin Done
    BY <2>1, <2>2 DEF JobsInv, Shape, Durable
  <2>6. Kept(j)
    BY <1>2, <1>3, <1>4, <2>1, <2>5 DEF Kept, Untouched, Truthful, Durable, Runs, Setting,
       Idle, ActiveStatuses, Done, JobsInv
  <2> QED BY <1>2, <2>1, <2>3, <2>4, <2>6 DEF JobsInv, Kept
<1>6. CASE CancelReads(j)
  BY <1>2, <1>4, <1>6 DEF CancelReads, JobsInv, Shape, Untouched, Truthful, Durable, Runs, Setting
<1>7. CASE CancelSets(j)
  <2>1. /\ scenario.preempt /\ file' = file /\ asked' = asked
        /\ canceller' = [job |-> j, at |-> "write"] /\ canceller.job = j
        /\ \/ status[j] # "none" /\ status' = [status EXCEPT ![j] = "canceling"]
           \/ status[j] = "none" /\ status' = status
    BY <1>3, <1>7 DEF CancelSets, JobsInv, Idle, Stored
  <2>2. Shape'
    BY <1>2, <2>1 DEF JobsInv, Shape, Statuses, ActiveStatuses
  <2>3. ASSUME NEW i \in Jobs PROVE Untouched(i)' /\ Truthful(i)'
    <3>1. status'[i] = status[i] \/ status'[i] = "canceling"
      BY <2>1 DEF JobsInv, Shape
    <3>2. i # j => status'[i] = status[i] /\ ~Setting(i)'
      BY <2>1 DEF JobsInv, Shape, Setting
    <3>3. i = j => status'[i] \in {"none", "canceling"}
      BY <2>1 DEF JobsInv, Shape
    <3>4. Untouched(i)'
      BY <1>2, <1>4, <2>1, <3>2 DEF JobsInv, Untouched
    <3>5. Truthful(i)'
      BY <1>2, <2>1, <3>1, <3>2, <3>3 DEF JobsInv, Truthful, Runs, ActiveStatuses
    <3> QED BY <3>4, <3>5
  <2> QED BY <1>2, <2>1, <2>2, <2>3 DEF JobsInv
<1>8. CASE CancelWrites(j)
  <2>1. /\ scenario.preempt /\ canceller = [job |-> j, at |-> "write"] /\ canceller' = Idle
        /\ status' = status
        /\ \/ /\ asked' = asked \cup {j}
              /\ \E s \in {"canceling", status[j]} \ {"none"} : file' = [file EXCEPT ![j] = s]
           \/ asked' = asked /\ file' = file
    BY <1>3, <1>8 DEF CancelWrites, JobsInv, Idle, Written, Saved, WriteFails
  <2>2. Shape'
    BY <1>2, <2>1 DEF JobsInv, Shape, Statuses, ActiveStatuses
  <2>3. status[j] \notin {"running", "completed"}
    BY <2>1 DEF JobsInv, Truthful, Setting
  <2>4. ASSUME NEW i \in Jobs PROVE Untouched(i)' /\ Truthful(i)'
    <3>1. ~Setting(i)' /\ canceller'.job # i
      BY <1>3, <2>1 DEF Setting, Idle
    <3>2. i # j => file'[i] = file[i] /\ (i \in asked' <=> i \in asked)
      BY <2>1 DEF JobsInv, Shape
    <3>3. i = j => \/ file'[i] # "completed"
                   \/ file'[i] = file[i] /\ asked' = asked
      BY <2>1, <2>3 DEF JobsInv, Shape
    <3>4. Untouched(i)'
      BY <1>2, <1>4, <2>1, <3>1, <3>2 DEF JobsInv, Untouched
    <3>5. Truthful(i)'
      BY <1>2, <2>1, <2>3, <3>1, <3>2, <3>3 DEF JobsInv, Truthful, Runs
    <3> QED BY <3>4, <3>5
  <2> QED BY <1>2, <2>1, <2>2, <2>4 DEF JobsInv
<1> QED BY <1>5, <1>6, <1>7, <1>8 DEF Cancel

(* So does a new job, and the trimming that comes with it.                 *)
LEMMA StartKeeps ==
  ASSUME JobsInv, NEW j \in Jobs, StartCheck(j)
  PROVE  JobsInv'
<1> USE Facts
<1>1. /\ UNCHANGED <<checked, asked, canceller, scenario>>
      /\ stamp[j] = 0
  BY DEF StartCheck, NextJob, JobsInv, Shape, Jobs
<1>2. PICK t \in {clock, clock + 1} : clock' = t /\ stamp' = [stamp EXCEPT ![j] = t]
  BY DEF StartCheck
<1>3. t \in Nat \ {0} /\ clock' \in Nat \ {0} /\ stamp' \in [Jobs -> Nat] /\ stamp'[j] # 0
      /\ \A i \in Jobs \ {j} : stamp'[i] = stamp[i]
  BY <1>2 DEF JobsInv, Shape
<1>4. /\ status[j] = "none" /\ file[j] = "none" /\ check[j] = "none"
      /\ j \notin asked /\ canceller.job # j
  BY <1>1 DEF JobsInv, Untouched
<1>5. /\ status' \in [Jobs -> Statuses] /\ file' \in [Jobs -> Statuses]
      /\ check' \in [Jobs -> Executing \cup {"none", "ended"}]
      /\ status'[j] \in {"running", "none"} /\ file'[j] \in {"running", "none"}
      /\ \A i \in Jobs \ {j} :
           /\ check'[i] = check[i] /\ file'[i] \in {"none", file[i]}
           /\ status'[i] = "none" \/ (status'[i] = status[i] /\ file'[i] = file[i])
  <2>1. CASE Trimmed(j) /\ check' = [check EXCEPT ![j] = "created"]
    <3> DEFINE J == Stored \cup {j}
               dropped == J \ Newest(J, stamp', place', MaxHistory)
    <3>1. status' = [i \in Jobs |-> IF i \in dropped THEN "none"
                                    ELSE IF i = j THEN "running" ELSE status[i]]
      BY <2>1, Zenon DEF Trimmed
    <3>2. PICK stays \in SUBSET {i \in dropped : Fails(i, "unlink")} :
            file' = [i \in Jobs |-> IF i \in dropped \ stays THEN "none"
                                    ELSE IF i = j THEN "running" ELSE file[i]]
      BY <2>1, Zenon DEF Trimmed
    <3> HIDE DEF dropped
    <3> QED
      BY <1>4, <2>1, <3>1, <3>2 DEF JobsInv, Shape, Statuses, ActiveStatuses, Executing
  <2>2. CASE status' = [status EXCEPT ![j] = "running"] /\ UNCHANGED <<file, check>>
    BY <1>4, <2>2 DEF JobsInv, Shape, Statuses, ActiveStatuses
  <2> QED BY <2>1, <2>2 DEF StartCheck
<1>6. Shape'
  BY <1>1, <1>3, <1>5 DEF JobsInv, Shape
<1>7. ASSUME NEW i \in Jobs \ {j} PROVE Kept(i)
  <2>1. /\ stamp'[i] = stamp[i] /\ check'[i] = check[i] /\ file'[i] \in {"none", file[i]}
        /\ status'[i] = "none" \/ (status'[i] = status[i] /\ file'[i] = file[i])
    BY <1>3, <1>5
  <2>2. Untouched(i)'
    BY <1>1, <2>1 DEF JobsInv, Untouched
  <2>3. Truthful(i)'
    BY <1>1, <2>1 DEF JobsInv, Truthful, Runs, Setting
  <2>4. ~scenario'.preempt => Durable(i)'
    BY <1>1, <2>1 DEF JobsInv, Durable, Runs, ActiveStatuses, Done
  <2> QED BY <2>2, <2>3, <2>4 DEF Kept
<1>8. Kept(j)
  <2>1. ~Setting(j)'
    BY <1>1, <1>4 DEF Setting
  <2> QED
    BY <1>1, <1>3, <1>4, <1>5, <2>1 DEF Kept, Untouched, Truthful, Durable, ActiveStatuses, Done
<1> QED BY <1>1, <1>6, <1>7, <1>8 DEF JobsInv, Kept

(* What a restart makes of a job: its file is as its coroutine left it,    *)
(* what was active is failed.                                              *)
Reloaded(j) ==
  /\ check'[j] \notin Executing /\ (check[j] = "none" => check'[j] = "none")
  /\ \E left \in {file[j], "failed"} :
       /\ left = file[j] \/ (Runs(j) /\ Active(j))
       /\ LET read == IF left \in ActiveStatuses THEN "failed" ELSE left
          IN  status'[j] \in {"none", read} /\ file'[j] \in {left, read}

(* ProcessRestarts does that to every job.                                 *)
LEMMA Restarting ==
  ASSUME Shape, ProcessRestarts
  PROVE  /\ Shape' /\ \A j \in Jobs : Reloaded(j)
         /\ canceller' = Idle /\ UNCHANGED <<stamp, checked, asked, scenario>>
<1>1. PICK ended \in SUBSET {j \in Jobs : Runs(j) /\ Active(j)}, at \in [Jobs -> 0..MaxJobs] :
        LET left == [j \in Jobs |-> IF j \in ended THEN "failed" ELSE file[j]]
            loaded == {j \in Jobs : left[j] # "none"}
            kept == Newest(loaded, stamp, at, MaxHistory)
            Read(j) == IF left[j] \in ActiveStatuses THEN "failed" ELSE left[j]
        IN /\ status' = [j \in Jobs |-> IF j \in kept THEN Read(j) ELSE "none"]
           /\ \E lost \in SUBSET {j \in Jobs : Fails(j, "later")} :
                file' = [j \in Jobs |-> IF j \in lost THEN left[j] ELSE Read(j)]
  BY Zenon DEF ProcessRestarts
<1> DEFINE left == [j \in Jobs |-> IF j \in ended THEN "failed" ELSE file[j]]
           loaded == {j \in Jobs : left[j] # "none"}
           kept == Newest(loaded, stamp, at, MaxHistory)
           Read(j) == IF left[j] \in ActiveStatuses THEN "failed" ELSE left[j]
<1>2. status' = [j \in Jobs |-> IF j \in kept THEN Read(j) ELSE "none"]
  BY <1>1, Zenon
<1>3. PICK lost \in SUBSET {j \in Jobs : Fails(j, "later")} :
        file' = [j \in Jobs |-> IF j \in lost THEN left[j] ELSE Read(j)]
  BY <1>1, Zenon
<1>4. \A j \in Jobs : /\ left[j] \in {file[j], "failed"}
                      /\ left[j] = file[j] \/ (Runs(j) /\ Active(j))
  OBVIOUS
<1>5. \A j \in Jobs : left[j] \in Statuses /\ Read(j) \in Statuses
  BY <1>4 DEF Shape, Statuses, FinalStatuses
<1>6. /\ check' = [j \in Jobs |-> IF Runs(j) THEN "ended" ELSE check[j]]
      /\ canceller' = Idle /\ UNCHANGED <<stamp, checked, asked, clock, scenario>>
  BY DEF ProcessRestarts
<1>7. /\ check' \in [Jobs -> Executing \cup {"none", "ended"}]
      /\ \A j \in Jobs : /\ check'[j] \notin Executing
                         /\ check[j] = "none" => check'[j] = "none"
  BY <1>6 DEF Shape, Runs, Executing
<1> DEFINE Saved1(j) == IF j \in lost THEN left[j] ELSE Read(j)
           Stored1(j) == IF j \in kept THEN Read(j) ELSE "none"
<1>8. \A j \in Jobs : /\ status'[j] = Stored1(j) /\ Stored1(j) \in {"none", Read(j)}
                      /\ file'[j] = Saved1(j) /\ Saved1(j) \in {left[j], Read(j)}
  BY <1>2, <1>3
<1>9. status' \in [Jobs -> Statuses] /\ file' \in [Jobs -> Statuses]
  <2>1. \A j \in Jobs : Stored1(j) \in Statuses /\ Saved1(j) \in Statuses
    BY <1>5 DEF Statuses
  <2>2. status' = [j \in Jobs |-> Stored1(j)] /\ file' = [j \in Jobs |-> Saved1(j)]
    BY <1>2, <1>3
  <2> HIDE DEF Stored1, Saved1
  <2> QED BY <2>1, <2>2
<1>10. ASSUME NEW j \in Jobs PROVE Reloaded(j)
  <2> HIDE DEF left, kept, Stored1, Saved1
  <2> QED BY <1>4, <1>7, <1>8 DEF Reloaded
<1> QED
  BY <1>6, <1>7, <1>9, <1>10 DEF Shape

(* A restart keeps the invariant.                                          *)
LEMMA RestartKeeps ==
  ASSUME JobsInv, ProcessRestarts
  PROVE  JobsInv'
<1>1. /\ Shape' /\ \A j \in Jobs : Reloaded(j)
      /\ canceller' = Idle /\ UNCHANGED <<stamp, checked, asked, scenario>>
  BY Restarting DEF JobsInv
<1>2. ASSUME NEW j \in Jobs PROVE Kept(j)
  <2>1. /\ ~Setting(j)' /\ canceller'.job # j /\ ~Runs(j)'
    BY <1>1, Facts DEF Setting, Idle, Reloaded, Runs
  <2>2. PICK left \in {file[j], "failed"} :
          /\ left = file[j] \/ (Runs(j) /\ Active(j))
          /\ status'[j] \in {"none", IF left \in ActiveStatuses THEN "failed" ELSE left}
          /\ file'[j] \in {left, IF left \in ActiveStatuses THEN "failed" ELSE left}
    BY <1>1 DEF Reloaded
  <2>3. Untouched(j)'
    BY <1>1, <2>1, <2>2 DEF JobsInv, Untouched, Reloaded, Runs, Executing, ActiveStatuses
  <2>4. Truthful(j)'
    BY <1>1, <2>1, <2>2 DEF JobsInv, Truthful, ActiveStatuses
  <2>5. Durable(j)'
    BY <2>1, <2>2 DEF Durable, ActiveStatuses, Done
  <2> QED BY <2>3, <2>4, <2>5 DEF Kept
<1> QED BY <1>1, <1>2 DEF JobsInv, Kept

(* It holds in the initial states.                                         *)
LEMMA JobBegins == JobsInit => JobsInv
BY Facts DEF JobsInit, JobsInv, Shape, Untouched, Truthful, Durable, Setting, Idle, Runs,
   Executing, Statuses, ActiveStatuses, Done

(* Every step keeps it.                                                    *)
LEMMA StepKeeps == JobsInv /\ [JobsNext]_jobVars => JobsInv'
<1> SUFFICES ASSUME JobsInv, [JobsNext]_jobVars PROVE JobsInv'
  OBVIOUS
<1>1. CASE UNCHANGED jobVars
  BY <1>1 DEF jobVars, JobsInv, Shape, Untouched, Truthful, Durable, Setting, Runs
<1> QED
  BY <1>1, CoroutineKeeps, CancelKeeps, StartKeeps, RestartKeeps DEF JobsNext

(* A step leaves a final status, or the job is trimmed.                    *)
LEMMA FinalStays ==
  ASSUME JobsInv, [JobsNext]_jobVars, ~scenario.preempt,
         NEW i \in Jobs, status[i] \in FinalStatuses
  PROVE  status'[i] \in {status[i], "none"}
<1> USE Facts
<1>0. status[i] \notin ActiveStatuses \cup {"none"} /\ ~Runs(i) /\ stamp[i] # 0
  BY DEF JobsInv, Truthful, Untouched, FinalStatuses, ActiveStatuses
<1>1. ASSUME NEW j \in Jobs, CheckStep(j) PROVE status'[i] = status[i]
  BY <1>0, <1>1, Coroutine DEF JobsInv, CoroutineStep
<1>2. ASSUME NEW j \in Jobs, Cancel(j) PROVE status'[i] = status[i]
  <2>1. CASE CancelNow(j)
    BY <1>0, <2>1 DEF CancelNow, Active, JobsInv, Shape
  <2>2. CASE CancelReads(j) \/ CancelWrites(j)
    BY <2>2 DEF CancelReads, CancelWrites
  <2>3. CASE CancelSets(j)
    BY <2>3 DEF CancelSets, JobsInv, Idle, Jobs
  <2> QED BY <1>2, <2>1, <2>2, <2>3 DEF Cancel
<1>3. ASSUME NEW j \in Jobs, StartCheck(j) PROVE status'[i] \in {status[i], "none"}
  <2>1. i # j
    BY <1>0, <1>3 DEF StartCheck, NextJob, Jobs
  <2>2. CASE Trimmed(j)
    BY <2>1, <2>2 DEF Trimmed
  <2>3. CASE status' = [status EXCEPT ![j] = "running"]
    BY <2>1, <2>3 DEF JobsInv, Shape
  <2> QED BY <1>3, <2>2, <2>3 DEF StartCheck
<1>4. CASE ProcessRestarts
  <2>1. Reloaded(i)
    BY <1>4, Restarting DEF JobsInv
  <2>2. status'[i] \in {"none", IF file[i] \in ActiveStatuses THEN "failed" ELSE file[i]}
    BY <1>0, <2>1 DEF Reloaded
  <2>3. Durable(i) /\ file[i] \in Statuses
    BY DEF JobsInv, Shape
  <2> QED
    BY <2>2, <2>3 DEF Durable, Statuses, FinalStatuses, ActiveStatuses, Done
<1>5. CASE UNCHANGED jobVars
  BY <1>5 DEF jobVars
<1> QED BY <1>1, <1>2, <1>3, <1>4, <1>5 DEF JobsNext

(* What a job ended with stands: a completed job has checked every account *)
(* and was not asked to stop, completed and canceled are on disk, and an   *)
(* end is never replaced by another one, whatever writes fail and however  *)
(* often the process restarts (mark_completed, mark_failed, request_cancel *)
(* and _load_jobs of background_job.py).                                   *)
THEOREM OutcomesStand == JobsSpec => OutcomeStands
<1>1. JobsInv => OutcomeIsDurable /\ CancelWins
  BY DEF JobsInv, Shape, Truthful, Durable, Done, OutcomeIsDurable, CancelWins
<1>2. JobsInv /\ [JobsNext]_jobVars =>
        [~scenario.preempt => \A j \in Jobs :
           status[j] \in FinalStatuses => status'[j] \in {status[j], "none"}]_jobVars
  BY FinalStays
<1> QED
  BY <1>1, <1>2, JobBegins, StepKeeps, PTL DEF JobsSpec, OutcomeStands, FinalIsFinal

-----------------------------------------------------------------------------
(* Jobs are created in the order of their stamps, and a batch that runs    *)
(* is the last one: only jobs of the same second come before it in the     *)
(* list, and these are fewer than the list looks at.                       *)
InOrder(made) ==
  \A i, j \in Jobs : made[j] # 0 /\ i < j => made[i] # 0 /\ made[i] <= made[j]
Last(made, j) == made[j] # 0 /\ \A i \in Jobs : made[i] # 0 => i <= j
SameSecond(made, j) == {i \in Jobs \ {j} : made[i] = made[j]}

Watched(j) ==
  Runs(j) =>
    /\ Last(stamp, j) /\ Cardinality(SameSecond(stamp, j)) < ListLimit
    /\ Active(j) /\ file[j] # "none"

Listing ==
  /\ InOrder(stamp) /\ \A j \in Jobs : stamp[j] <= clock
  /\ \A j \in Jobs : Watched(j)

(* What the type of the state needs besides.                               *)
Counted(j) ==
  /\ checked[j] \in 0..Batch /\ (stamp[j] = 0 => checked[j] = 0)
  /\ Runs(j) => checked[j] < Batch

Rest ==
  /\ place \in [Jobs -> Nat] /\ restarts \in 0..MaxRestarts /\ scenario \in Scenarios
  /\ canceller \in [job : 0..MaxJobs, at : {"check", "write"}]
  /\ \A j \in Jobs : Counted(j)

(* The jobs of one second are finitely many.                               *)
LEMMA Sizes ==
  \A made, j : /\ Cardinality(SameSecond(made, j)) \in Nat
               /\ \A S \in SUBSET SameSecond(made, j) :
                    /\ IsFiniteSet(S) /\ Cardinality(S) \in Nat
                    /\ Cardinality(S) <= Cardinality(SameSecond(made, j))
<1> TAKE made, j
<1>1. IsFiniteSet(Jobs)
  BY Facts, FS_Interval
<1>2. IsFiniteSet(SameSecond(made, j))
  BY <1>1, FS_Subset DEF SameSecond
<1> QED BY <1>2, FS_Subset, FS_CardinalityType

(* Nothing but jobs of its second comes before the last one.               *)
LEMMA LastIsNewest ==
  \A made, at \in [Jobs -> Nat], j \in Jobs, J \in SUBSET Jobs, n \in Nat :
    InOrder(made) /\ Last(made, j) /\ j \in J /\ Cardinality(SameSecond(made, j)) < n
      => j \in Newest(J, made, at, n)
<1> SUFFICES ASSUME NEW made \in [Jobs -> Nat], NEW at \in [Jobs -> Nat], NEW j \in Jobs,
                    NEW J \in SUBSET Jobs, NEW n \in Nat,
                    InOrder(made), Last(made, j), j \in J,
                    Cardinality(SameSecond(made, j)) < n
             PROVE  j \in Newest(J, made, at, n)
  OBVIOUS
<1> DEFINE before == {i \in J : Precedes(made, at, i, j)}
<1>1. ASSUME NEW i \in J, Precedes(made, at, i, j)
      PROVE  i \in SameSecond(made, j)
  <2>1. i \in Jobs /\ i \in Nat /\ j \in Nat /\ made[i] \in Nat /\ made[j] \in Nat
    BY Facts
  <2>2. CASE made[i] > made[j]
    <3>1. i <= j /\ i # j
      BY <2>1, <2>2 DEF Last
    <3>2. made[i] <= made[j]
      BY <2>1, <3>1 DEF InOrder, Last
    <3> QED BY <2>1, <2>2, <3>2
  <2>3. CASE made[i] = made[j] /\ at[i] < at[j] /\ i # j
    BY <2>1, <2>3 DEF SameSecond
  <2>4. CASE made[i] = made[j] /\ at[i] < at[j] /\ i = j
    BY <2>4
  <2> QED BY <1>1, <2>2, <2>3, <2>4 DEF Precedes
<1>2. before \in SUBSET SameSecond(made, j)
  BY <1>1
<1>3. Cardinality(before) < n
  <2> HIDE DEF before
  <2> QED BY <1>2, Sizes
<1> QED BY <1>3 DEF Newest

(* The parts of the state that the kinds of steps leave out.               *)
LEMMA RestStep ==
  ASSUME JobsInv, Rest, [JobsNext]_jobVars
  PROVE  Rest'
<1> USE Facts, JobsAssumption
<1>0. /\ MaxRestarts \in Nat /\ Jobs \subseteq Nat
      /\ \A j \in Jobs : j # 0 /\ j \in 0..MaxJobs
  BY DEF Jobs
<1>1. ASSUME NEW j \in Jobs, CheckStep(j) PROVE Rest'
  <2>1. CoroutineStep(j)
    BY <1>1, Coroutine DEF JobsInv
  <2>2. /\ checked'[j] \in {checked[j], checked[j] + 1}
        /\ check'[j] # "ended" => checked'[j] = checked[j] \/ checked'[j] # Batch
    <3>1. checked'[j] \in {checked[j], checked[j] + 1}
      BY <1>1 DEF CheckStep, Begin, Tested, Paused, JobsInv, Shape
    <3>2. CASE Begin(j) \/ Paused(j)
      BY <3>1, <3>2 DEF Begin, Paused
    <3>3. CASE Tested(j)
      <4>1. MarkFailed(j) \/ MarkCompleted(j) => check' = [check EXCEPT ![j] = "ended"]
        BY Completing, Failing DEF JobsInv
      <4>2. check' = [check EXCEPT ![j] = "ended"] => check'[j] = "ended"
        BY DEF JobsInv, Shape
      <4>3. MarkFailed(j) \/ MarkCompleted(j) \/ checked'[j] # Batch
        BY <3>3 DEF Tested, RecordFails
      <4>4. check'[j] = "ended" \/ checked'[j] # Batch
        BY <4>1, <4>2, <4>3
      <4> QED BY <3>1, <4>4
    <3> QED BY <1>1, <3>1, <3>2, <3>3 DEF CheckStep
  <2>3. \A i \in Jobs : Counted(i)'
    <3> TAKE i \in Jobs
    <3>1. Counted(i) BY DEF Rest
    <3>2. CASE i # j
      <4>1. check'[i] = check[i] /\ checked'[i] = checked[i] /\ stamp' = stamp
        BY <2>1, <3>2 DEF CoroutineStep, JobStep, JobsInv, Shape
      <4> QED BY <3>1, <4>1 DEF Counted, Runs
    <3>3. CASE i = j
      <4>1. checked[i] \in Nat /\ checked[i] < Batch /\ stamp'[i] = stamp[i] /\ stamp[i] # 0
        BY <2>1, <3>1, <3>3 DEF CoroutineStep, JobStep, Counted, JobsInv, Shape, Untouched, Runs,
           Executing
      <4> QED BY <2>1, <2>2, <3>3, <4>1 DEF Counted, Runs, Executing, CoroutineStep
    <3> QED BY <3>2, <3>3
  <2> QED BY <2>1, <2>3 DEF CoroutineStep, JobStep, Rest
<1>2. ASSUME NEW j \in Jobs, Cancel(j) PROVE Rest'
  <2>1. ThreadStep
    BY <1>2 DEF Cancel, CancelNow, CancelReads, CancelSets, CancelWrites
  <2>2. canceller' \in [job : 0..MaxJobs, at : {"check", "write"}]
    BY <1>0, <1>2 DEF Cancel, CancelNow, CancelReads, CancelSets, CancelWrites, Rest, Idle
  <2> QED BY <2>1, <2>2 DEF ThreadStep, Rest, Counted, Runs
<1>3. ASSUME NEW j \in Jobs, StartCheck(j) PROVE Rest'
  <2>1. place' \in [Jobs -> Nat]
    BY <1>0, <1>3 DEF StartCheck, AtEnd, Rest
  <2>2. PICK t \in {clock, clock + 1} : stamp' = [stamp EXCEPT ![j] = t]
    BY <1>3 DEF StartCheck
  <2>3. /\ UNCHANGED <<checked, canceller, restarts, scenario>>
        /\ check' = check \/ check' = [check EXCEPT ![j] = "created"]
        /\ stamp[j] = 0 /\ \A i \in Jobs : stamp'[i] = 0 => stamp[i] = 0
    BY <1>0, <1>3, <2>2 DEF StartCheck, NextJob, JobsInv, Shape
  <2>4. \A i \in Jobs : Counted(i)'
    <3> TAKE i \in Jobs
    <3>1. Counted(i) BY DEF Rest
    <3>2. CASE i # j
      <4>1. check'[i] = check[i] BY <2>3, <3>2 DEF JobsInv, Shape
      <4> QED BY <2>3, <3>1, <4>1 DEF Counted, Runs
    <3>3. CASE i = j
      BY <2>3, <3>1, <3>3 DEF Counted
    <3> QED BY <3>2, <3>3
  <2> QED BY <2>1, <2>3, <2>4 DEF Rest
<1>4. CASE ProcessRestarts
  <2>1. /\ place' \in [Jobs -> 0..MaxJobs] /\ restarts' \in 0..MaxRestarts
        /\ canceller' = Idle /\ UNCHANGED <<stamp, checked, scenario>>
    BY <1>0, <1>4 DEF ProcessRestarts, Rest
  <2>2. \A j \in Jobs : ~Runs(j)'
    BY <1>4, Restarting DEF JobsInv, Reloaded, Runs
  <2>3. place' \in [Jobs -> Nat]
    BY <2>1
  <2>4. canceller' \in [job : 0..MaxJobs, at : {"check", "write"}]
    BY <2>1 DEF Idle
  <2> QED BY <2>1, <2>2, <2>3, <2>4 DEF Rest, Counted
<1>5. CASE UNCHANGED jobVars
  BY <1>5 DEF jobVars, Rest, Counted, Runs
<1> QED BY <1>1, <1>2, <1>3, <1>4, <1>5 DEF JobsNext

(* Every step keeps the order and the place of the batch that runs: while  *)
(* it runs it is found in the list, and no other one is created.           *)
LEMMA ListingStep ==
  ASSUME JobsInv, Rest, Listing, MaxHistory >= ListLimit, [JobsNext]_jobVars
  PROVE  Listing'
<1> USE Facts
<1>0. /\ ListLimit \in Nat /\ MaxHistory \in Nat /\ stamp \in [Jobs -> Nat] /\ clock \in Nat
      /\ place \in [Jobs -> Nat]
  BY JobsAssumption DEF JobsInv, Shape, Rest
<1>1. ASSUME NEW j \in Jobs, CheckStep(j) PROVE Listing'
  <2>1. CoroutineStep(j) /\ Watched(j)
    BY <1>1, Coroutine DEF JobsInv, Listing
  <2>2. stamp' = stamp /\ clock' = clock
    BY <2>1 DEF CoroutineStep, JobStep
  <2>3. ASSUME NEW i \in Jobs PROVE Watched(i)'
    <3>0. Watched(i) BY DEF Listing
    <3>1. CASE i # j
      <4>1. check'[i] = check[i] /\ status'[i] = status[i] /\ file'[i] = file[i]
        BY <2>1, <3>1 DEF CoroutineStep, JobsInv, Shape
      <4> QED BY <2>2, <3>0, <4>1 DEF Watched, Runs, Active
    <3>2. CASE i = j /\ check'[j] = "ended"
      BY <3>2 DEF Watched, Runs, Executing
    <3>3. CASE i = j /\ check'[j] # "ended"
      <4>1. status[j] # "none" /\ file[j] # "none" /\ Runs(j)
        BY <2>1 DEF CoroutineStep, Watched, Active, ActiveStatuses
      <4>2. status'[j] = status[j] /\ file'[j] \in {file[j], status[j]}
        BY <2>1, <3>3, <4>1 DEF CoroutineStep
      <4> QED BY <2>1, <2>2, <3>3, <4>1, <4>2 DEF Watched, Active
    <3> QED BY <3>1, <3>2, <3>3
  <2> QED BY <2>2, <2>3 DEF Listing
<1>2. ASSUME NEW j \in Jobs, Cancel(j) PROVE Listing'
  <2>1. ThreadStep
    BY <1>2 DEF Cancel, CancelNow, CancelReads, CancelSets, CancelWrites
  <2>2. stamp' = stamp /\ clock' = clock /\ check' = check
    BY <2>1 DEF ThreadStep
  <2>3. ASSUME NEW i \in Jobs
        PROVE  /\ status'[i] \in {status[i], "canceling"}
               /\ file'[i] = file[i] \/ file'[i] # "none"
    <3>1. CASE CancelNow(j)
      BY <3>1 DEF CancelNow, Written, Saved, WriteFails, JobsInv, Shape
    <3>2. CASE CancelReads(j)
      BY <3>2 DEF CancelReads
    <3>3. CASE CancelSets(j)
      BY <3>3 DEF CancelSets, JobsInv, Shape
    <3>4. CASE CancelWrites(j)
      BY <3>4 DEF CancelWrites, Written, Saved, WriteFails, JobsInv, Shape
    <3> QED BY <1>2, <3>1, <3>2, <3>3, <3>4 DEF Cancel
  <2> QED BY <2>2, <2>3 DEF Listing, Watched, Runs, Active, ActiveStatuses
<1>3. ASSUME NEW j \in Jobs, StartCheck(j) PROVE Listing'
  <2>1. PICK t \in {clock, clock + 1} :
          Second(t) /\ clock' = t /\ stamp' = [stamp EXCEPT ![j] = t]
    BY <1>3 DEF StartCheck
  <2>2. /\ t \in Nat \ {0} /\ stamp' \in [Jobs -> Nat] /\ stamp'[j] = t
        /\ \A i \in Jobs \ {j} : stamp'[i] = stamp[i]
    BY <2>1 DEF JobsInv, Shape
  <2>3. \A i \in Jobs : stamp[i] # 0 <=> i < j
    BY <1>3 DEF StartCheck, NextJob
  <2>4. \A i \in Jobs : i \in Nat /\ stamp[i] \in Nat /\ stamp[i] <= clock
    BY <1>0 DEF Listing
  <2>5. InOrder(stamp)' /\ \A i \in Jobs : stamp'[i] <= clock'
    <3>1. \A i \in Jobs : stamp'[i] <= clock'
      BY <1>0, <2>1, <2>2, <2>4
    <3>2. ASSUME NEW i \in Jobs, NEW k \in Jobs, stamp'[k] # 0, i < k
          PROVE  stamp'[i] # 0 /\ stamp'[i] <= stamp'[k]
      <4>1. CASE k = j
        <5>1. i # j /\ stamp[i] # 0 BY <2>3, <2>4, <3>2, <4>1
        <5> QED BY <2>1, <2>2, <3>1, <4>1, <5>1
      <4>2. CASE k # j
        <5>1. stamp[k] # 0 /\ k < j BY <2>2, <2>3, <3>2, <4>2
        <5>2. i # j BY <2>4, <3>2, <5>1
        <5> QED BY <2>2, <3>2, <4>2, <5>1, <5>2 DEF Listing, InOrder
      <4> QED BY <4>1, <4>2
    <3> QED BY <3>1, <3>2 DEF InOrder
  <2>6. Last(stamp', j) /\ Cardinality(SameSecond(stamp', j)) < ListLimit
    <3>1. Last(stamp', j)
      BY <2>2, <2>3, <2>4 DEF Last
    <3>2. SameSecond(stamp', j) \in SUBSET {i \in Jobs : stamp[i] = t}
      BY <2>2 DEF SameSecond
    <3>3. IsFiniteSet(Jobs) /\ {i \in Jobs : stamp[i] = t} \in SUBSET Jobs
      BY FS_Interval
    <3>4. IsFiniteSet({i \in Jobs : stamp[i] = t})
      BY <3>3, FS_Subset
    <3>5. /\ Cardinality(SameSecond(stamp', j)) <= Cardinality({i \in Jobs : stamp[i] = t})
          /\ Cardinality({i \in Jobs : stamp[i] = t}) \in Nat
      BY <3>2, <3>4, FS_Subset, FS_CardinalityType
    <3>6. Cardinality(SameSecond(stamp', j)) \in Nat
      BY Sizes
    <3> QED BY <1>0, <2>1, <3>1, <3>5, <3>6 DEF Second
  <2>7. \A i \in Jobs : ~Runs(i)
    <3> SUFFICES ASSUME NEW i \in Jobs, Runs(i) PROVE FALSE
      OBVIOUS
    <3>1. /\ Last(stamp, i) /\ Cardinality(SameSecond(stamp, i)) < ListLimit
          /\ Active(i) /\ InOrder(stamp)
      BY DEF Listing, Watched
    <3>2. i \in Stored /\ Stored \in SUBSET Jobs
      BY <3>1 DEF Stored, Active, ActiveStatuses
    <3>3. i \in Newest(Stored, stamp, place, ListLimit)
      BY <1>0, <3>1, <3>2, LastIsNewest
    <3> QED BY <1>3, <3>1, <3>3 DEF StartCheck, ActiveListed
  <2>8. CASE Trimmed(j) /\ check' = [check EXCEPT ![j] = "created"]
    <3> DEFINE J == Stored \cup {j}
               dropped == J \ Newest(J, stamp', place', MaxHistory)
    <3>1. status' = [i \in Jobs |-> IF i \in dropped THEN "none"
                                    ELSE IF i = j THEN "running" ELSE status[i]]
      BY <2>8, Zenon DEF Trimmed
    <3>2. PICK stays \in SUBSET {i \in dropped : Fails(i, "unlink")} :
            file' = [i \in Jobs |-> IF i \in dropped \ stays THEN "none"
                                    ELSE IF i = j THEN "running" ELSE file[i]]
      BY <2>8, Zenon DEF Trimmed
    <3>3. J \in SUBSET Jobs /\ j \in J
      BY DEF Stored
    <3>4. place' \in [Jobs -> Nat]
      BY <1>3, RestStep DEF JobsNext, Rest
    <3>5. Cardinality(SameSecond(stamp', j)) < MaxHistory
      BY <1>0, <2>6, Sizes
    <3> HIDE DEF J
    <3>6. j \in Newest(J, stamp', place', MaxHistory)
      <4>1. InOrder(stamp') BY <2>5 DEF InOrder
      <4> QED BY <1>0, <2>2, <2>6, <3>3, <3>4, <3>5, <4>1, LastIsNewest
    <3>7. status'[j] = "running" /\ file'[j] = "running"
      BY <3>1, <3>2, <3>6
    <3>8. \A i \in Jobs : Runs(i)' => i = j
      BY <2>7, <2>8 DEF JobsInv, Shape, Runs
    <3>9. Watched(j)'
      BY <2>6, <3>7 DEF Watched, Active, ActiveStatuses, Last, SameSecond
    <3>10. \A i \in Jobs : Watched(i)'
      BY <3>8, <3>9 DEF Watched
    <3> QED BY <2>5, <3>10 DEF Listing
  <2>9. CASE UNCHANGED check
    BY <2>5, <2>7, <2>9 DEF Listing, Watched, Runs
  <2> QED BY <1>3, <2>8, <2>9 DEF StartCheck
<1>4. CASE ProcessRestarts
  <2>1. \A j \in Jobs : ~Runs(j)'
    BY <1>4, Restarting DEF JobsInv, Reloaded, Runs
  <2>2. stamp' = stamp /\ clock' = clock
    BY <1>4 DEF ProcessRestarts
  <2> QED BY <2>1, <2>2 DEF Listing, Watched
<1>5. CASE UNCHANGED jobVars
  BY <1>5 DEF jobVars, Listing, Watched, Runs, Active
<1> QED BY <1>1, <1>2, <1>3, <1>4, <1>5 DEF JobsNext

(* If the history keeps at least as many jobs as the check of the active   *)
(* ones looks at (50 and 10 in the code), one batch runs at a time, and it *)
(* is active in the history (start_account_status_check_job, _trim_history). *)
THEOREM BatchesTakeTurns ==
  ASSUME MaxHistory >= ListLimit
  PROVE  JobsSpec => []OneListedCheck
<1> DEFINE I == JobsInv /\ Rest /\ Listing
<1>1. JobsInit => I
  <2> SUFFICES ASSUME JobsInit PROVE I
    OBVIOUS
  <2>1. JobsInv BY JobBegins
  <2>2. Rest
    BY JobsAssumption, Facts DEF JobsInit, Rest, Idle, Counted, Runs, Executing
  <2>3. Listing
    BY DEF JobsInit, Listing, InOrder, Watched, Runs, Executing
  <2> QED BY <2>1, <2>2, <2>3
<1>2. I /\ [JobsNext]_jobVars => I'
  BY StepKeeps, RestStep, ListingStep
<1>3. I => OneListedCheck
  <2> SUFFICES ASSUME I PROVE OneListedCheck
    OBVIOUS
  <2>1. JobTypeOK
    <3>1. checked \in [Jobs -> 0..Batch]
      BY DEF JobsInv, Shape, Rest, Counted
    <3> QED BY <3>1 DEF JobsInv, Shape, Rest, JobTypeOK
  <2>2. RunningCheckIsListed
    BY DEF Listing, Watched, RunningCheckIsListed
  <2>3. OneCheck
    <3> DEFINE running == {j \in Jobs : Runs(j)}
    <3>1. \A i, j \in running : i = j
      <4> TAKE i \in running, j \in running
      <4>1. i \in Nat /\ j \in Nat /\ i <= j /\ j <= i
        BY Facts DEF Listing, Watched, Last
      <4> QED BY <4>1
    <3> HIDE DEF running
    <3>2. CASE running = {}
      BY <3>2, FS_EmptySet DEF OneCheck, running
    <3>3. CASE running # {}
      <4>1. PICK j \in running : running = {j}
        BY <3>1, <3>3
      <4>2. Cardinality(running) = 1
        BY <4>1, FS_Singleton
      <4> QED BY <4>2 DEF OneCheck, running
    <3> QED BY <3>2, <3>3
  <2> QED BY <2>1, <2>2, <2>3 DEF OneListedCheck
<1> QED
  BY <1>1, <1>2, <1>3, PTL DEF JobsSpec

-----------------------------------------------------------------------------
(* A job becomes active with its coroutine and ends with it.               *)
LEMMA ActiveStep ==
  ASSUME JobsInv, ActiveIsRunning, [JobsNext]_jobVars
  PROVE  ActiveIsRunning'
<1> SUFFICES ASSUME "create" \notin WriteFaults, ~scenario'.preempt,
                    NEW i \in Jobs, Active(i)'
             PROVE  Runs(i)'
  BY DEF ActiveIsRunning
<1>0. scenario' = scenario /\ (Active(i) => Runs(i))
  BY DEF JobsNext, StartCheck, CheckStep, Begin, Tested, Paused, JobStep, Cancel, CancelNow,
     CancelReads, CancelSets, CancelWrites, ThreadStep, ProcessRestarts, jobVars,
     ActiveIsRunning
<1> USE DEF Active, ActiveStatuses
<1>1. ASSUME NEW j \in Jobs, CheckStep(j) PROVE Runs(i)'
  <2>1. CoroutineStep(j)
    BY <1>1, Coroutine DEF JobsInv
  <2>2. i # j => check'[i] = check[i] /\ status'[i] = status[i]
    BY <2>1 DEF CoroutineStep, JobsInv, Shape
  <2>3. i = j => check'[i] \in {"testing", "pausing"}
    BY <2>1 DEF CoroutineStep
  <2> QED BY <1>0, <2>2, <2>3 DEF Runs, Executing
<1>2. ASSUME NEW j \in Jobs, Cancel(j) PROVE Runs(i)'
  <2>1. check' = check
    BY <1>2 DEF Cancel, CancelNow, CancelReads, CancelSets, CancelWrites, ThreadStep
  <2>2. status'[i] = status[i] \/ Active(i)
    <3>1. CASE CancelNow(j)
      BY <3>1 DEF CancelNow, JobsInv, Shape
    <3>2. CASE CancelReads(j) \/ CancelWrites(j)
      BY <3>2 DEF CancelReads, CancelWrites
    <3>3. ~CancelSets(j)
      <4>1. canceller.job = 0 /\ j # 0
        BY <1>0, Facts DEF JobsInv, Idle
      <4> QED BY <4>1 DEF CancelSets
    <3> QED BY <1>2, <3>1, <3>2, <3>3 DEF Cancel
  <2> QED BY <1>0, <2>1, <2>2 DEF Runs
<1>3. ASSUME NEW j \in Jobs, StartCheck(j) PROVE Runs(i)'
  <2>1. Trimmed(j) /\ check' = [check EXCEPT ![j] = "created"]
    BY <1>3 DEF StartCheck, Fails
  <2>2. i # j => status'[i] \in {"none", status[i]} /\ check'[i] = check[i]
    BY <2>1 DEF Trimmed, JobsInv, Shape
  <2>3. i = j => check'[i] = "created"
    BY <2>1 DEF JobsInv, Shape
  <2> QED BY <1>0, <2>2, <2>3 DEF Runs, Executing
<1>4. CASE ProcessRestarts
  <2>1. Reloaded(i)
    BY <1>4, Restarting DEF JobsInv
  <2> QED BY <2>1 DEF Reloaded
<1>5. CASE UNCHANGED jobVars
  BY <1>0, <1>5 DEF jobVars, Runs
<1> QED BY <1>1, <1>2, <1>3, <1>4, <1>5 DEF JobsNext

(* As long as the first write of a job succeeds and a cancellation is not  *)
(* interrupted, a job is active only while its coroutine runs, so none     *)
(* keeps start_account_status_check_job from starting the next batch.      *)
THEOREM ActiveJobsRun == JobsSpec => []ActiveIsRunning
<1>1. JobsInit => JobsInv /\ ActiveIsRunning
  BY JobBegins DEF JobsInit, ActiveIsRunning, Active, ActiveStatuses
<1>2. JobsInv /\ ActiveIsRunning /\ [JobsNext]_jobVars => JobsInv' /\ ActiveIsRunning'
  BY StepKeeps, ActiveStep
<1> QED BY <1>1, <1>2, PTL DEF JobsSpec

-----------------------------------------------------------------------------
(***************************************************************************)
(* SourceSupervisor, for any number of requests and workers, any crashes   *)
(* and any order of the waits: no worker goes astray, none goes on after a *)
(* stop, and the one that runs has the saved settings.                     *)
(***************************************************************************)

(* Proofs about SourceSupervisor, for any number of requests and workers,  *)
(* any crashes and any order of the waits: no worker goes astray, none     *)
(* goes on after a stop, and the one that runs has the saved settings.     *)
(***************************************************************************)

(* The types, with names for the records.                                  *)
WorkerRecords == [state : Live \cup {"none", "ended"}, gen : Nat,
                  edition : Nat, told : BOOLEAN, cancelled : BOOLEAN]
CallRecords == [kind : Kinds \cup {"restart", "none"},
                at : Waits \cup {"idle", "done"}, kept : Nat]
Settings == [enabled : BOOLEAN, edition : Nat]

Typed ==
  /\ facts \in Circumstances
  /\ initialized \in BOOLEAN /\ stopping \in BOOLEAN /\ wanted \in BOOLEAN
  /\ saved \in Settings /\ settings \in Settings
  /\ current \in Workers \cup {0} /\ generation \in Nat
  /\ worker \in [Workers -> WorkerRecords] /\ call \in [Calls -> CallRecords]

(* What the code can guarantee: the start of E-Hentai waits between its    *)
(* look at the worker and the creation of one, that of WNACG does not.     *)
Sound(f) == f.source = "wnacg" \/ (~f.overlap /\ ~f.crashes)

(* What is known of the worker of the supervisor and of those taken out,   *)
(* and of the calls.                                                       *)
WorkersKnown ==
  /\ NoStrayWorker
  /\ current # 0 => IsLive(current) /\ ~worker[current].told
  /\ \A w \in Workers : worker[w].cancelled => worker[w].told

CallKnown(c) ==
  /\ call[c].at = "idle" => call[c] = NoCall
  /\ call[c].at = "catalogue" => facts.source = "ehentai"
  /\ call[c].at \in {"closing", "joining"} =>
       call[c].kept \in Created /\ worker[call[c].kept].told

Known ==
  /\ Typed /\ Sound(facts) /\ WorkersKnown
  /\ \A c \in Calls : CallKnown(c)

(* E-Hentai, where nothing overlaps or crashes, is alone in its wait.      *)
Uncrashed ==
  facts.source = "ehentai" =>
    /\ \A w \in Workers : worker[w].state # "crashing"
    /\ \A c \in Calls : call[c].at # "sleeping"

(* Before the start of the program asks for the worker nothing happens.    *)
Unstarted ==
  1 \in Requests /\ call[1].at = "idle" =>
    ~wanted /\ Created = {} /\ \A c \in Calls : call[c].at = "idle"

(* A generation begins with its worker, and ends with a stop or reload.    *)
Generations ==
  \A w \in Created :
    /\ worker[w].gen <= generation
    /\ worker[w].gen = generation => initialized /\ wanted

InForce == worker[current].gen = generation /\ worker[current].edition = saved.edition
OnDisk == saved = settings /\ saved.enabled = wanted
TakingOut(r) == call[r].at \in {"closing", "joining"}

(* A restart that waits belongs to a worker that crashed.                  *)
RestartWaits(w) ==
  /\ call[RestartOf(w)].at \in {"idle", "sleeping", "done"}
  /\ call[RestartOf(w)].at = "sleeping" =>
       w \in Created /\ call[RestartOf(w)].kept = worker[w].gen

(* Where a request is, and what it has done by then.                       *)
RequestAt(r) ==
  /\ call[r].at # "sleeping"
  /\ call[r].at = "init" =>
       /\ call[r].kind \in {"boot", "start", "pass", "reload"}
       /\ ~initialized /\ settings = saved
       /\ call[r].kind = "boot" => ~wanted
       /\ call[r].kind = "reload" => saved.enabled = wanted
  /\ TakingOut(r) =>
       /\ call[r].kind \in {"disable", "reload"} /\ current = 0
       /\ call[r].kind = "reload" => saved.enabled = wanted
       /\ \A w \in Created : worker[w].gen # generation
  /\ call[r].at = "catalogue" =>
       /\ initialized /\ current = 0 /\ OnDisk /\ wanted
       /\ call[r].kept = saved.edition

(* What holds when requests do not overlap.                                *)
OneRequest == \A q, r \in Requests : Busy(q) /\ Busy(r) => q = r
CurrentInForce == current # 0 => InForce /\ saved.enabled
DiskKept ==
  initialized /\ (\A r \in Requests : TakingOut(r) => call[r].kind # "reload") => OnDisk

Order ==
  /\ OneRequest /\ CurrentInForce /\ DiskKept /\ Generations
  /\ \A w \in Workers : RestartWaits(w)
  /\ \A r \in Requests : RequestAt(r)

Orderly == ~facts.overlap => Order

(* The inductive invariant.                                                *)
WorkersInv == Known /\ Uncrashed /\ Unstarted /\ Orderly

(* The numbers of calls and workers, for the provers.                      *)
LEMMA Numbers ==
  /\ MaxRequests \in Nat /\ MaxWorkers \in Nat
  /\ Workers \subseteq Nat \ {0} /\ Requests \subseteq Nat /\ Requests \subseteq Calls
  /\ \A w \in Workers : RestartOf(w) \in Calls /\ RestartOf(w) \notin Requests
  /\ \A v, w \in Workers : RestartOf(v) = RestartOf(w) => v = w
  /\ \A c \in Calls : c \in Requests \/ \E w \in Workers : c = RestartOf(w)
BY SupervisorAssumption DEF Workers, Requests, Calls, Restarts, RestartOf

(* The invariant holds when the program begins.                            *)
LEMMA Beginning == SupervisorInit /\ (\A f \in Circumstances : Sound(f)) => WorkersInv
<1> SUFFICES ASSUME SupervisorInit, \A f \in Circumstances : Sound(f) PROVE WorkersInv
  OBVIOUS
<1> USE Numbers DEF SupervisorInit
<1>1. Known
  <2>1. Typed
    <3>1. worker \in [Workers -> [state : Live \cup {"none", "ended"}, gen : Nat,
                                 edition : Nat, told : BOOLEAN, cancelled : BOOLEAN]]
      BY DEF NoWorker
    <3>2. call \in [Calls -> [kind : Kinds \cup {"restart", "none"},
                             at : Waits \cup {"idle", "done"}, kept : Nat]]
      BY DEF NoCall
    <3>3. saved \in [enabled : BOOLEAN, edition : Nat] /\ settings = saved
      <4>1. PICK on \in BOOLEAN : saved = [enabled |-> on, edition |-> 0]
        OBVIOUS
      <4> QED BY <4>1
    <3> QED BY <3>1, <3>2, <3>3 DEF Typed, WorkerRecords, CallRecords, Settings
  <2> QED
    BY <2>1 DEF Known, WorkersKnown, CallKnown, NoStrayWorker, IsLive, Live, NoCall, NoWorker
<1>2. Uncrashed /\ Unstarted
  BY DEF Uncrashed, Unstarted, Created, NoCall, NoWorker
<1>3. Orderly
  BY DEF Orderly, Order, OneRequest, CurrentInForce, DiskKept, Busy, Waits, RestartWaits,
     RequestAt, TakingOut, Generations, Created, OnDisk, InForce, NoCall, NoWorker
<1> QED BY <1>1, <1>2, <1>3 DEF WorkersInv

(* The invariant implies the property.                                     *)
LEMMA Consequence == WorkersInv => SwitchIsObeyed
<1> SUFFICES ASSUME WorkersInv PROVE SwitchIsObeyed
  OBVIOUS
<1>1. OffMeansOff
  <2> SUFFICES ASSUME ~facts.overlap, ~wanted, NEW w \in Workers, IsLive(w),
                      ~worker[w].told
               PROVE  FALSE
    BY DEF OffMeansOff
  <2>1. w = current /\ current # 0 /\ w \in Created
    BY Numbers DEF WorkersInv, Known, WorkersKnown, NoStrayWorker, IsLive, Live, Created
  <2> QED BY <2>1 DEF WorkersInv, Orderly, Order, CurrentInForce, InForce, Generations
<1>2. WorkerHasSettings
  BY Numbers DEF WorkerHasSettings, Quiet, WorkersInv, Orderly, Order, CurrentInForce, DiskKept, InForce, OnDisk, TakingOut,
     Busy, Waits
<1>3. SupervisorTypeOK
  BY DEF WorkersInv, Known, Typed, SupervisorTypeOK, WorkerRecords, CallRecords, Settings
<1> QED BY <1>1, <1>2, <1>3 DEF SwitchIsObeyed, WorkersInv, Known, WorkersKnown
-----------------------------------------------------------------------------
(* What steps do to the calls and the workers.                             *)
Went(c, at) ==
  /\ call' \in [Calls -> CallRecords]
  /\ call'[c].at = at /\ call'[c].kind = call[c].kind /\ call'[c].kept = call[c].kept
  /\ \A d \in Calls \ {c} : call'[d] = call[d]

Placed(c, k, at, n) ==
  /\ call' \in [Calls -> CallRecords]
  /\ call'[c].at = at /\ call'[c].kind = k /\ call'[c].kept = n
  /\ \A d \in Calls \ {c} : call'[d] = call[d]

Others(w) == \A v \in Workers \ {w} : worker'[v] = worker[v]

Turned(w, at) ==
  /\ worker' \in [Workers -> WorkerRecords] /\ Others(w)
  /\ worker'[w].state = at /\ worker'[w].gen = worker[w].gen
  /\ worker'[w].edition = worker[w].edition
  /\ worker'[w].told = worker[w].told /\ worker'[w].cancelled = worker[w].cancelled

Told(w) ==
  /\ worker' \in [Workers -> WorkerRecords] /\ Others(w)
  /\ worker'[w].state = worker[w].state /\ worker'[w].gen = worker[w].gen
  /\ worker'[w].told

Cancelled(w) ==
  /\ worker' \in [Workers -> WorkerRecords] /\ Others(w)
  /\ worker'[w].state = worker[w].state /\ worker'[w].gen = worker[w].gen
  /\ worker'[w].edition = worker[w].edition
  /\ worker'[w].told = worker[w].told

Launched(w, edition) ==
  /\ w \notin Created /\ current' = w /\ generation' = generation + 1
  /\ worker' \in [Workers -> WorkerRecords] /\ Others(w)
  /\ worker'[w].state = "created" /\ worker'[w].gen = generation + 1
  /\ worker'[w].edition = edition
  /\ ~worker'[w].told /\ ~worker'[w].cancelled

(* A call goes on: only its next step changes.                             *)
LEMMA Going ==
  ASSUME Typed, NEW c \in Calls, NEW at \in Waits \cup {"idle", "done"}, Goto(c, at)
  PROVE  Went(c, at)
<1>1. call \in [Calls -> CallRecords] BY DEF Typed
<1>2. call' \in [Calls -> CallRecords]
  BY <1>1 DEF Goto, CallRecords
<1>3. /\ call'[c].at = at /\ call'[c].kind = call[c].kind /\ call'[c].kept = call[c].kept
      /\ \A d \in Calls \ {c} : call'[d] = call[d]
  BY <1>1 DEF Goto, CallRecords
<1> QED BY <1>2, <1>3 DEF Went

(* A call gets a new record.                                               *)
LEMMA Placing ==
  ASSUME Typed, NEW c \in Calls, NEW k \in Kinds \cup {"restart", "none"},
         NEW at \in Waits \cup {"idle", "done"}, NEW n \in Nat,
         call' = [call EXCEPT ![c] = [kind |-> k, at |-> at, kept |-> n]]
  PROVE  Placed(c, k, at, n)
<1>1. call \in [Calls -> CallRecords] BY DEF Typed
<1>2. call' \in [Calls -> CallRecords]
  BY <1>1 DEF CallRecords
<1>3. /\ call'[c].at = at /\ call'[c].kind = k /\ call'[c].kept = n
      /\ \A d \in Calls \ {c} : call'[d] = call[d]
  BY <1>1
<1> QED BY <1>2, <1>3 DEF Placed

(* A worker changes its state.                                             *)
LEMMA Turning ==
  ASSUME Typed, NEW w \in Workers, NEW at \in Live \cup {"none", "ended"},
         worker' = [worker EXCEPT ![w].state = at]
  PROVE  Turned(w, at)
<1>1. worker \in [Workers -> WorkerRecords] BY DEF Typed
<1>2. worker' \in [Workers -> WorkerRecords]
  BY <1>1 DEF WorkerRecords
<1>3. /\ worker'[w].state = at /\ worker'[w].gen = worker[w].gen
      /\ worker'[w].edition = worker[w].edition
      /\ worker'[w].told = worker[w].told /\ worker'[w].cancelled = worker[w].cancelled
  BY <1>1 DEF WorkerRecords
<1>4. Others(w) BY <1>1 DEF Others
<1> QED BY <1>2, <1>3, <1>4 DEF Turned

(* A worker is told to stop.                                               *)
LEMMA Telling ==
  ASSUME Typed, NEW w \in Workers, worker' = [worker EXCEPT ![w].told = TRUE]
  PROVE  Told(w)
<1>1. worker \in [Workers -> WorkerRecords] BY DEF Typed
<1>2. worker' \in [Workers -> WorkerRecords]
  BY <1>1 DEF WorkerRecords
<1>3. /\ worker'[w].state = worker[w].state /\ worker'[w].gen = worker[w].gen
      /\ worker'[w].told
  BY <1>1 DEF WorkerRecords
<1>4. Others(w) BY <1>1 DEF Others
<1> QED BY <1>2, <1>3, <1>4 DEF Told

(* The task of a worker is cancelled.                                      *)
LEMMA Cancelling ==
  ASSUME Typed, NEW w \in Workers, worker' = [worker EXCEPT ![w].cancelled = TRUE]
  PROVE  Cancelled(w)
<1>1. worker \in [Workers -> WorkerRecords] BY DEF Typed
<1>2. worker' \in [Workers -> WorkerRecords]
  BY <1>1 DEF WorkerRecords
<1>3. /\ worker'[w].state = worker[w].state /\ worker'[w].gen = worker[w].gen
      /\ worker'[w].edition = worker[w].edition /\ worker'[w].told = worker[w].told
  BY <1>1 DEF WorkerRecords
<1>4. Others(w) BY <1>1 DEF Others
<1> QED BY <1>2, <1>3, <1>4 DEF Cancelled

(* A worker is created, with the generation that begins.                   *)
LEMMA Launching ==
  ASSUME Typed, NEW c \in Calls, NEW edition \in Nat, Launch(c, edition)
  PROVE  Went(c, "done") /\ \E w \in Workers : Launched(w, edition)
<1>1. PICK w \in Workers :
        /\ \A v \in Workers : v \in Created <=> v < w
        /\ current' = w /\ generation' = generation + 1
        /\ worker' = [worker EXCEPT ![w] =
                        [state |-> "created", gen |-> generation + 1, edition |-> edition,
                         told |-> FALSE, cancelled |-> FALSE]]
        /\ Ends(c)
  BY DEF Launch
<1>2. w \notin Created BY <1>1, Numbers
<1>3. worker \in [Workers -> WorkerRecords] /\ generation \in Nat
  BY DEF Typed
<1>4. worker' \in [Workers -> WorkerRecords]
  BY <1>1, <1>3 DEF WorkerRecords, Live
<1>5. /\ worker'[w].state = "created" /\ worker'[w].gen = generation + 1
      /\ worker'[w].edition = edition /\ ~worker'[w].told /\ ~worker'[w].cancelled
  BY <1>1, <1>3
<1>6. Others(w) BY <1>1, <1>3 DEF Others
<1>7. Launched(w, edition)
  BY <1>1, <1>2, <1>4, <1>5, <1>6 DEF Launched
<1>8. Went(c, "done")
  BY <1>1, Going DEF Ends
<1> QED BY <1>7, <1>8

(* StartWith finds a worker, or switches the source on and creates one.    *)
SwitchedOn(s) ==
  /\ saved' \in Settings /\ settings' \in Settings /\ settings'.enabled = TRUE
  /\ \/ s.enabled /\ saved' = saved /\ settings' = s
     \/ settings' = saved' /\ saved'.edition = saved.edition

Started(c, k, s) ==
  \/ /\ current # 0 /\ Went(c, "done") /\ settings' = s
     /\ UNCHANGED <<saved, worker, current, generation>>
  \/ /\ current = 0 /\ SwitchedOn(s)
     /\ facts.source = "ehentai" /\ Placed(c, k, "catalogue", settings'.edition)
     /\ UNCHANGED <<worker, current, generation>>
  \/ /\ current = 0 /\ SwitchedOn(s) /\ Went(c, "done")
     /\ \E w \in Workers : Launched(w, settings'.edition)

(* StartWith does one of the three.                                        *)
LEMMA Starting ==
  ASSUME Typed, NEW c \in Calls, NEW k \in Kinds \cup {"restart", "none"},
         NEW s \in Settings, StartWith(c, k, s)
  PROVE  Started(c, k, s)
<1>1. CASE current # 0
  BY <1>1, Going DEF StartWith, Started, Ends
<1>2. CASE current = 0
  <2>1. SwitchedOn(s)
    <3>0. saved \in [enabled : BOOLEAN, edition : Nat] /\ s \in [enabled : BOOLEAN, edition : Nat]
      BY DEF Typed, Settings
    <3>1. CASE s.enabled
      BY <1>2, <3>0, <3>1 DEF StartWith, SwitchedOn, Settings
    <3>2. CASE ~s.enabled
      <4>1. saved' = [saved EXCEPT !.enabled = TRUE] /\ settings' = saved'
        BY <1>2, <3>2 DEF StartWith
      <4>2. saved' \in Settings /\ saved'.enabled = TRUE /\ saved'.edition = saved.edition
        BY <3>0, <4>1 DEF Settings
      <4> QED BY <4>1, <4>2 DEF SwitchedOn
    <3> QED BY <3>1, <3>2
  <2>2. settings'.edition \in Nat
    BY <2>1 DEF SwitchedOn, Settings
  <2>3. CASE Launch(c, settings'.edition)
    BY <1>2, <2>1, <2>2, <2>3, Launching DEF Started
  <2>4. CASE /\ facts.source = "ehentai"
             /\ call' = [call EXCEPT ![c] =
                          [kind |-> k, at |-> "catalogue", kept |-> settings'.edition]]
             /\ UNCHANGED <<worker, current, generation>>
    <3>1. Placed(c, k, "catalogue", settings'.edition)
      BY <2>2, <2>4, Placing DEF Waits
    <3> QED BY <1>2, <2>1, <2>4, <3>1 DEF Started
  <2> QED BY <1>2, <2>3, <2>4 DEF StartWith
<1> QED BY <1>1, <1>2 DEF Typed

-----------------------------------------------------------------------------
(* What a step does to the workers: nothing, or one is created, taken out, *)
(* cancelled, or goes on.                                                  *)
WorkerStep ==
  \/ UNCHANGED <<worker, current>>
  \/ current = 0 /\ \E w \in Workers, n \in Nat : Launched(w, n)
  \/ current # 0 /\ Told(current) /\ current' = 0
  \/ UNCHANGED current /\ \E w \in Workers : worker[w].told /\ Cancelled(w)
  \/ /\ UNCHANGED current
     /\ \E w \in Workers :
          IsLive(w) /\ (Turned(w, "running") \/ (facts.crashes /\ Turned(w, "crashing")))
  \/ \E w \in Workers :
       /\ IsLive(w) /\ Turned(w, "ended")
       /\ \/ current' = IF current = w THEN 0 ELSE current
          \/ worker[w].told /\ UNCHANGED current

(* What it does to the call that moves, if any.                            *)
CallMove(c) ==
  /\ call' \in [Calls -> CallRecords] /\ \A d \in Calls \ {c} : call'[d] = call[d]
  /\ call'[c].at # "idle"
  /\ call'[c].at = "sleeping" => \E w \in Workers : worker[w].state = "crashing"
  /\ call'[c].at = "catalogue" => facts.source = "ehentai"
  /\ call'[c].at = "closing" => call'[c].kept = current /\ current # 0 /\ Told(current)
  /\ call'[c].at = "joining" => call[c].at = "closing" /\ call'[c].kept = call[c].kept

CallStep == UNCHANGED call \/ \E c \in Calls : CallMove(c)

(* Workers stay created and told, and the supervisor knows its own.        *)
LEMMA WorkersStep ==
  ASSUME Known, WorkerStep
  PROVE  /\ worker' \in [Workers -> WorkerRecords] /\ current' \in Workers \cup {0}
         /\ WorkersKnown'
         /\ \A w \in Created : w \in Created' /\ (worker[w].told => worker'[w].told)
<1> USE Numbers DEF Known, Typed, WorkersKnown, NoStrayWorker, IsLive, Created, Live
<1>1. CASE UNCHANGED <<worker, current>>
  BY <1>1
<1>2. ASSUME current = 0, NEW w \in Workers, NEW n \in Nat, Launched(w, n)
      PROVE  /\ worker' \in [Workers -> WorkerRecords] /\ current' \in Workers \cup {0}
             /\ WorkersKnown'
             /\ \A v \in Created : v \in Created' /\ (worker[v].told => worker'[v].told)
  BY <1>2 DEF Launched, Others
<1>3. CASE current # 0 /\ Told(current) /\ current' = 0
  BY <1>3 DEF Told, Others
<1>4. ASSUME UNCHANGED current, NEW w \in Workers, worker[w].told, Cancelled(w)
      PROVE  /\ worker' \in [Workers -> WorkerRecords] /\ current' \in Workers \cup {0}
             /\ WorkersKnown'
             /\ \A v \in Created : v \in Created' /\ (worker[v].told => worker'[v].told)
  BY <1>4 DEF Cancelled, Others
<1>5. ASSUME UNCHANGED current, NEW w \in Workers, IsLive(w),
             Turned(w, "running") \/ Turned(w, "crashing")
      PROVE  /\ worker' \in [Workers -> WorkerRecords] /\ current' \in Workers \cup {0}
             /\ WorkersKnown'
             /\ \A v \in Created : v \in Created' /\ (worker[v].told => worker'[v].told)
  BY <1>5 DEF Turned, Others
<1>6. ASSUME NEW w \in Workers, IsLive(w), Turned(w, "ended"),
             \/ current' = IF current = w THEN 0 ELSE current
             \/ worker[w].told /\ UNCHANGED current
      PROVE  /\ worker' \in [Workers -> WorkerRecords] /\ current' \in Workers \cup {0}
             /\ WorkersKnown'
             /\ \A v \in Created : v \in Created' /\ (worker[v].told => worker'[v].told)
  BY <1>6 DEF Turned, Others
<1> QED
  BY <1>1, <1>2, <1>3, <1>4, <1>5, <1>6 DEF WorkerStep

(* What is known of the calls survives such steps.                         *)
LEMMA CallsStep ==
  ASSUME Known, WorkerStep, CallStep, facts' = facts
  PROVE  call' \in [Calls -> CallRecords] /\ \A c \in Calls : CallKnown(c)'
<1>1. ASSUME NEW c \in Calls, call'[c] = call[c] PROVE CallKnown(c)'
  BY <1>1, WorkersStep DEF Known, CallKnown
<1>2. ASSUME NEW c \in Calls, CallMove(c) PROVE CallKnown(c)'
  <2>1. CASE call'[c].at = "closing"
    <3>1. current \in Created /\ worker'[current].told
      BY <1>2, <2>1 DEF CallMove, Told, Known, Typed, WorkersKnown, IsLive, Live, Created
    <3> QED BY <1>2, <2>1, <3>1, WorkersStep DEF CallMove, CallKnown
  <2>2. CASE call'[c].at = "joining"
    BY <1>2, <2>2, WorkersStep DEF CallMove, CallKnown, Known
  <2> QED BY <1>2, <2>1, <2>2 DEF CallMove, CallKnown
<1>3. call' \in [Calls -> CallRecords]
  BY DEF CallStep, CallMove, Known, Typed
<1> QED BY <1>1, <1>2, <1>3 DEF CallStep, CallMove

(* Both, and the types of the rest.                                        *)
LEMMA KnownStep ==
  ASSUME Known, WorkerStep, CallStep, facts' = facts,
         initialized' \in BOOLEAN, stopping' \in BOOLEAN, wanted' \in BOOLEAN,
         saved' \in Settings, settings' \in Settings, generation' \in Nat
  PROVE  Known' /\ CallStep /\ WorkerStep
<1>1. Typed'
  BY WorkersStep, CallsStep DEF Typed, Known
<1>2. Sound(facts)'
  BY DEF Known, Sound
<1> QED BY <1>1, <1>2, WorkersStep, CallsStep DEF Known

-----------------------------------------------------------------------------
(* The steps of the supervisor, without the construction of their records. *)
StartedKnown(c, k, s) ==
  /\ Started(c, k, s) /\ WorkerStep /\ CallMove(c)
  /\ saved' \in Settings /\ settings' \in Settings /\ generation' \in Nat

(* The start of a worker is such a step.                                   *)
LEMMA StartsKnown ==
  ASSUME Known, NEW c \in Calls, NEW k \in Kinds \cup {"restart", "none"},
         NEW s \in Settings, StartWith(c, k, s)
  PROVE  StartedKnown(c, k, s)
<1>1. Started(c, k, s)
  BY Starting DEF Known
<1>2. saved' \in Settings /\ settings' \in Settings /\ settings'.edition \in Nat
  BY <1>1 DEF Started, SwitchedOn, Known, Typed, Settings
<1>3. generation' \in Nat
  BY <1>1 DEF Started, Launched, Known, Typed
<1>4. WorkerStep
  BY <1>1, <1>2 DEF Started, WorkerStep
<1>5. CallMove(c)
  BY <1>1 DEF Started, Went, Placed, CallMove
<1> QED BY <1>1, <1>2, <1>3, <1>4, <1>5 DEF StartedKnown

OpenedFor(c, k) ==
  /\ ~initialized /\ settings' = saved /\ Placed(c, k, "init", 0) /\ CallMove(c)
  /\ WorkerStep /\ UNCHANGED <<saved, worker, current, generation>>

(* So is the wait for the database,                                        *)
LEMMA OpensKnown ==
  ASSUME Known, NEW c \in Calls, NEW k \in Kinds \cup {"restart", "none"}, Opens(c, k)
  PROVE  OpenedFor(c, k)
<1>1. Placed(c, k, "init", 0)
  BY Placing DEF Opens, Waits, Known
<1>2. CallMove(c)
  BY <1>1 DEF Placed, CallMove
<1> QED BY <1>1, <1>2 DEF Opens, Loaded, OpenedFor, WorkerStep

(* a stop that finds a worker,                                             *)
LEMMA TakingKnown ==
  ASSUME Known, NEW r \in Requests, NEW k \in Kinds, Unplugs, TakesOut(r, k)
  PROVE  /\ Told(current) /\ Placed(r, k, "closing", current) /\ CallMove(r) /\ WorkerStep
         /\ current # 0 /\ current' = 0 /\ generation' = generation + 1 /\ stopping' = TRUE
<1>1. Told(current)
  BY Telling DEF TakesOut, Known, Typed
<1>2. Placed(r, k, "closing", current)
  BY Placing, Numbers DEF TakesOut, Known, Typed, Waits
<1>3. CallMove(r)
  BY <1>1, <1>2 DEF TakesOut, Placed, CallMove
<1> QED BY <1>1, <1>2, <1>3 DEF TakesOut, Unplugs, WorkerStep

(* the second half of a reload,                                            *)
LEMMA ReopensKnown ==
  ASSUME Known, NEW c \in Calls, Reopens(c)
  PROVE  /\ Placed(c, "reload", "init", 0) /\ CallMove(c)
         /\ settings' = saved' /\ initialized' = FALSE
<1>1. Placed(c, "reload", "init", 0)
  BY Placing DEF Reopens, Waits, Kinds, Known
<1> QED BY <1>1 DEF Reopens, Placed, CallMove

(* the end of a call,                                                      *)
LEMMA EndsKnown ==
  ASSUME Known, NEW c \in Calls, Ends(c)
  PROVE  Went(c, "done") /\ CallMove(c)
<1>1. Went(c, "done")
  BY Going DEF Ends, Known
<1> QED BY <1>1 DEF Went, CallMove

(* and the creation of the E-Hentai worker once it has its catalogue.      *)
LEMMA CatalogueKnown ==
  ASSUME WorkersInv, NEW c \in Calls, CatalogueRead(c)
  PROVE  /\ ~facts.overlap /\ c \in Requests /\ current = 0 /\ call[c].kept \in Nat
         /\ Went(c, "done") /\ \E w \in Workers : Launched(w, call[c].kept)
<1>1. call[c].at = "catalogue" /\ facts.source = "ehentai" /\ ~facts.overlap
  BY DEF CatalogueRead, WorkersInv, Known, CallKnown, Sound
<1>2. c \in Requests
  BY <1>1, Numbers DEF WorkersInv, Orderly, Order, RestartWaits
<1>3. current = 0 /\ call[c].kept \in Nat
  BY <1>1, <1>2 DEF WorkersInv, Orderly, Order, RequestAt, Known, Typed, CallRecords
<1> QED
  BY <1>1, <1>2, <1>3, Launching DEF CatalogueRead, WorkersInv, Known

(* The first part of the invariant.                                        *)
LEMMA KnownNext ==
  ASSUME WorkersInv, [SupervisorNext]_supVars
  PROVE  Known' /\ CallStep /\ WorkerStep
<1>0. Known /\ Typed BY DEF WorkersInv, Known
<1> USE Numbers DEF Kinds, CallStep
<1>1. ASSUME NEW r \in Requests, Boot(r) PROVE Known' /\ CallStep /\ WorkerStep
  <2>1. OpenedFor(r, "boot") BY <1>0, <1>1, OpensKnown DEF Boot
  <2> QED BY <1>0, <1>1, <2>1, KnownStep DEF Boot, OpenedFor, Typed
<1>2. ASSUME NEW r \in Requests, StartSource(r) PROVE Known' /\ CallStep /\ WorkerStep
  <2>1. StartedKnown(r, "start", settings) \/ OpenedFor(r, "start")
    BY <1>0, <1>2, StartsKnown, OpensKnown DEF StartSource, Starts, Typed
  <2> QED BY <1>0, <1>2, <2>1, KnownStep DEF StartSource, StartedKnown, OpenedFor, Typed
<1>3. ASSUME NEW r \in Requests, RequestPass(r) PROVE Known' /\ CallStep /\ WorkerStep
  <2>1. StartedKnown(r, "pass", settings) \/ OpenedFor(r, "pass")
    BY <1>0, <1>3, StartsKnown, OpensKnown DEF RequestPass, Starts, Typed
  <2> QED BY <1>0, <1>3, <2>1, KnownStep DEF RequestPass, StartedKnown, OpenedFor, Typed
<1>4. ASSUME NEW r \in Requests, Disable(r) PROVE Known' /\ CallStep /\ WorkerStep
  <2>1. saved' \in Settings /\ settings' \in Settings /\ generation' \in Nat
    <3>1. saved' = [saved EXCEPT !.enabled = FALSE] /\ settings' = saved'
      BY <1>4 DEF Disable
    <3>2. saved \in Settings BY <1>0 DEF Typed
    <3>3. saved' \in Settings BY <3>1, <3>2 DEF Settings
    <3> QED BY <1>0, <1>4, <3>1, <3>3 DEF Disable, Unplugs, Typed
  <2>2. CASE TakesOut(r, "disable")
    BY <1>0, <1>4, <2>1, <2>2, TakingKnown, KnownStep DEF Disable, Typed
  <2>3. CASE FindsNone /\ Ends(r)
    <3>1. WorkerStep BY <1>4, <2>3 DEF Disable, FindsNone, Unplugs, WorkerStep
    <3> QED
      BY <1>0, <1>4, <2>1, <2>3, <3>1, EndsKnown, KnownStep DEF Disable, FindsNone, Typed
  <2> QED BY <1>4, <2>2, <2>3 DEF Disable
<1>5. ASSUME NEW r \in Requests, Reload(r) PROVE Known' /\ CallStep /\ WorkerStep
  <2>1. saved' \in Settings /\ wanted' \in BOOLEAN /\ generation' \in Nat
    <3>1. PICK on \in BOOLEAN : saved' = [enabled |-> on, edition |-> r] /\ wanted' = on
      BY <1>5 DEF Reload
    <3>2. saved' \in Settings /\ wanted' \in BOOLEAN BY <3>1, Numbers DEF Settings
    <3> QED BY <1>0, <1>5, <3>2 DEF Reload, Unplugs, Typed
  <2>2. CASE TakesOut(r, "reload") /\ UNCHANGED <<settings, initialized>>
    BY <1>0, <1>5, <2>1, <2>2, TakingKnown, KnownStep DEF Reload, Typed
  <2>3. CASE FindsNone /\ Reopens(r)
    <3>1. WorkerStep BY <1>5, <2>3 DEF Reload, FindsNone, Unplugs, WorkerStep
    <3> QED
      BY <1>0, <1>5, <2>1, <2>3, <3>1, ReopensKnown, KnownStep DEF Reload, FindsNone, Typed
  <2> QED BY <1>5, <2>2, <2>3 DEF Reload
<1>6. ASSUME NEW c \in Calls, Opened(c) PROVE Known' /\ CallStep /\ WorkerStep
  <2>1. CASE /\ Ends(c)
             /\ UNCHANGED <<saved, settings, worker, current, generation, wanted>>
    <3>1. WorkerStep BY <2>1 DEF WorkerStep
    <3> QED BY <1>0, <1>6, <2>1, <3>1, EndsKnown, KnownStep DEF Opened, Typed
  <2>2. CASE StartWith(c, call[c].kind, settings) /\ wanted' \in BOOLEAN
    <3>1. call[c].kind \in Kinds \cup {"restart", "none"}
      BY <1>0 DEF Typed, CallRecords
    <3>2. StartedKnown(c, call[c].kind, settings)
      BY <1>0, <2>2, <3>1, StartsKnown DEF Typed
    <3> QED BY <1>0, <1>6, <2>2, <3>2, KnownStep DEF Opened, StartedKnown, Typed
  <2> QED BY <1>0, <1>6, <2>1, <2>2 DEF Opened, Typed
<1>7. ASSUME NEW c \in Calls, CatalogueRead(c) PROVE Known' /\ CallStep /\ WorkerStep
  <2>1. PICK w \in Workers : Launched(w, call[c].kept)
    BY <1>7, CatalogueKnown
  <2>2. WorkerStep /\ CallMove(c)
    BY <1>7, <2>1, CatalogueKnown DEF WorkerStep, Went, CallMove
  <2> QED BY <1>0, <1>7, <2>1, <2>2, KnownStep DEF CatalogueRead, Launched, Typed
<1>8. ASSUME NEW c \in Calls, WorkerStopped(c) PROVE Known' /\ CallStep /\ WorkerStep
  <2>1. CASE /\ worker' = [worker EXCEPT ![call[c].kept].cancelled = TRUE]
             /\ Goto(c, "joining")
             /\ UNCHANGED <<initialized, saved, settings, stopping>>
    <3>1. call[c].kept \in Workers /\ worker[call[c].kept].told
      BY <1>0, <1>8 DEF WorkerStopped, Known, CallKnown, Created
    <3>2. WorkerStep
      BY <1>0, <1>8, <2>1, <3>1, Cancelling DEF WorkerStopped, WorkerStep
    <3>3. CallMove(c)
      BY <1>0, <1>8, <2>1, Going DEF WorkerStopped, Waits, Went, CallMove
    <3> QED BY <1>0, <1>8, <2>1, <3>2, <3>3, KnownStep DEF WorkerStopped, Typed
  <2>2. CASE Finishes(c) /\ UNCHANGED worker
    <3>1. WorkerStep BY <1>8, <2>2 DEF WorkerStopped, WorkerStep
    <3> QED
      BY <1>0, <1>8, <2>2, <3>1, ReopensKnown, EndsKnown, KnownStep
         DEF WorkerStopped, Finishes, Typed
  <2> QED BY <1>8, <2>1, <2>2 DEF WorkerStopped
<1>9. ASSUME NEW c \in Calls, TaskJoined(c) PROVE Known' /\ CallStep /\ WorkerStep
  <2>1. WorkerStep BY <1>9 DEF TaskJoined, WorkerStep
  <2> QED
    BY <1>0, <1>9, <2>1, ReopensKnown, EndsKnown, KnownStep DEF TaskJoined, Finishes, Typed
<1>10. ASSUME NEW w \in Workers, Begins(w) PROVE Known' /\ CallStep /\ WorkerStep
  <2>1. WorkerStep
    BY <1>0, <1>10, Turning DEF Begins, WorkerStep, IsLive, Live
  <2> QED BY <1>0, <1>10, <2>1, KnownStep DEF Begins, Typed
<1>11. ASSUME NEW w \in Workers, Crashes(w) PROVE Known' /\ CallStep /\ WorkerStep
  <2>1. WorkerStep
    BY <1>0, <1>11, Turning DEF Crashes, WorkerStep, IsLive, Live
  <2> QED BY <1>0, <1>11, <2>1, KnownStep DEF Crashes, Typed
<1>12. ASSUME NEW w \in Workers, Stops(w) PROVE Known' /\ CallStep /\ WorkerStep
  <2>1. Turned(w, "ended") /\ IsLive(w)
    BY <1>0, <1>12, Turning DEF Stops, IsLive, Live
  <2>2. WorkerStep
    BY <1>0, <1>12, <2>1 DEF Stops, Forgets, WorkerStep, Known, WorkersKnown
  <2> QED BY <1>0, <1>12, <2>2, KnownStep DEF Stops, Typed
<1>13. ASSUME NEW w \in Workers, TaskFails(w) PROVE Known' /\ CallStep /\ WorkerStep
  <2>1. WorkerStep
    BY <1>0, <1>13, Turning DEF TaskFails, Forgets, WorkerStep, IsLive, Live
  <2>2. CallStep
    <3>1. worker[w].gen \in Nat
      BY <1>0 DEF Typed, WorkerRecords
    <3>2. CASE Restartable(w)
      <4>1. Placed(RestartOf(w), "restart", "sleeping", worker[w].gen)
        BY <1>0, <1>13, <3>1, <3>2, Placing DEF TaskFails, Waits
      <4> QED BY <1>13, <4>1 DEF TaskFails, Placed, CallMove
    <3> QED BY <1>13, <3>2 DEF TaskFails
  <2> QED BY <1>0, <1>13, <2>1, <2>2, KnownStep DEF TaskFails, Typed
<1>14. ASSUME NEW w \in Workers, RestartAfterCrash(w) PROVE Known' /\ CallStep /\ WorkerStep
  <2> DEFINE c == RestartOf(w)
  <2>1. CASE /\ Ends(c) /\ settings' \in {settings, saved}
             /\ UNCHANGED <<saved, worker, current, generation>>
    <3>1. WorkerStep BY <2>1 DEF WorkerStep
    <3> QED BY <1>0, <1>14, <2>1, <3>1, EndsKnown, KnownStep DEF RestartAfterCrash, Typed
  <2>2. CASE Starts(c, "restart", saved)
    <3>1. StartedKnown(c, "restart", saved) \/ OpenedFor(c, "restart")
      BY <1>0, <2>2, StartsKnown, OpensKnown DEF Starts, Typed
    <3> QED
      BY <1>0, <1>14, <3>1, KnownStep DEF RestartAfterCrash, StartedKnown, OpenedFor, Typed
  <2> QED BY <1>14, <2>1, <2>2 DEF RestartAfterCrash, Loaded
<1>15. CASE UNCHANGED supVars
  <2>1. WorkerStep BY <1>15 DEF supVars, WorkerStep
  <2> QED BY <1>0, <1>15, <2>1, KnownStep DEF supVars, Typed
<1> QED
  BY <1>1, <1>2, <1>3, <1>4, <1>5, <1>6, <1>7, <1>8, <1>9, <1>10, <1>11, <1>12, <1>13,
     <1>14, <1>15 DEF SupervisorNext, Request, Continues, Serves

-----------------------------------------------------------------------------
(* The rest of the invariant.                                              *)
LEMMA UncrashedNext ==
  ASSUME WorkersInv, [SupervisorNext]_supVars
  PROVE  Uncrashed'
<1>1. Known /\ CallStep /\ WorkerStep /\ facts' = facts
  BY KnownNext DEF WorkersInv, SupervisorNext, Request, Boot, StartSource, RequestPass,
     Disable, Reload, Continues, Opened, CatalogueRead, WorkerStopped, TaskJoined, Serves,
     Begins, Stops, TaskFails, RestartAfterCrash, Crashes, supVars
<1> SUFFICES ASSUME facts.source = "ehentai"
             PROVE  /\ \A w \in Workers : worker'[w].state # "crashing"
                    /\ \A c \in Calls : call'[c].at # "sleeping"
  BY <1>1 DEF Uncrashed
<1>2. /\ \A w \in Workers : worker[w].state # "crashing"
      /\ \A c \in Calls : call[c].at # "sleeping"
      /\ ~facts.crashes
  BY DEF WorkersInv, Uncrashed, Known, Sound
<1>3. \A c \in Calls : call'[c].at # "sleeping"
  BY <1>1, <1>2 DEF CallStep, CallMove
<1>4. \A w \in Workers : worker'[w].state # "crashing"
  BY <1>1, <1>2 DEF WorkerStep, Launched, Told, Cancelled, Turned, Others, Known, Typed
<1> QED BY <1>3, <1>4

(* The start of the program comes before all other requests.               *)
LEMMA UnstartedNext ==
  ASSUME WorkersInv, [SupervisorNext]_supVars
  PROVE  Unstarted'
<1> SUFFICES ASSUME 1 \in Requests, call'[1].at = "idle"
             PROVE  ~wanted' /\ Created' = {} /\ \A c \in Calls : call'[c].at = "idle"
  BY DEF Unstarted
<1>1. call[1].at = "idle" /\ call[1] = NoCall
  BY KnownNext, Numbers DEF CallStep, CallMove, WorkersInv, Known, CallKnown
<1>2. ~wanted /\ Created = {} /\ \A c \in Calls : call[c].at = "idle"
  BY <1>1 DEF WorkersInv, Unstarted
<1>3. ~(\E w \in Workers : Serves(w) \/ Crashes(w))
  BY <1>2, Numbers DEF Serves, Begins, Stops, TaskFails, RestartAfterCrash, Crashes, Created
<1>4. ~(\E c \in Calls : Continues(c))
  BY <1>2 DEF Continues, Opened, CatalogueRead, WorkerStopped, TaskJoined
<1>5. ASSUME NEW r \in Requests PROVE ~Request(r)
  <2>1. r > 1 => ~Turn(r)
    BY <1>1 DEF Turn
  <2>2. ~Boot(1)
    <3>1. Opens(1, "boot") => call'[1].at = "init"
      BY OpensKnown, Numbers DEF OpenedFor, Placed, Kinds, WorkersInv
    <3> QED BY <3>1 DEF Boot
  <2> QED
    BY <2>1, <2>2 DEF Request, Boot, StartSource, RequestPass, Disable, Reload
<1>6. UNCHANGED supVars
  BY <1>3, <1>4, <1>5 DEF SupervisorNext
<1> QED BY <1>2, <1>6 DEF supVars, Created

(* How the parts of Order survive a step that launches no worker.          *)
NoNew ==
  \A w \in Created' : w \in Created /\ worker'[w].gen = worker[w].gen

Unmoved == \A r \in Requests : call'[r] = call[r]

(* The steps of the workers.                                               *)
LEMMA WorkerOrder ==
  ASSUME Known, Order, NoNew, Unmoved,
         UNCHANGED <<initialized, saved, settings, generation, wanted>>,
         current' = 0 \/ (current' = current /\ worker'[current].gen = worker[current].gen
                          /\ worker'[current].edition = worker[current].edition),
         \A w \in Workers : RestartWaits(w)'
  PROVE  Order'
<1>1. OneRequest'
  BY DEF Order, OneRequest, Unmoved, Busy
<1>2. CurrentInForce'
  BY DEF Order, CurrentInForce, InForce
<1>3. DiskKept'
  BY DEF Order, DiskKept, Unmoved, TakingOut, OnDisk
<1>4. Generations'
  BY DEF Order, Generations, NoNew
<1>5. ASSUME NEW r \in Requests PROVE RequestAt(r)'
  <2>1. RequestAt(r) /\ call'[r] = call[r]
    BY DEF Order, Unmoved
  <2> QED
    BY <2>1 DEF RequestAt, NoNew, TakingOut, OnDisk
<1> QED BY <1>1, <1>2, <1>3, <1>4, <1>5 DEF Order

(* A start by c, a request that is the only busy one or a restart.         *)
LEMMA StartOrder ==
  ASSUME Known, Order, NEW c \in Calls, NEW k, Started(c, k, settings),
         \A r \in Requests : (Busy(r) => r = c) /\ ~TakingOut(r),
         c \in Requests \/ facts.source = "wnacg",
         saved = settings, initialized' = TRUE, wanted' = TRUE
  PROVE  Order'
<1>1. \A r \in Requests \ {c} : call'[r] = call[r] /\ call[r].at \in {"idle", "done"}
  BY Numbers DEF Started, Went, Placed, Known, Typed, CallRecords, Busy, Order, RequestAt
<1>2. \/ call'[c].at = "done"
      \/ /\ call'[c].at = "catalogue" /\ call'[c].kept = settings'.edition
         /\ c \in Requests /\ current' = 0
  BY DEF Started, Went, Placed
<1>3. saved' = settings' /\ saved'.enabled = TRUE
  BY DEF Started, SwitchedOn, Order, CurrentInForce, Known, Typed, Settings
<1>4. OneRequest'
  BY <1>1 DEF OneRequest, Busy, Waits
<1>5. DiskKept'
  BY <1>3 DEF DiskKept, OnDisk
<1>6. CurrentInForce' /\ Generations'
  <2>1. CASE UNCHANGED <<worker, current, generation, saved>>
    BY <2>1 DEF Order, CurrentInForce, InForce, Generations, Created
  <2>2. CASE UNCHANGED <<worker, current, generation>> /\ current = 0
    BY <2>2 DEF Order, CurrentInForce, Generations, Created
  <2>3. ASSUME NEW w \in Workers, Launched(w, settings'.edition)
        PROVE  CurrentInForce' /\ Generations'
    BY <1>3, <2>3, Numbers DEF Launched, Others, Order, CurrentInForce, InForce, Generations,
       Created, Known, Typed, WorkerRecords
  <2> QED BY <2>1, <2>2, <2>3 DEF Started
<1>7. ASSUME NEW r \in Requests PROVE RequestAt(r)'
  BY <1>1, <1>2, <1>3 DEF RequestAt, OnDisk, TakingOut
<1>8. ASSUME NEW w \in Workers PROVE RestartWaits(w)'
  <2>1. CASE RestartOf(w) = c
    BY <1>2, <2>1, Numbers DEF RestartWaits
  <2>2. CASE RestartOf(w) # c
    <3>1. call'[RestartOf(w)] = call[RestartOf(w)]
      BY <2>2, Numbers DEF Started, Went, Placed
    <3>2. w \in Created => w \in Created' /\ worker'[w].gen = worker[w].gen
      BY DEF Started, Launched, Others, Created
    <3> QED BY <3>1, <3>2 DEF Order, RestartWaits
  <2> QED BY <2>1, <2>2
<1> QED BY <1>4, <1>5, <1>6, <1>7, <1>8 DEF Order

(* The database is opened: for a request that came, or again in a reload.  *)
LEMMA OpenOrder ==
  ASSUME Known, Order, NEW r \in Requests, NEW k \in {"boot", "start", "pass", "reload"},
         Placed(r, k, "init", 0), \A q \in Requests : Busy(q) => q = r,
         initialized' = FALSE, settings' = saved', UNCHANGED worker,
         (current' = current /\ generation' = generation) \/ current' = 0,
         \A w \in Created : worker[w].gen <= generation' /\ worker[w].gen # generation',
         k = "boot" => ~wanted', k = "reload" => saved'.enabled = wanted'
  PROVE  Order'
<1>1. \A q \in Requests \ {r} : call'[q] = call[q] /\ call[q].at \in {"idle", "done"}
  BY Numbers DEF Placed, Known, Typed, CallRecords, Busy, Order, RequestAt
<1>2. OneRequest'
  BY <1>1 DEF OneRequest, Busy, Waits
<1>3. DiskKept' /\ Generations'
  BY DEF DiskKept, Generations, Created
<1>4. CurrentInForce'
  <2>1. current' = 0
    BY DEF Order, CurrentInForce, InForce, Known, Typed, WorkersKnown, IsLive, Live, Created
  <2> QED BY <2>1 DEF CurrentInForce
<1>5. ASSUME NEW q \in Requests PROVE RequestAt(q)'
  BY <1>1 DEF Placed, RequestAt, TakingOut
<1>6. ASSUME NEW w \in Workers PROVE RestartWaits(w)'
  BY Numbers DEF Placed, Order, RestartWaits, Created
<1> QED BY <1>2, <1>3, <1>4, <1>5, <1>6 DEF Order

(* The source is switched off or reloaded, and the worker is taken out.    *)
LEMMA StopOrder ==
  ASSUME Known, Order, NEW r \in Requests, NEW k \in {"disable", "reload"}, NEW at,
         \/ at = "closing" /\ current # 0 /\ Told(current) /\ Placed(r, k, at, current)
         \/ at = "done" /\ k = "disable" /\ UNCHANGED worker /\ Went(r, at),
         \A q \in Requests : ~Busy(q),
         current' = 0, generation' = generation + 1, initialized' = initialized,
         saved'.enabled = wanted', k = "disable" => settings' = saved'
  PROVE  Order'
<1>1. \A q \in Requests \ {r} : call'[q] = call[q] /\ call[q].at \in {"idle", "done"}
  BY Numbers DEF Placed, Went, Known, Typed, CallRecords, Busy, Order, RequestAt
<1>2. call'[r].at = at /\ (at = "closing" => call'[r].kind = k)
  BY DEF Placed, Went
<1>3. OneRequest' /\ CurrentInForce'
  BY <1>1 DEF OneRequest, CurrentInForce, Busy, Waits
<1>4. DiskKept'
  BY <1>1, <1>2 DEF DiskKept, OnDisk, TakingOut
<1>5. \A w \in Created' : w \in Created /\ worker'[w].gen = worker[w].gen
  BY DEF Told, Others, Created, Known, Typed
<1>6. \A w \in Created' : worker'[w].gen <= generation' /\ worker'[w].gen # generation'
  BY <1>5 DEF Order, Generations, Known, Typed, WorkerRecords, Created
<1>7. Generations'
  BY <1>6 DEF Generations
<1>8. ASSUME NEW q \in Requests PROVE RequestAt(q)'
  BY <1>1, <1>2, <1>6 DEF RequestAt, TakingOut
<1>9. ASSUME NEW w \in Workers PROVE RestartWaits(w)'
  <2>1. call'[RestartOf(w)] = call[RestartOf(w)]
    BY Numbers DEF Placed, Went
  <2>2. w \in Created => w \in Created' /\ worker'[w].gen = worker[w].gen
    BY DEF Told, Others, Created, Known, Typed
  <2> QED BY <2>1, <2>2 DEF Order, RestartWaits
<1> QED BY <1>3, <1>4, <1>7, <1>8, <1>9 DEF Order

(* The worker that was taken out has ended, or is cancelled.               *)
LEMMA JoinOrder ==
  ASSUME Known, Order, NEW c \in Requests, TakingOut(c), Went(c, "joining"),
         NEW w \in Workers, Cancelled(w),
         UNCHANGED <<initialized, saved, settings, current, generation, wanted>>
  PROVE  Order'
<1>1. \A q \in Requests \ {c} : call'[q] = call[q] /\ call[q].at \in {"idle", "done"}
  BY Numbers DEF Went, Known, Typed, CallRecords, Busy, Order, OneRequest, RequestAt,
     TakingOut, Waits
<1>2. /\ \A v \in Workers : worker'[v].gen = worker[v].gen /\ worker'[v].edition = worker[v].edition
      /\ Created' = Created
  BY DEF Cancelled, Others, Created
<1>3. OneRequest'
  BY <1>1 DEF OneRequest, Busy, Waits
<1>4. CurrentInForce' /\ Generations'
  BY <1>2 DEF Order, CurrentInForce, InForce, Generations, Known, Typed, Created
<1>5. DiskKept'
  BY <1>1 DEF Order, DiskKept, OnDisk, TakingOut, Went
<1>6. ASSUME NEW q \in Requests PROVE RequestAt(q)'
  BY <1>1, <1>2 DEF Went, Order, RequestAt, TakingOut, Created
<1>7. ASSUME NEW v \in Workers PROVE RestartWaits(v)'
  BY <1>2, Numbers DEF Went, Order, RestartWaits
<1> QED BY <1>3, <1>4, <1>5, <1>6, <1>7 DEF Order

(* The worker is gone: a stop ends, a reload opens the database again.     *)
LEMMA FinishOrder ==
  ASSUME Known, Order, NEW c \in Calls, TakingOut(c), Finishes(c),
         UNCHANGED <<current, generation, worker, wanted>>
  PROVE  Order'
<1>1. c \in Requests
  BY Numbers DEF Order, RestartWaits, TakingOut
<1>2. RequestAt(c) BY <1>1 DEF Order
<1>3. \A q \in Requests : Busy(q) => q = c
  BY <1>1 DEF Order, OneRequest, Busy, TakingOut, Waits
<1>4. CASE call[c].kind = "reload" /\ Reopens(c) /\ UNCHANGED saved
  <2>1. \A w \in Created : worker[w].gen <= generation' /\ worker[w].gen # generation'
    BY <1>2 DEF Order, Generations, RequestAt
  <2>2. saved'.enabled = wanted'
    BY <1>2, <1>4 DEF RequestAt
  <2> QED
    BY <1>1, <1>3, <1>4, <2>1, <2>2, ReopensKnown, OpenOrder
<1>5. CASE call[c].kind = "disable" /\ Ends(c) /\ UNCHANGED <<saved, settings, initialized>>
  <2>1. Went(c, "done")
    BY <1>5, EndsKnown
  <2>2. \A q \in Requests \ {c} : call'[q] = call[q] /\ call[q].at \in {"idle", "done"}
    BY <1>1, <1>3, <2>1, Numbers DEF Went, Known, Typed, CallRecords, Busy, Order, RequestAt
  <2>3. OneRequest'
    BY <2>1, <2>2 DEF OneRequest, Busy, Waits, Went
  <2>4. CurrentInForce' /\ Generations'
    BY <1>5 DEF Order, CurrentInForce, InForce, Generations, Created
  <2>5. DiskKept'
    <3>1. initialized => OnDisk
      BY <1>5, <2>2 DEF Order, DiskKept, TakingOut
    <3> QED BY <1>5, <3>1 DEF DiskKept, OnDisk
  <2>6. ASSUME NEW q \in Requests PROVE RequestAt(q)'
    BY <2>1, <2>2 DEF Went, RequestAt, TakingOut
  <2>7. ASSUME NEW v \in Workers PROVE RestartWaits(v)'
    BY <1>1, <2>1, Numbers DEF Went, Order, RestartWaits, Created
  <2> QED BY <2>3, <2>4, <2>5, <2>6, <2>7 DEF Order
<1> QED BY <1>4, <1>5 DEF Finishes

(* A restart that came too late, or is not needed, ends.                   *)
LEMMA LateRestart ==
  ASSUME Known, Order, NEW w \in Workers, Went(RestartOf(w), "done"),
         UNCHANGED <<initialized, saved, settings, current, generation, worker, wanted>>
  PROVE  Order'
<1>1. Unmoved
  BY Numbers DEF Unmoved, Went
<1>2. ASSUME NEW v \in Workers PROVE RestartWaits(v)'
  BY Numbers DEF Went, Order, RestartWaits, Created
<1> QED BY <1>1, <1>2, WorkerOrder DEF NoNew, Created

(* The database is open, and the source is off.                            *)
LEMMA OffOrder ==
  ASSUME Known, Order, NEW c \in Requests, call[c].at = "init", Went(c, "done"),
         call[c].kind \in {"boot", "reload"}, ~settings.enabled, initialized' = TRUE,
         UNCHANGED <<saved, settings, worker, current, generation, wanted>>
  PROVE  Order'
<1>1. \A q \in Requests \ {c} : call'[q] = call[q] /\ call[q].at \in {"idle", "done"}
  BY Numbers DEF Went, Known, Typed, CallRecords, Busy, Order, OneRequest, RequestAt, Waits
<1>2. ~initialized /\ OnDisk
  <2>1. RequestAt(c) BY DEF Order
  <2>2. wanted \in BOOLEAN /\ saved.enabled \in BOOLEAN BY DEF Known, Typed, Settings
  <2> QED BY <2>1, <2>2 DEF RequestAt, OnDisk
<1>3. OneRequest'
  BY <1>1 DEF OneRequest, Busy, Waits, Went
<1>4. CurrentInForce' /\ DiskKept' /\ Generations'
  BY <1>2 DEF Order, CurrentInForce, InForce, DiskKept, OnDisk, Generations, Created
<1>5. ASSUME NEW q \in Requests PROVE RequestAt(q)'
  BY <1>1 DEF Went, RequestAt, TakingOut
<1>6. ASSUME NEW w \in Workers PROVE RestartWaits(w)'
  BY Numbers DEF Went, Order, RestartWaits, Created
<1> QED BY <1>3, <1>4, <1>5, <1>6 DEF Order

(* Calls and requests, one action after the other.                         *)
LEMMA OrderlyNext ==
  ASSUME WorkersInv, [SupervisorNext]_supVars
  PROVE  Orderly'
<1>0. Known /\ Typed /\ facts' = facts
  BY DEF WorkersInv, Known, SupervisorNext, Request, Boot, StartSource, RequestPass,
     Disable, Reload, Continues, Opened, CatalogueRead, WorkerStopped, TaskJoined, Serves,
     Begins, Stops, TaskFails, RestartAfterCrash, Crashes, supVars
<1> SUFFICES ASSUME ~facts.overlap, Order PROVE Order'
  BY <1>0 DEF Orderly, WorkersInv
<1>a. \A r \in Requests : Turn(r) => \A q \in Requests : ~Busy(q) /\ ~TakingOut(q)
  BY DEF Turn, Busy, Waits, TakingOut
<1>b. ~initialized => \A w \in Created : worker[w].gen <= generation /\ worker[w].gen # generation
  BY DEF Order, Generations
<1>c. \A c \in Calls : TakingOut(c) \/ call[c].at \in {"init", "catalogue"} => c \in Requests
  BY Numbers DEF Order, RestartWaits, TakingOut
<1>d. ASSUME NEW r \in Requests, NEW k \in {"start", "pass"}, Starts(r, k, settings), Turn(r),
             initialized' = initialized, wanted' = (wanted \/ initialized)
      PROVE  Order'
  <2>1. k \in Kinds \cup {"restart", "none"} /\ r \in Calls BY Numbers DEF Kinds
  <2>2. CASE Opens(r, k)
    <3>1. OpenedFor(r, k) BY <1>0, <2>1, <2>2, OpensKnown
    <3> QED BY <1>0, <1>a, <1>b, <1>d, <3>1, OpenOrder DEF OpenedFor, Created, Typed
  <2>3. CASE initialized /\ StartWith(r, k, settings)
    <3>1. Started(r, k, settings)
      BY <1>0, <2>1, <2>3, StartsKnown DEF StartedKnown, Typed
    <3>2. saved = settings
      BY <1>a, <1>d, <2>3 DEF Order, DiskKept, OnDisk
    <3> QED BY <1>0, <1>a, <1>d, <2>1, <2>3, <3>1, <3>2, StartOrder
  <2> QED BY <1>d, <2>2, <2>3 DEF Starts
<1>1. ASSUME NEW r \in Requests, Boot(r) PROVE Order'
  <2>1. OpenedFor(r, "boot") BY <1>0, <1>1, OpensKnown, Numbers DEF Boot, Kinds
  <2>2. ~wanted' BY <1>1 DEF Boot, Turn, WorkersInv, Unstarted, NoCall
  <2> QED
    BY <1>0, <1>1, <1>a, <1>b, <2>1, <2>2, OpenOrder DEF Boot, OpenedFor, Created, Typed
<1>2. ASSUME NEW r \in Requests, StartSource(r) PROVE Order'
  BY <1>2, <1>d DEF StartSource
<1>3. ASSUME NEW r \in Requests, RequestPass(r) PROVE Order'
  BY <1>3, <1>d DEF RequestPass
<1>4. ASSUME NEW r \in Requests, Disable(r) PROVE Order'
  <2>1. saved'.enabled = wanted' /\ settings' = saved'
    <3>1. saved \in Settings BY <1>0 DEF Typed
    <3> QED BY <1>4, <3>1 DEF Disable, Settings
  <2>2. CASE TakesOut(r, "disable")
    <3>1. current # 0 /\ Told(current) /\ Placed(r, "disable", "closing", current)
      BY <1>0, <1>4, <2>2, TakingKnown DEF Disable, Kinds
    <3> QED BY <1>0, <1>4, <1>a, <2>1, <3>1, StopOrder DEF Disable, Unplugs
  <2>3. CASE FindsNone /\ Ends(r)
    <3>1. UNCHANGED worker /\ Went(r, "done")
      BY <1>0, <2>3, EndsKnown, Numbers DEF FindsNone
    <3> QED BY <1>0, <1>4, <1>a, <2>1, <3>1, StopOrder DEF Disable, Unplugs
  <2> QED BY <1>4, <2>2, <2>3 DEF Disable
<1>5. ASSUME NEW r \in Requests, Reload(r) PROVE Order'
  <2>1. saved'.enabled = wanted' /\ current' = 0 /\ generation' = generation + 1 /\ Turn(r)
    BY <1>5 DEF Reload, Unplugs
  <2>2. CASE TakesOut(r, "reload") /\ UNCHANGED <<settings, initialized>>
    <3>1. current # 0 /\ Told(current) /\ Placed(r, "reload", "closing", current)
      BY <1>0, <1>5, <2>2, TakingKnown DEF Reload, Kinds
    <3> QED BY <1>0, <1>a, <2>1, <2>2, <3>1, StopOrder
  <2>3. CASE FindsNone /\ Reopens(r)
    <3>1. /\ Placed(r, "reload", "init", 0) /\ settings' = saved' /\ initialized' = FALSE
          /\ UNCHANGED worker
      BY <1>0, <2>3, ReopensKnown, Numbers DEF FindsNone
    <3>2. \A w \in Created : worker[w].gen <= generation' /\ worker[w].gen # generation'
      BY <1>0, <2>1 DEF Order, Generations, Typed, WorkerRecords, Created
    <3> QED BY <1>0, <1>a, <2>1, <3>1, <3>2, OpenOrder
  <2> QED BY <1>5, <2>2, <2>3 DEF Reload
<1>6. ASSUME NEW c \in Calls, Opened(c) PROVE Order'
  <2>1. c \in Requests /\ RequestAt(c) /\ call[c].at = "init"
    BY <1>6, <1>c DEF Opened, Order
  <2>2. CASE /\ call[c].kind \in {"boot", "reload"} /\ ~settings.enabled /\ Ends(c)
             /\ UNCHANGED <<saved, settings, worker, current, generation, wanted>>
    <3>1. Went(c, "done") BY <1>0, <2>2, EndsKnown
    <3> QED BY <1>0, <1>6, <2>1, <2>2, <3>1, OffOrder DEF Opened
  <2>3. CASE /\ call[c].kind \in {"boot", "reload"} => settings.enabled
             /\ StartWith(c, call[c].kind, settings)
             /\ wanted' = (wanted \/ call[c].kind \in {"boot", "start", "pass"})
    <3>1. Started(c, call[c].kind, settings)
      BY <1>0, <2>3, StartsKnown DEF StartedKnown, Typed, CallRecords
    <3>2. saved = settings /\ wanted' = TRUE
      BY <1>0, <2>1, <2>3 DEF RequestAt, Typed, Settings
    <3>3. \A q \in Requests : (Busy(q) => q = c) /\ ~TakingOut(q)
      BY <2>1 DEF Order, OneRequest, Busy, Waits, TakingOut
    <3> QED BY <1>0, <1>6, <2>1, <3>1, <3>2, <3>3, StartOrder DEF Opened
  <2> QED BY <1>6, <2>2, <2>3 DEF Opened
<1>7. ASSUME NEW c \in Calls, CatalogueRead(c) PROVE Order'
  <2>1. c \in Requests /\ RequestAt(c) /\ call[c].at = "catalogue"
    BY <1>7, <1>c DEF CatalogueRead, Order
  <2>2. /\ current = 0 /\ initialized' = TRUE /\ wanted' = TRUE /\ saved = settings
        /\ call[c].kept = settings'.edition /\ SwitchedOn(settings)
    BY <1>0, <1>7, <2>1 DEF CatalogueRead, RequestAt, OnDisk, SwitchedOn, Typed, Settings
  <2>3. Started(c, "start", settings)
    BY <1>7, <2>2, CatalogueKnown DEF Started
  <2>4. \A q \in Requests : (Busy(q) => q = c) /\ ~TakingOut(q)
    BY <2>1 DEF Order, OneRequest, Busy, Waits, TakingOut
  <2> QED BY <1>0, <2>1, <2>2, <2>3, <2>4, StartOrder
<1>8. ASSUME NEW c \in Calls, WorkerStopped(c) PROVE Order'
  <2>1. TakingOut(c) /\ c \in Requests BY <1>8, <1>c DEF WorkerStopped, TakingOut
  <2>2. CASE /\ worker' = [worker EXCEPT ![call[c].kept].cancelled = TRUE]
             /\ Goto(c, "joining") /\ UNCHANGED <<initialized, saved, settings, stopping>>
    <3>1. call[c].kept \in Workers BY <1>0, <1>8 DEF WorkerStopped, Known, CallKnown, Created
    <3>2. Cancelled(call[c].kept) /\ Went(c, "joining")
      BY <1>0, <2>2, <3>1, Cancelling, Going DEF Waits
    <3> QED BY <1>0, <1>8, <2>1, <2>2, <3>1, <3>2, JoinOrder DEF WorkerStopped
  <2>3. CASE Finishes(c) /\ UNCHANGED worker
    BY <1>0, <1>8, <2>1, <2>3, FinishOrder DEF WorkerStopped
  <2> QED BY <1>8, <2>2, <2>3 DEF WorkerStopped
<1>9. ASSUME NEW c \in Calls, TaskJoined(c) PROVE Order'
  BY <1>0, <1>9, FinishOrder DEF TaskJoined, TakingOut
<1>e. ASSUME NEW w \in Workers, NEW at \in {"running", "crashing", "ended"}, Turned(w, at),
             w \in Created
      PROVE  /\ NoNew /\ Created' = Created
             /\ \A v \in Workers : /\ worker'[v].gen = worker[v].gen
                                  /\ worker'[v].edition = worker[v].edition
  <2>1. \A v \in Workers : /\ worker'[v].gen = worker[v].gen
                          /\ worker'[v].edition = worker[v].edition
    BY <1>e DEF Turned, Others
  <2>2. Created' = Created
    BY <1>e DEF Turned, Others, Created
  <2> QED BY <2>1, <2>2 DEF NoNew, Created
<1>f. ASSUME NEW w \in Workers, NEW at \in {"running", "crashing", "ended"}, Turned(w, at),
             w \in Created, current' \in {0, current},
             UNCHANGED <<initialized, saved, settings, generation, call, wanted>>
      PROVE  Order'
  <2>1. Unmoved BY <1>f DEF Unmoved
  <2>2. \A v \in Workers : RestartWaits(v)'
    BY <1>e, <1>f DEF Order, RestartWaits
  <2>3. \/ current' = 0
        \/ /\ current' = current /\ worker'[current].gen = worker[current].gen
           /\ worker'[current].edition = worker[current].edition
    BY <1>0, <1>e, <1>f DEF Typed
  <2> QED BY <1>0, <1>e, <1>f, <2>1, <2>2, <2>3, WorkerOrder
<1>10. ASSUME NEW w \in Workers, Begins(w) PROVE Order'
  <2>1. Turned(w, "running") BY <1>0, <1>10, Turning DEF Begins, Live
  <2> QED BY <1>10, <1>f, <2>1 DEF Begins, Created
<1>11. ASSUME NEW w \in Workers, Crashes(w) PROVE Order'
  <2>1. Turned(w, "crashing") BY <1>0, <1>11, Turning DEF Crashes, Live
  <2> QED BY <1>11, <1>f, <2>1 DEF Crashes, Created
<1>12. ASSUME NEW w \in Workers, Stops(w) PROVE Order'
  <2>1. Turned(w, "ended") BY <1>0, <1>12, Turning DEF Stops
  <2>2. w \in Created /\ current' \in {0, current} BY <1>12 DEF Stops, Forgets, Created
  <2> QED BY <1>12, <1>f, <2>1, <2>2 DEF Stops
<1>13. ASSUME NEW w \in Workers, TaskFails(w) PROVE Order'
  <2>1. Turned(w, "ended") BY <1>0, <1>13, Turning DEF TaskFails
  <2>2. w \in Created /\ current' \in {0, current} BY <1>13 DEF TaskFails, Forgets, Created
  <2>3. CASE UNCHANGED call
    BY <1>13, <1>f, <2>1, <2>2, <2>3 DEF TaskFails
  <2>4. CASE Restartable(w)
    <3>1. worker[w].gen \in Nat BY <1>0 DEF Typed, WorkerRecords
    <3>2. Placed(RestartOf(w), "restart", "sleeping", worker[w].gen)
      BY <1>0, <1>13, <2>4, <3>1, Numbers, Placing DEF TaskFails, Waits
    <3>3. Unmoved BY <3>2, Numbers DEF Placed, Unmoved
    <3>4. ASSUME NEW v \in Workers PROVE RestartWaits(v)'
      <4>1. CASE v = w
        BY <1>e, <2>1, <2>2, <3>2, <4>1 DEF Placed, RestartWaits
      <4>2. CASE v # w
        <5>1. call'[RestartOf(v)] = call[RestartOf(v)]
          BY <3>2, <4>2, Numbers DEF Placed
        <5> QED BY <1>e, <2>1, <2>2, <5>1 DEF Order, RestartWaits
      <4> QED BY <4>1, <4>2
    <3>5. \/ current' = 0
          \/ /\ current' = current /\ worker'[current].gen = worker[current].gen
             /\ worker'[current].edition = worker[current].edition
      BY <1>0, <1>e, <2>1, <2>2 DEF Typed
    <3> QED BY <1>0, <1>13, <1>e, <2>1, <2>2, <3>3, <3>4, <3>5, WorkerOrder DEF TaskFails
  <2> QED BY <1>13, <2>3, <2>4 DEF TaskFails
<1>14. ASSUME NEW w \in Workers, RestartAfterCrash(w) PROVE Order'
  <2> DEFINE c == RestartOf(w)
  <2>1. c \in Calls /\ call[c].at = "sleeping" BY <1>14, Numbers DEF RestartAfterCrash
  <2>2. CASE Ends(c) /\ UNCHANGED <<saved, settings, worker, current, generation>>
    <3>1. Went(c, "done") BY <1>0, <2>1, <2>2, EndsKnown
    <3> QED BY <1>0, <1>14, <2>2, <3>1, LateRestart DEF RestartAfterCrash
  <2>3. CASE call[c].kept = generation
    <3>1. w \in Created /\ worker[w].gen = generation
      BY <2>1, <2>3 DEF Order, RestartWaits
    <3>2. initialized /\ wanted BY <3>1 DEF Order, Generations
    <3>3. facts.source = "wnacg"
      BY <1>0, <2>1, SupervisorAssumption DEF WorkersInv, Uncrashed, Typed
    <3>4. ASSUME NEW q \in Requests PROVE ~Busy(q) /\ ~TakingOut(q)
      BY <1>0, <3>1, <3>2, <3>3, Numbers
         DEF Order, RequestAt, Busy, Waits, TakingOut, Known, CallKnown
    <3>5. OnDisk BY <3>2, <3>4 DEF Order, DiskKept
    <3>6. CASE Ends(c) /\ Loaded /\ UNCHANGED <<saved, worker, current, generation>>
      BY <2>2, <3>5, <3>6 DEF Loaded, OnDisk
    <3>7. CASE Starts(c, "restart", saved)
      <4>1. StartWith(c, "restart", settings)
        BY <3>2, <3>5, <3>7 DEF Starts, Opens, OnDisk
      <4>2. Started(c, "restart", settings)
        BY <1>0, <2>1, <4>1, StartsKnown DEF StartedKnown, Typed
      <4> QED
        BY <1>0, <1>14, <2>1, <3>2, <3>3, <3>4, <3>5, <4>2, StartOrder
           DEF RestartAfterCrash, OnDisk
    <3> QED BY <1>14, <2>2, <2>3, <3>6, <3>7 DEF RestartAfterCrash
  <2> QED BY <1>14, <2>2, <2>3 DEF RestartAfterCrash
<1>15. CASE UNCHANGED supVars
  BY <1>15 DEF supVars, Order, OneRequest, CurrentInForce, DiskKept, Generations, RestartWaits,
     RequestAt, InForce, OnDisk, TakingOut, Busy, Created
<1> QED
  BY <1>1, <1>2, <1>3, <1>4, <1>5, <1>6, <1>7, <1>8, <1>9, <1>10, <1>11, <1>12, <1>13,
     <1>14, <1>15 DEF SupervisorNext, Request, Continues, Serves

-----------------------------------------------------------------------------
(* Where the start cannot be overtaken (Sound), one worker at most goes on *)
(* without having been told to stop, none while the source is off, and the *)
(* one that goes on has the settings that were saved (start_wnacg,         *)
(* stop_wnacg and reload, with _wnacg_generation).                         *)
THEOREM SwitchObeyed ==
  ASSUME \A f \in Circumstances : Sound(f)
  PROVE  SupervisorSpec => []SwitchIsObeyed
<1>1. SupervisorInit => WorkersInv
  BY Beginning
<1>2. WorkersInv /\ [SupervisorNext]_supVars => WorkersInv'
  BY KnownNext, UncrashedNext, UnstartedNext, OrderlyNext DEF WorkersInv
<1>3. WorkersInv => SwitchIsObeyed
  BY Consequence
<1> QED BY <1>1, <1>2, <1>3, PTL DEF SupervisorSpec
=============================================================================
