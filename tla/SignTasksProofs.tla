-------------------------- MODULE SignTasksProofs ---------------------------
(***************************************************************************)
(* Proofs about the sign tasks: SignTaskRun, the life of a run, then       *)
(* SignEngine, the script a run plays.                                     *)
(***************************************************************************)
EXTENDS SignTaskRun, SignEngine, TLAPS

-----------------------------------------------------------------------------
(***************************************************************************)
(* SignTaskRun, for any number of runs: type correctness; a sign task is   *)
(* executed by one run at a time, whoever starts and cancels it and even   *)
(* when the account is renamed; without renaming and late cancellation its *)
(* mark and its status follow that run. A status that says how a run ended *)
(* agrees with the history, always; and a run that was cancelled leaves no *)
(* history, and a run that ended a status, when no cancellation comes in   *)
(* certain phases.                                                         *)
(***************************************************************************)

(* Proofs about SignTaskRun, for any number of runs: type correctness; a   *)
(* sign task is executed by one run at a time, whoever starts and cancels  *)
(* it and even when the account is renamed; without renaming and late      *)
(* cancellation its mark and its status follow that run. A status that     *)
(* says how a run ended agrees with the history, always; and a run that    *)
(* was cancelled leaves no history, and a run that ended a status, when no *)
(* cancellation comes in certain phases.                                   *)
(***************************************************************************)

Phases == {"new", "ended"} \cup Suspended

(* The types of the entries of the service. *)
StatusType == [Keys -> [run : Runs \cup {NoRun}, state : States]]

Published ==
  /\ status' \in StatusType
  /\ background' \in [Keys -> Runs \cup {NoRun}]
  /\ timer' \in [Keys -> BOOLEAN]
  /\ pc' \in [Runs -> Phases]

LEMMA PublishType ==
  ASSUME TypeOK, NEW r \in Runs, NEW seen \in StatusType, NEW final \in States,
         Publish(r, seen, final)
  PROVE  Published
<1>1. pc' \in [Runs -> Phases]
  BY DEF Publish, TypeOK, Phases
<1>2. [seen EXCEPT ![key[r]].state = final] \in StatusType
  BY DEF TypeOK, StatusType
<1>3. status' \in StatusType
  BY <1>2, Zenon DEF Publish
<1>4. background' \in [Keys -> Runs \cup {NoRun}]
  BY DEF Publish, TypeOK
<1>5. timer' \in [Keys -> BOOLEAN]
  BY DEF Publish, TypeOK
<1> QED
  BY <1>1, <1>3, <1>4, <1>5 DEF Published

LEMMA CloseType ==
  ASSUME TypeOK, NEW r \in Runs, NEW seen \in StatusType, NEW final \in States,
         Close(r, seen, final)
  PROVE  Published /\ active' \in [Keys -> BOOLEAN]
BY PublishType DEF Close, TypeOK

LEMMA SuspendType ==
  ASSUME TypeOK, NEW r \in Runs, NEW seen \in StatusType,
         NEW phase \in Suspended, Suspend(r, phase, seen)
  PROVE  Published /\ active' \in [Keys -> BOOLEAN]
BY DEF Suspend, Published, TypeOK, Phases

LEMMA RecordType ==
  ASSUME TypeOK, NEW r \in Runs, NEW seen \in StatusType, NEW out \in Outcomes,
         NEW isCancelled, Record(r, seen, out, isCancelled)
  PROVE  /\ Published /\ active' \in [Keys -> BOOLEAN]
         /\ recorded' \in [Runs -> {"none"} \cup Outcomes]
<1>1. out \in States /\ "cancelled" \in States /\ "notifying" \in Suspended
  BY DEF States, Suspended
<1>2. recorded' \in [Runs -> {"none"} \cup Outcomes]
  BY DEF Record, TypeOK
<1>3. \/ Close(r, seen, "cancelled")
      \/ Close(r, seen, out)
      \/ Suspend(r, "notifying", seen)
  BY DEF Record
<1> QED
  BY <1>1, <1>2, <1>3, CloseType, SuspendType

LEMMA FinalizeType ==
  ASSUME TypeOK, NEW r \in Runs, NEW seen \in StatusType, NEW out \in Outcomes,
         NEW isCancelled \in BOOLEAN, Finalize(r, seen, out, isCancelled)
  PROVE  /\ Published /\ active' \in [Keys -> BOOLEAN]
         /\ recorded' \in [Runs -> {"none"} \cup Outcomes]
         /\ lockOf' \in [Keys -> Runs \cup {NoRun}]
         /\ success' \in [Runs -> BOOLEAN]
         /\ cancelled' \in [Runs -> BOOLEAN]
<1>1. lockOf' \in [Keys -> Runs \cup {NoRun}] /\ cancelled' \in [Runs -> BOOLEAN]
  BY DEF Finalize, TypeOK
<1>2. PICK verdict \in {out} \cup (IF out = "succeeded" THEN {"failed"} ELSE {}) :
        /\ success' = [success EXCEPT ![r] = verdict = "succeeded"]
        /\ \/ Record(r, seen, verdict, isCancelled)
           \/ Suspend(r, "fetching", seen) /\ UNCHANGED recorded
  BY DEF Finalize
<1>3. verdict \in Outcomes /\ "fetching" \in Suspended
  BY DEF Outcomes, Suspended
<1>4. success' \in [Runs -> BOOLEAN]
  <2>1. (verdict = "succeeded") \in BOOLEAN
    OBVIOUS
  <2> QED
    BY <1>2, <2>1, Zenon DEF TypeOK
<1>5. CASE Record(r, seen, verdict, isCancelled)
  BY <1>1, <1>3, <1>4, <1>5, RecordType
<1>6. CASE Suspend(r, "fetching", seen) /\ UNCHANGED recorded
  BY <1>1, <1>3, <1>4, <1>6, SuspendType DEF TypeOK
<1> QED
  BY <1>2, <1>5, <1>6

LEMMA PhaseType ==
  ASSUME TypeOK, NEW r \in Runs, NEW k \in Keys
  PROVE  Phase(r, k) \in StatusType /\ status \in StatusType
<1>1. Running(r) \in [run : Runs \cup {NoRun}, state : States]
  BY DEF Running, States
<1> QED
  BY <1>1 DEF Phase, StatusType, TypeOK

(* What a step of a run must leave well typed. *)
LEMMA TypeAfter ==
  ASSUME TypeOK, Published,
         active' \in [Keys -> BOOLEAN],
         recorded' \in [Runs -> {"none"} \cup Outcomes],
         lockOf' \in [Keys -> Runs \cup {NoRun}],
         success' \in [Runs -> BOOLEAN], cancelled' \in [Runs -> BOOLEAN],
         requested' \in [Runs -> BOOLEAN], logs' \in [Keys -> BOOLEAN],
         ready' \in Seq(Runs), key' = key, name' = name
  PROVE  TypeOK'
BY DEF Published, StatusType, TypeOK, Phases

LEMMA BeginType ==
  ASSUME TypeOK, NEW r \in Runs, Begin(r)
  PROVE  TypeOK'
<1>1. /\ key[r] \in Keys /\ "failed" \in States /\ "failed" \in Outcomes
      /\ "checking" \in Suspended /\ status \in StatusType
  BY PhaseType DEF TypeOK, States, Outcomes, Suspended
<1>2. /\ ready' \in Seq(Runs) /\ key' = key /\ name' = name
      /\ requested' \in [Runs -> BOOLEAN]
  BY DEF Begin, TypeOK
<1>3. CASE active[key[r]]
  <2>1. Publish(r, status, "failed")
        /\ UNCHANGED <<active, logs, lockOf, success, cancelled, recorded>>
    BY <1>3 DEF Begin
  <2> QED
    BY <1>1, <1>2, <2>1, PublishType, TypeAfter DEF TypeOK
<1>4. CASE Execute(r, key[r])
  <2>1. logs' \in [Keys -> BOOLEAN]
    BY <1>4 DEF Execute, TypeOK
  <2>2. CASE Finalize(r, status, "failed", FALSE)
    BY <1>1, <1>2, <2>1, <2>2, FinalizeType, TypeAfter
  <2>3. CASE /\ active' = [active EXCEPT ![key[r]] = TRUE]
             /\ pc' = [pc EXCEPT ![r] = "checking"]
             /\ status' = Phase(r, key[r])
             /\ UNCHANGED <<background, timer, lockOf, success, cancelled, recorded>>
    <3>1. Published
      BY <1>1, <2>3, PhaseType DEF Published, TypeOK, Phases
    <3> QED
      BY <1>2, <2>1, <2>3, <3>1, TypeAfter DEF TypeOK
  <2> QED
    BY <1>4, <2>2, <2>3 DEF Execute
<1> QED
  BY <1>3, <1>4 DEF Begin

LEMMA StepType ==
  ASSUME TypeOK, NEW r \in Runs,
         \/ Checked(r) \/ Acquire(r) \/ WorkSucceeds(r) \/ WorkFails(r)
         \/ Settled(r) \/ Fetched(r) \/ Notified(r)
  PROVE  TypeOK'
<1>1. /\ UNCHANGED <<name, ready, logs, key, requested>>
      /\ ready \in Seq(Runs) /\ logs \in [Keys -> BOOLEAN]
      /\ requested \in [Runs -> BOOLEAN] /\ key[r] \in Keys
  BY DEF Checked, Acquire, WorkSucceeds, WorkFails, Settled, Fetched, Notified,
         Proceeds, TypeOK
<1>2. /\ {"failed", "timeout", "succeeded"} \subseteq Outcomes
      /\ "succeeded" \in States
      /\ {"waiting", "running", "settling"} \subseteq Phases
      /\ status \in StatusType /\ Phase(r, key[r]) \in StatusType
  BY <1>1, PhaseType DEF Outcomes, States, Phases, Suspended
<1>3. ASSUME NEW to \in {"waiting", "running", "settling"},
             pc' = [pc EXCEPT ![r] = to],
             status' \in StatusType,
             UNCHANGED <<active, background, timer>>
      PROVE  Published /\ active' \in [Keys -> BOOLEAN]
  BY <1>2, <1>3 DEF Published, TypeOK, Phases
<1>4. ASSUME NEW seen \in StatusType, NEW out \in Outcomes,
             Finalize(r, seen, out, FALSE)
      PROVE  TypeOK'
  BY <1>1, <1>4, FinalizeType, TypeAfter
<1>5. CASE Checked(r)
  <2>1. CASE Finalize(r, status, "failed", FALSE)
    BY <1>2, <1>4, <2>1
  <2>2. CASE /\ pc' = [pc EXCEPT ![r] = "waiting"]
             /\ status' = Phase(r, key[r])
             /\ UNCHANGED <<active, background, timer, lockOf, success,
                            cancelled, recorded>>
    <3>1. Published /\ active' \in [Keys -> BOOLEAN]
      BY <1>2, <1>3, <2>2
    <3> QED
      BY <1>1, <2>2, <3>1, TypeAfter DEF TypeOK
  <2> QED
    BY <1>5, <2>1, <2>2 DEF Checked
<1>6. CASE Acquire(r)
  <2>1. CASE Finalize(r, Phase(r, key[r]), "failed", FALSE)
    BY <1>2, <1>4, <2>1
  <2>2. CASE /\ lockOf' = [lockOf EXCEPT ![key[r]] = r]
             /\ pc' = [pc EXCEPT ![r] = "running"]
             /\ status' = Phase(r, key[r])
             /\ UNCHANGED <<active, background, timer, success, cancelled,
                            recorded>>
    <3>1. Published /\ active' \in [Keys -> BOOLEAN]
      BY <1>2, <1>3, <2>2
    <3>2. lockOf' \in [Keys -> Runs \cup {NoRun}]
      BY <2>2 DEF TypeOK
    <3> QED
      BY <1>1, <2>2, <3>1, <3>2, TypeAfter DEF TypeOK
  <2> QED
    BY <1>6, <2>1, <2>2 DEF Acquire
<1>7. CASE WorkSucceeds(r)
  <2>1. /\ pc' = [pc EXCEPT ![r] = "settling"]
        /\ success' = [success EXCEPT ![r] = TRUE]
        /\ UNCHANGED <<active, status, background, timer, lockOf, cancelled,
                       recorded>>
    BY <1>7 DEF WorkSucceeds, service
  <2>2. Published /\ active' \in [Keys -> BOOLEAN]
    BY <1>2, <1>3, <2>1
  <2>3. success' \in [Runs -> BOOLEAN]
    BY <2>1 DEF TypeOK
  <2> QED
    BY <1>1, <2>1, <2>2, <2>3, TypeAfter DEF TypeOK
<1>8. CASE WorkFails(r)
  BY <1>2, <1>4, <1>8 DEF WorkFails
<1>9. CASE Settled(r)
  BY <1>2, <1>4, <1>9 DEF Settled
<1>10. CASE Fetched(r)
  <2>1. Record(r, status, "succeeded", cancelled[r])
        /\ UNCHANGED <<lockOf, success, cancelled>>
    BY <1>10 DEF Fetched
  <2> QED
    BY <1>1, <1>2, <2>1, RecordType, TypeAfter DEF TypeOK
<1>11. CASE Notified(r)
  <2>1. Close(r, status, "succeeded")
        /\ UNCHANGED <<lockOf, success, cancelled, recorded>>
    BY <1>11 DEF Notified
  <2> QED
    BY <1>1, <1>2, <2>1, CloseType, TypeAfter DEF TypeOK
<1> QED
  BY <1>5, <1>6, <1>7, <1>8, <1>9, <1>10, <1>11

LEMMA CancelType ==
  ASSUME TypeOK, NEW r \in Runs,
         CancelUnstarted(r) \/ CancelExecution(r) \/ CancelFinalize(r)
  PROVE  TypeOK'
<1>1. /\ UNCHANGED <<name, logs, key>>
      /\ requested' \in [Runs -> BOOLEAN] /\ ready' \in Seq(Runs)
      /\ logs \in [Keys -> BOOLEAN] /\ key[r] \in Keys
  <2>1. Arrives(r)
    BY DEF CancelUnstarted, CancelExecution, CancelFinalize
  <2>2. \/ ready # <<>> /\ ready' = Tail(ready)
        \/ ready' = ready
    BY DEF CancelUnstarted, CancelExecution, CancelFinalize
  <2>3. ready \in Seq(Runs)
    BY DEF TypeOK
  <2>4. ready' \in Seq(Runs)
    BY <2>2, <2>3
  <2> QED
    BY <2>1, <2>4 DEF Arrives, TypeOK
<1>2. /\ {"failed", "succeeded"} \subseteq Outcomes /\ "cancelled" \in States
      /\ status \in StatusType /\ Phase(r, key[r]) \in StatusType
  BY <1>1, PhaseType DEF Outcomes, States
<1>3. CASE CancelUnstarted(r)
  <2>1. /\ pc' = [pc EXCEPT ![r] = "ended"]
        /\ UNCHANGED <<active, status, background, timer, lockOf, success,
                       cancelled, recorded>>
    BY <1>3 DEF CancelUnstarted, service
  <2>2. Published
    BY <1>2, <2>1 DEF Published, TypeOK, Phases
  <2> QED
    BY <1>1, <2>1, <2>2, TypeAfter DEF TypeOK
<1>4. CASE CancelExecution(r)
  <2>1. PICK seen \in StatusType, out \in Outcomes : Finalize(r, seen, out, TRUE)
    BY <1>2, <1>4 DEF CancelExecution
  <2> QED
    BY <1>1, <2>1, FinalizeType, TypeAfter
<1>5. CASE CancelFinalize(r)
  <2>1. /\ Publish(r, status, "cancelled")
        /\ UNCHANGED <<active, lockOf, success, cancelled, recorded>>
    BY <1>5 DEF CancelFinalize
  <2> QED
    BY <1>1, <1>2, <2>1, PublishType, TypeAfter DEF TypeOK
<1> QED
  BY <1>3, <1>4, <1>5

LEMMA TypeInit == Init => TypeOK
BY DEF Init, TypeOK, Keys, NoStatus, States

LEMMA TypeStep == TypeOK /\ [Next]_vars => TypeOK'
<1> SUFFICES ASSUME TypeOK, [Next]_vars PROVE TypeOK'
  OBVIOUS
<1>1. ASSUME NEW r \in Runs, Start(r) PROVE TypeOK'
  <2>1. Running(r) \in [run : Runs \cup {NoRun}, state : States]
    BY DEF Running, States
  <2>2. status' \in [Keys -> [run : Runs \cup {NoRun}, state : States]]
    BY <1>1, <2>1 DEF Start, TypeOK
  <2>3. ready' \in Seq(Runs)
    BY <1>1 DEF Start, TypeOK
  <2> QED
    BY <1>1, <2>2, <2>3 DEF Start, TypeOK, Suspended
<1>2. ASSUME NEW r \in Runs, Schedule(r) PROVE TypeOK'
  BY <1>2 DEF Schedule, TypeOK, Suspended, Outcomes
<1>3. ASSUME NEW r \in Runs, RunStep(r) PROVE TypeOK'
  BY <1>3, BeginType, StepType, CancelType DEF RunStep
<1>4. ASSUME NEW r \in Runs, CancelRun(r) PROVE TypeOK'
  BY <1>4 DEF CancelRun, service, TypeOK
<1>5. ASSUME NEW k \in Keys, StatusCleanup(k) \/ LogCleanup(k) PROVE TypeOK'
  <2>1. NoStatus \in [run : Runs \cup {NoRun}, state : States]
    BY DEF NoStatus, States
  <2>2. CASE StatusCleanup(k)
    BY <2>1, <2>2 DEF StatusCleanup, TypeOK
  <2>3. CASE LogCleanup(k)
    BY <2>3 DEF LogCleanup, service, TypeOK
  <2> QED
    BY <1>5, <2>2, <2>3
<1>6. CASE Rename
  BY <1>6 DEF Rename, Moved, TypeOK, Keys, NoStatus, States
<1>7. CASE UNCHANGED vars
  BY <1>7 DEF vars, service, TypeOK
<1> QED
  BY <1>1, <1>2, <1>3, <1>4, <1>5, <1>6, <1>7 DEF Next

(* Every entry of the sign task service and every run keeps its type: a    *)
(* status always has the run_id of a run and a known state                 *)
(* (sign_tasks.py, sign_task_runner.py, sign_task_run_status.py).          *)
THEOREM TypeCorrect == Spec => []TypeOK
BY TypeInit, TypeStep, PTL DEF Spec

-----------------------------------------------------------------------------
(* The part of the type invariant the argument needs. *)
TypeCore ==
  /\ name \in Keys
  /\ active \in [Keys -> BOOLEAN]
  /\ key \in [Runs -> Keys]
  /\ pc \in [Runs -> Phases]

(* A run that executes under the present name of the account is marked,    *)
(* and before the renaming there is no other name.                         *)
Marked ==
  /\ \A r \in Runs : IsExecuting(r) /\ key[r] = name => active[name]
  /\ name = "old" => \A r \in Runs : key[r] = "old"

Inv == TypeCore /\ Marked /\ OneRunPerTask

(* What the end of a run changes: it leaves, its key may be unmarked.      *)
LEMMA PublishEnds ==
  ASSUME NEW r \in Runs, NEW seen, NEW out, Publish(r, seen, out)
  PROVE  pc' = [pc EXCEPT ![r] = "ended"]
BY DEF Publish

LEMMA FinalizeSteps ==
  ASSUME NEW r \in Runs, NEW seen, NEW out, NEW isCancelled,
         Finalize(r, seen, out, isCancelled)
  PROVE  \/ /\ pc' = [pc EXCEPT ![r] = "ended"]
            /\ active' = [active EXCEPT ![key[r]] = FALSE]
         \/ /\ out = "succeeded"
            /\ active' = active
            /\ \/ pc' = [pc EXCEPT ![r] = "fetching"]
               \/ pc' = [pc EXCEPT ![r] = "notifying"]
<1>1. PICK verdict \in {out} \cup (IF out = "succeeded" THEN {"failed"} ELSE {}) :
        \/ Record(r, seen, verdict, isCancelled)
        \/ verdict = "succeeded" /\ Suspend(r, "fetching", seen)
  BY DEF Finalize
<1>2. CASE Record(r, seen, verdict, isCancelled)
  BY <1>1, <1>2, PublishEnds DEF Record, Close, Suspend
<1>3. CASE verdict = "succeeded" /\ Suspend(r, "fetching", seen)
  BY <1>1, <1>3 DEF Suspend
<1> QED
  BY <1>1, <1>2, <1>3

-----------------------------------------------------------------------------
(* The four ways in which a step changes who executes. *)

LEMMA Keeps ==
  ASSUME Inv, NEW r \in Runs, NEW to \in Suspended,
         pc' = [pc EXCEPT ![r] = to], IsExecuting(r) \/ to = "created",
         active' = active, key' = key, name' = name
  PROVE  Inv'
BY DEF Inv, TypeCore, Marked, OneRunPerTask, IsExecuting, Executing,
       Suspended, Phases

LEMMA Ends ==
  ASSUME Inv, NEW r \in Runs,
         IsExecuting(r) \/ ~active[key[r]],
         pc' = [pc EXCEPT ![r] = "ended"],
         active' = active \/ active' = [active EXCEPT ![key[r]] = FALSE],
         key' = key, name' = name
  PROVE  Inv'
<1>1. TypeCore'
  BY DEF Inv, TypeCore, Phases
<1>2. \A q \in Runs : IsExecuting(q)' => IsExecuting(q) /\ q # r
  BY DEF Inv, TypeCore, IsExecuting, Executing, Suspended
<1>3. OneRunPerTask'
  BY <1>2 DEF Inv, OneRunPerTask
<1>4. ASSUME NEW q \in Runs, IsExecuting(q)', key[q] = name PROVE active'[name]
  <2>1. IsExecuting(q) /\ q # r /\ active[name]
    BY <1>2, <1>4 DEF Inv, Marked
  <2>2. key[r] # name
    BY <1>4, <2>1 DEF Inv, OneRunPerTask
  <2> QED
    BY <2>1, <2>2 DEF Inv, TypeCore
<1> QED
  BY <1>1, <1>3, <1>4 DEF Inv, Marked

LEMMA Starts ==
  ASSUME Inv, NEW r \in Runs, ~active[name],
         key' = key \/ key' = [key EXCEPT ![r] = name], key'[r] = name,
         active' = [active EXCEPT ![name] = TRUE],
         pc' = [pc EXCEPT ![r] = "checking"], name' = name, ~IsExecuting(r)
  PROVE  Inv'
<1>1. TypeCore'
  BY DEF Inv, TypeCore, Phases, Suspended
<1>2. \A q \in Runs \ {r} : IsExecuting(q)' => IsExecuting(q)
  <2>1. \A q \in Runs \ {r} : pc'[q] = pc[q]
    BY DEF Inv, TypeCore
  <2> QED
    BY <2>1 DEF IsExecuting, Executing, Suspended
<1>3. \A q \in Runs \ {r} : key'[q] = key[q]
  BY DEF Inv, TypeCore
<1>4. name = "old" => \A q \in Runs : key'[q] = "old"
  BY <1>3 DEF Inv, Marked
<1>5. active'[name]
  BY DEF Inv, TypeCore
<1>6. \A q \in Runs \ {r} : IsExecuting(q)' => key[q] # name
  BY <1>2 DEF Inv, Marked
<1>7. OneRunPerTask'
  BY <1>2, <1>3, <1>6 DEF Inv, OneRunPerTask
<1>8. Marked'
  BY <1>4, <1>5 DEF Marked
<1> QED
  BY <1>1, <1>7, <1>8 DEF Inv

LEMMA FinalizeKeeps ==
  ASSUME Inv, NEW r \in Runs, NEW seen, NEW out, NEW isCancelled,
         Finalize(r, seen, out, isCancelled),
         IsExecuting(r) \/ (~active[key[r]] /\ out # "succeeded"),
         key' = key, name' = name
  PROVE  Inv'
<1>1. {"fetching", "notifying"} \subseteq Suspended
  BY DEF Suspended
<1> QED
  BY <1>1, FinalizeSteps, Ends, Keeps

-----------------------------------------------------------------------------
LEMMA InvInit == Init => Inv
BY DEF Init, Inv, TypeCore, Marked, OneRunPerTask, IsExecuting, Executing,
       Suspended, Phases, Keys

LEMMA InvStep == Inv /\ [Next]_vars => Inv'
<1> SUFFICES ASSUME Inv, [Next]_vars PROVE Inv'
  OBVIOUS
<1>1. ASSUME NEW r \in Runs, Start(r) PROVE Inv'
  BY <1>1
  DEF Start, Inv, TypeCore, Marked, OneRunPerTask, IsExecuting, Executing,
      Suspended, Phases
<1>2. ASSUME NEW r \in Runs, Schedule(r) PROVE Inv'
  <2>1. pc[r] = "new" /\ ~IsExecuting(r) /\ name' = name
        /\ key' = [key EXCEPT ![r] = name] /\ key'[r] = name /\ ~active[name]
    BY <1>2
    DEF Schedule, IsExecuting, Executing, Suspended, Inv, TypeCore
  <2>2. CASE active' = [active EXCEPT ![name] = TRUE]
             /\ pc' = [pc EXCEPT ![r] = "checking"]
    BY <2>1, <2>2, Starts
  <2>3. CASE active' = active /\ pc' = [pc EXCEPT ![r] = "ended"]
    BY <2>1, <2>3
    DEF Inv, TypeCore, Marked, OneRunPerTask, IsExecuting, Executing,
        Suspended, Phases
  <2> QED
    BY <1>2, <2>2, <2>3 DEF Schedule
<1>3. ASSUME NEW r \in Runs, Begin(r) PROVE Inv'
  <2>1. pc[r] = "created" /\ ~IsExecuting(r) /\ name' = name /\ key' = key
    BY <1>3 DEF Begin, IsExecuting, Executing, Suspended
  <2>2. CASE active[key[r]]
    <3>1. pc' = [pc EXCEPT ![r] = "ended"] /\ active' = active
      BY <1>3, <2>2, PublishEnds DEF Begin
    <3> QED
      BY <2>1, <3>1
      DEF Inv, TypeCore, Marked, OneRunPerTask, IsExecuting, Executing,
          Suspended, Phases
  <2>3. CASE ~active[key[r]]
    <3>1. \/ /\ key[r] = name
             /\ active' = [active EXCEPT ![key[r]] = TRUE]
             /\ pc' = [pc EXCEPT ![r] = "checking"]
          \/ Finalize(r, status, "failed", FALSE)
      BY <1>3, <2>3 DEF Begin, Execute
    <3> QED
      BY <2>1, <2>3, <3>1, Starts, FinalizeKeeps
  <2> QED
    BY <2>2, <2>3
<1>4. ASSUME NEW r \in Runs, Checked(r) \/ Acquire(r) PROVE Inv'
  <2>1. IsExecuting(r) /\ name' = name /\ key' = key
    BY <1>4
    DEF Checked, Acquire, Proceeds, IsExecuting, Executing, Suspended
  <2>2. \/ pc' = [pc EXCEPT ![r] = "waiting"] /\ active' = active
        \/ pc' = [pc EXCEPT ![r] = "running"] /\ active' = active
        \/ \E seen : Finalize(r, seen, "failed", FALSE)
    BY <1>4 DEF Checked, Acquire
  <2>3. {"waiting", "running"} \subseteq Suspended
    BY DEF Suspended
  <2> QED
    BY <2>1, <2>2, <2>3, Keeps, FinalizeKeeps
<1>5. ASSUME NEW r \in Runs, WorkSucceeds(r) \/ WorkFails(r) \/ Settled(r)
      PROVE  Inv'
  <2>1. IsExecuting(r) /\ name' = name /\ key' = key
    BY <1>5
    DEF WorkSucceeds, WorkFails, Settled, Proceeds, IsExecuting, Executing,
        Suspended
  <2>2. \/ pc' = [pc EXCEPT ![r] = "settling"] /\ active' = active
        \/ \E seen, out : Finalize(r, seen, out, FALSE)
    BY <1>5 DEF WorkSucceeds, WorkFails, Settled, service
  <2>3. "settling" \in Suspended
    BY DEF Suspended
  <2> QED
    BY <2>1, <2>2, <2>3, Keeps, FinalizeKeeps
<1>6. ASSUME NEW r \in Runs, Fetched(r) \/ Notified(r) PROVE Inv'
  <2>1. IsExecuting(r) /\ name' = name /\ key' = key
    BY <1>6
    DEF Fetched, Notified, Proceeds, IsExecuting, Executing, Suspended
  <2>2. \/ /\ pc' = [pc EXCEPT ![r] = "ended"]
           /\ active' = [active EXCEPT ![key[r]] = FALSE]
        \/ pc' = [pc EXCEPT ![r] = "notifying"] /\ active' = active
    BY <1>6, PublishEnds DEF Fetched, Notified, Record, Close, Suspend
  <2>3. "notifying" \in Suspended
    BY DEF Suspended
  <2> QED
    BY <2>1, <2>2, <2>3, Keeps, Ends
<1>7. ASSUME NEW r \in Runs, CancelUnstarted(r) PROVE Inv'
  BY <1>7
  DEF CancelUnstarted, Arrives, service, Inv, TypeCore, Marked,
      OneRunPerTask, IsExecuting, Executing, Suspended, Phases
<1>8. ASSUME NEW r \in Runs, CancelExecution(r) PROVE Inv'
  <2>1. IsExecuting(r) /\ name' = name /\ key' = key
    BY <1>8
    DEF CancelExecution, Arrives, IsExecuting, Executing, Suspended
  <2>2. \E seen, out : Finalize(r, seen, out, TRUE)
    BY <1>8 DEF CancelExecution
  <2> QED
    BY <2>1, <2>2, FinalizeKeeps
<1>9. ASSUME NEW r \in Runs, CancelFinalize(r) PROVE Inv'
  <2>1. IsExecuting(r) /\ name' = name /\ key' = key /\ active' = active
    BY <1>9
    DEF CancelFinalize, Arrives, IsExecuting, Executing, Suspended
  <2>2. pc' = [pc EXCEPT ![r] = "ended"]
    BY <1>9, PublishEnds DEF CancelFinalize
  <2> QED
    BY <2>1, <2>2, Ends
<1>10. ASSUME NEW r \in Runs, CancelRun(r) PROVE Inv'
  BY <1>10
  DEF CancelRun, service, Inv, TypeCore, Marked, OneRunPerTask, IsExecuting
<1>11. ASSUME NEW k \in Keys, StatusCleanup(k) \/ LogCleanup(k) PROVE Inv'
  BY <1>11
  DEF StatusCleanup, LogCleanup, service, Inv, TypeCore, Marked,
      OneRunPerTask, IsExecuting
<1>12. CASE Rename
  BY <1>12
  DEF Rename, Moved, Inv, TypeCore, Marked, OneRunPerTask, IsExecuting, Keys
<1>13. CASE UNCHANGED vars
  BY <1>13
  DEF vars, service, Inv, TypeCore, Marked, OneRunPerTask, IsExecuting
<1> QED
  BY <1>1, <1>2, <1>3, <1>4, <1>5, <1>6, <1>7, <1>8, <1>9, <1>10, <1>11,
     <1>12, <1>13
  DEF Next, RunStep

(* execute_sign_task refuses to run a sign task that is already running    *)
(* (sign_task_runner.py:652-659): whatever is started, cancelled or        *)
(* renamed, one run at a time executes a task under a key.                 *)
THEOREM OneRun == Spec => []OneRunPerTask
<1>1. Inv => OneRunPerTask
  BY DEF Inv
<1> QED
  BY <1>1, InvInit, InvStep, PTL DEF Spec
-----------------------------------------------------------------------------
(* Without renaming, and when no run is cancelled after it has begun to    *)
(* finalize, the mark and the status of a task follow its run.             *)
Asked == \A r \in Runs : requested[r] => pc[r] \in CancelAt

Tracked ==
  /\ TypeOK /\ Inv
  /\ Asked
  /\ ActiveMeansExecuting
  /\ StatusFollowsRun

(* A step of run r concerns its own key only.                              *)
OwnStep(r) ==
  /\ \A q \in Runs \ {r} : pc'[q] = pc[q] /\ key'[q] = key[q]
  /\ \A k \in Keys \ {key'[r]} : active'[k] = active[k] /\ status'[k] = status[k]

ShowsOwn(r) == r \notin Scheduled => status'[key'[r]] = Running(r)

Enters(r) ==
  /\ ~active[key'[r]] /\ active'[key'[r]]
  /\ IsExecuting(r)' /\ ShowsOwn(r)

GoesOn(r) ==
  /\ IsExecuting(r) /\ IsExecuting(r)'
  /\ key'[r] = key[r] /\ active'[key[r]] = active[key[r]]
  /\ ShowsOwn(r)

Quits(r) ==
  /\ IsExecuting(r) /\ ~IsExecuting(r)'
  /\ key'[r] = key[r] /\ ~active'[key[r]]

(* The run did not execute and does not: the key is free, or the status of *)
(* another run is left alone.                                              *)
StaysOut(r) ==
  /\ ~IsExecuting(r) /\ ~IsExecuting(r)'
  /\ active'[key'[r]] = active[key'[r]]
  /\ \/ ~active[key'[r]]
     \/ status[key'[r]].run # r => status'[key'[r]] = status[key'[r]]

Effect(r) == OwnStep(r) /\ (Enters(r) \/ GoesOn(r) \/ Quits(r) \/ StaysOut(r))

LEMMA EffectActive ==
  ASSUME Tracked, NEW r \in Runs, Effect(r), key' \in [Runs -> Keys],
         IsExecuting(r) => key'[r] = key[r]
  PROVE  ActiveMeansExecuting'
<1> SUFFICES ASSUME NEW k \in Keys
             PROVE  active'[k] <=> \E q \in Runs : IsExecuting(q)' /\ key'[q] = k
  BY DEF ActiveMeansExecuting
<1>1. \A q \in Runs \ {r} : (IsExecuting(q)' <=> IsExecuting(q)) /\ key'[q] = key[q]
  BY DEF Effect, OwnStep, IsExecuting
<1>2. active[k] <=> \E q \in Runs : IsExecuting(q) /\ key[q] = k
  BY DEF Tracked, ActiveMeansExecuting
<1>3. CASE k # key'[r]
  <2>1. active'[k] = active[k]
    BY <1>3 DEF Effect, OwnStep
  <2>2. IsExecuting(r) => key[r] # k
    BY <1>3
  <2> QED
    BY <1>1, <1>2, <1>3, <2>1, <2>2
<1>4. CASE k = key'[r]
  <2>1. CASE Enters(r)
    BY <1>4, <2>1 DEF Enters
  <2>2. CASE GoesOn(r)
    BY <1>2, <1>4, <2>2 DEF GoesOn
  <2>3. CASE Quits(r)
    BY <1>1, <1>4, <2>3 DEF Quits, Tracked, Inv, OneRunPerTask
  <2>4. CASE StaysOut(r)
    BY <1>1, <1>2, <1>4, <2>4 DEF StaysOut
  <2> QED
    BY <2>1, <2>2, <2>3, <2>4 DEF Effect
<1> QED
  BY <1>3, <1>4

LEMMA EffectStatus ==
  ASSUME Tracked, NEW r \in Runs, Effect(r), key' \in [Runs -> Keys]
  PROVE  StatusFollowsRun'
<1> SUFFICES ASSUME NEW q \in Runs \ Scheduled, IsExecuting(q)'
             PROVE  status'[key'[q]] = Running(q)
  BY DEF StatusFollowsRun
<1>1. CASE q = r
  BY <1>1 DEF Effect, Enters, GoesOn, Quits, StaysOut, ShowsOwn
<1>2. CASE q # r
  <2>1. IsExecuting(q) /\ key'[q] = key[q] /\ key[q] \in Keys
    BY <1>2 DEF Effect, OwnStep, IsExecuting, Tracked, TypeOK
  <2>2. status[key[q]] = Running(q) /\ active[key[q]]
    BY <2>1 DEF Tracked, StatusFollowsRun, ActiveMeansExecuting
  <2>3. CASE key'[r] # key[q]
    BY <2>1, <2>2, <2>3 DEF Effect, OwnStep
  <2>4. CASE key'[r] = key[q]
    <3>1. ~Enters(r)
      BY <2>2, <2>4 DEF Enters
    <3>2. ~GoesOn(r) /\ ~Quits(r)
      BY <1>2, <2>1, <2>4 DEF GoesOn, Quits, Tracked, Inv, OneRunPerTask
    <3>3. StaysOut(r) /\ status[key[q]].run # r
      BY <1>2, <2>2, <3>1, <3>2 DEF Effect, Running
    <3> QED
      BY <2>1, <2>2, <2>4, <3>3 DEF StaysOut
  <2> QED
    BY <2>3, <2>4
<1> QED
  BY <1>1, <1>2

(* What Publish does to the status: nothing, or the state of its own run.  *)
LEMMA PublishStatus ==
  ASSUME TypeOK, NEW r \in Runs, NEW seen \in StatusType, NEW final,
         Publish(r, seen, final)
  PROVE  /\ \A k \in Keys \ {key[r]} : status'[k] = seen[k]
         /\ seen[key[r]].run # r => status'[key[r]] = seen[key[r]]
BY DEF Publish, TypeOK, StatusType

(* Who may finalize with which view of the status: a run that executes and *)
(* is shown, or one that could not start.                                  *)
MayFinalize(r, seen, out) ==
  /\ \A k \in Keys \ {key[r]} : seen[k] = status[k]
  /\ \/ IsExecuting(r) /\ (r \notin Scheduled => seen[key[r]] = Running(r))
     \/ ~IsExecuting(r) /\ ~active[key[r]] /\ out # "succeeded"

LEMMA FinalizeEffect ==
  ASSUME Tracked, NEW r \in Runs, NEW seen \in StatusType,
         NEW out, NEW isCancelled, Finalize(r, seen, out, isCancelled),
         key' = key, MayFinalize(r, seen, out)
  PROVE  Effect(r)
<1>1. /\ pc \in [Runs -> {"new", "ended"} \cup Suspended]
      /\ active \in [Keys -> BOOLEAN] /\ key[r] \in Keys /\ TypeOK
  BY DEF Tracked, TypeOK
<1>2. /\ \A k \in Keys \ {key[r]} : seen[k] = status[k]
      /\ \/ IsExecuting(r) /\ (r \notin Scheduled => seen[key[r]] = Running(r))
         \/ ~IsExecuting(r) /\ ~active[key[r]] /\ out # "succeeded"
  BY DEF MayFinalize
<1>3. PICK verdict \in {out} \cup (IF out = "succeeded" THEN {"failed"} ELSE {}) :
        \/ Record(r, seen, verdict, isCancelled)
        \/ verdict = "succeeded" /\ Suspend(r, "fetching", seen)
  BY DEF Finalize
<1>4. ASSUME NEW final, Close(r, seen, final) PROVE Effect(r)
  <2>1. /\ pc' = [pc EXCEPT ![r] = "ended"]
        /\ active' = [active EXCEPT ![key[r]] = FALSE]
        /\ \A k \in Keys \ {key[r]} : status'[k] = seen[k]
    BY <1>1, <1>4, PublishEnds, PublishStatus DEF Close
  <2>2. OwnStep(r) /\ ~IsExecuting(r)' /\ active'[key[r]] = FALSE
    BY <1>2, <1>1, <2>1 DEF OwnStep, IsExecuting, Executing, Suspended
  <2>3. CASE IsExecuting(r)
    BY <2>2, <2>3 DEF Effect, Quits
  <2>4. CASE ~IsExecuting(r)
    <3>1. active[key[r]] = FALSE
      BY <1>2, <1>1, <2>4
    <3> QED
      BY <2>2, <2>4, <3>1 DEF Effect, StaysOut
  <2> QED
    BY <2>3, <2>4
<1>5. ASSUME NEW phase \in {"fetching", "notifying"}, Suspend(r, phase, seen),
             IsExecuting(r)
      PROVE  Effect(r)
  <2>1. pc' = [pc EXCEPT ![r] = phase] /\ status' = seen /\ active' = active
    BY <1>5 DEF Suspend
  <2>2. OwnStep(r) /\ IsExecuting(r)'
    BY <1>2, <1>1, <2>1 DEF OwnStep, IsExecuting, Executing, Suspended
  <2> QED
    BY <1>2, <1>5, <2>1, <2>2 DEF Effect, GoesOn, ShowsOwn
<1>6. verdict = "succeeded" => IsExecuting(r)
  BY <1>2, <1>3
<1>7. \/ \E final : Close(r, seen, final)
      \/ verdict = "succeeded" /\ Suspend(r, "notifying", seen)
      \/ verdict = "succeeded" /\ Suspend(r, "fetching", seen)
  BY <1>3 DEF Record
<1> QED
  BY <1>4, <1>5, <1>6, <1>7

LEMMA PhaseShows ==
  ASSUME Tracked, NEW r \in Runs, IsExecuting(r)
  PROVE  /\ \A k \in Keys \ {key[r]} : Phase(r, key[r])[k] = status[k]
         /\ r \notin Scheduled => /\ Phase(r, key[r])[key[r]] = Running(r)
                                  /\ status[key[r]] = Running(r)
BY DEF Phase, Tracked, TypeOK, StatusFollowsRun

LEMMA BeginEffect ==
  ASSUME Tracked, NEW r \in Runs, Begin(r)
  PROVE  Effect(r)
<1>1. /\ key' = key /\ TypeOK /\ key[r] \in Keys /\ status \in StatusType
      /\ pc \in [Runs -> {"new", "ended"} \cup Suspended]
      /\ active \in [Keys -> BOOLEAN]
      /\ status \in [Keys -> [run : Runs \cup {NoRun}, state : States]]
  BY DEF Begin, Tracked, TypeOK, StatusType
<1>2. ~IsExecuting(r)
  BY DEF Begin, IsExecuting, Executing
<1>3. CASE active[key[r]]
  <2>1. Publish(r, status, "failed") /\ active' = active
    BY <1>3 DEF Begin
  <2>2. /\ pc' = [pc EXCEPT ![r] = "ended"]
        /\ \A k \in Keys \ {key[r]} : status'[k] = status[k]
        /\ status[key[r]].run # r => status'[key[r]] = status[key[r]]
    BY <1>1, <2>1, PublishEnds, PublishStatus
  <2>3. ~IsExecuting(r)' /\ OwnStep(r)
    BY <1>1, <2>1, <2>2 DEF OwnStep, IsExecuting, Executing, Suspended
  <2> QED
    BY <1>1, <1>2, <2>1, <2>2, <2>3 DEF Effect, StaysOut
<1>4. CASE ~active[key[r]]
  <2>1. \/ /\ active' = [active EXCEPT ![key[r]] = TRUE]
           /\ pc' = [pc EXCEPT ![r] = "checking"]
           /\ status' = Phase(r, key[r])
        \/ Finalize(r, status, "failed", FALSE)
    BY <1>4 DEF Begin, Execute
  <2>2. CASE Finalize(r, status, "failed", FALSE)
    BY <1>1, <1>2, <1>4, <2>2, FinalizeEffect DEF MayFinalize
  <2>3. CASE /\ active' = [active EXCEPT ![key[r]] = TRUE]
             /\ pc' = [pc EXCEPT ![r] = "checking"]
             /\ status' = Phase(r, key[r])
    <3>1. OwnStep(r) /\ IsExecuting(r)' /\ active'[key[r]]
      BY <1>1, <2>3 DEF OwnStep, IsExecuting, Executing, Suspended, Phase
    <3>2. ShowsOwn(r)
      BY <1>1, <2>3 DEF ShowsOwn, Phase
    <3> QED
      BY <1>1, <1>4, <3>1, <3>2 DEF Effect, Enters
  <2> QED
    BY <2>1, <2>2, <2>3
<1> QED
  BY <1>3, <1>4

LEMMA StepEffect ==
  ASSUME Tracked, NEW r \in Runs,
         \/ Checked(r) \/ Acquire(r) \/ WorkSucceeds(r) \/ WorkFails(r)
         \/ Settled(r) \/ Fetched(r) \/ Notified(r)
  PROVE  Effect(r)
<1>1. key' = key /\ IsExecuting(r)
  BY DEF Checked, Acquire, WorkSucceeds, WorkFails, Settled, Fetched, Notified,
         Proceeds, IsExecuting, Executing, Suspended
<1>2. /\ TypeOK /\ key[r] \in Keys
      /\ pc \in [Runs -> {"new", "ended"} \cup Suspended]
      /\ active \in [Keys -> BOOLEAN]
      /\ status \in StatusType /\ Phase(r, key[r]) \in StatusType
  BY PhaseType DEF Tracked, TypeOK
<1>3. /\ \A k \in Keys \ {key[r]} : Phase(r, key[r])[k] = status[k]
      /\ r \notin Scheduled => /\ Phase(r, key[r])[key[r]] = Running(r)
                               /\ status[key[r]] = Running(r)
  BY <1>1, PhaseShows
<1>4. ASSUME NEW to \in {"waiting", "running", "settling", "notifying"},
             NEW seen \in {status, Phase(r, key[r])},
             pc' = [pc EXCEPT ![r] = to], active' = active, status' = seen
      PROVE  Effect(r)
  <2>1. OwnStep(r) /\ IsExecuting(r)' /\ ShowsOwn(r)
    BY <1>1, <1>2, <1>3, <1>4
    DEF OwnStep, ShowsOwn, IsExecuting, Executing, Suspended
  <2> QED
    BY <1>1, <1>4, <2>1 DEF Effect, GoesOn
<1>5. ASSUME NEW seen \in {status, Phase(r, key[r])}, NEW out, NEW isCancelled,
             Finalize(r, seen, out, isCancelled)
      PROVE  Effect(r)
  <2>1. seen \in StatusType /\ MayFinalize(r, seen, out)
    BY <1>1, <1>2, <1>3 DEF MayFinalize
  <2> QED
    BY <1>1, <1>5, <2>1, FinalizeEffect
<1>6. ASSUME NEW final, Close(r, status, final) PROVE Effect(r)
  <2>1. /\ pc' = [pc EXCEPT ![r] = "ended"]
        /\ active' = [active EXCEPT ![key[r]] = FALSE]
        /\ \A k \in Keys \ {key[r]} : status'[k] = status[k]
    BY <1>2, <1>6, PublishEnds, PublishStatus DEF Close
  <2>2. OwnStep(r) /\ ~IsExecuting(r)' /\ ~active'[key[r]]
    BY <1>1, <1>2, <2>1 DEF OwnStep, IsExecuting, Executing, Suspended
  <2> QED
    BY <1>1, <2>2 DEF Effect, Quits
<1>7. \/ \E to \in {"waiting", "running", "settling", "notifying"},
            seen \in {status, Phase(r, key[r])} :
           pc' = [pc EXCEPT ![r] = to] /\ active' = active /\ status' = seen
      \/ \E seen \in {status, Phase(r, key[r])}, out \in Outcomes :
           Finalize(r, seen, out, FALSE)
      \/ \E final : Close(r, status, final)
  BY DEF Checked, Acquire, WorkSucceeds, WorkFails, Settled, Fetched, Notified,
         Record, Suspend, service, Outcomes
<1> QED
  BY <1>4, <1>5, <1>6, <1>7

LEMMA CancelEffect ==
  ASSUME Tracked, CancelAt \cap {"fetching", "notifying"} = {},
         NEW r \in Runs,
         CancelUnstarted(r) \/ CancelExecution(r) \/ CancelFinalize(r)
  PROVE  Effect(r)
<1>1. key' = key /\ pc[r] \in CancelAt
  BY DEF CancelUnstarted, CancelExecution, CancelFinalize, Arrives, Tracked, Asked
<1>2. /\ TypeOK /\ key[r] \in Keys
      /\ pc \in [Runs -> {"new", "ended"} \cup Suspended]
      /\ status \in StatusType /\ Phase(r, key[r]) \in StatusType
  BY PhaseType DEF Tracked, TypeOK
<1>3. CASE CancelUnstarted(r)
  <2>1. /\ pc[r] = "created" /\ pc' = [pc EXCEPT ![r] = "ended"]
        /\ active' = active /\ status' = status
    BY <1>3 DEF CancelUnstarted, service
  <2>2. OwnStep(r) /\ ~IsExecuting(r) /\ ~IsExecuting(r)'
    BY <1>1, <1>2, <2>1 DEF OwnStep, IsExecuting, Executing, Suspended
  <2> QED
    BY <2>1, <2>2 DEF Effect, StaysOut
<1>4. CASE CancelExecution(r)
  <2>1. IsExecuting(r)
    BY <1>4 DEF CancelExecution, IsExecuting, Executing, Suspended
  <2>2. PICK seen \in {status, Phase(r, key[r])}, out \in Outcomes :
          Finalize(r, seen, out, TRUE)
    BY <1>4 DEF CancelExecution, Outcomes
  <2>3. seen \in StatusType /\ MayFinalize(r, seen, out)
    BY <1>2, <2>1, PhaseShows DEF MayFinalize
  <2> QED
    BY <1>1, <2>2, <2>3, FinalizeEffect
<1>5. ~CancelFinalize(r)
  BY <1>1 DEF CancelFinalize
<1> QED
  BY <1>3, <1>4, <1>5

LEMMA StartEffect ==
  ASSUME Tracked, NEW r \in Runs, Start(r) \/ Schedule(r)
  PROVE  Effect(r) /\ ~IsExecuting(r)
<1>1. /\ key \in [Runs -> Keys] /\ name \in Keys
      /\ pc \in [Runs -> {"new", "ended"} \cup Suspended]
      /\ active \in [Keys -> BOOLEAN]
      /\ status \in [Keys -> [run : Runs \cup {NoRun}, state : States]]
  BY DEF Tracked, TypeOK
<1>2. /\ pc[r] = "new" /\ ~active[name]
      /\ key' = [key EXCEPT ![r] = name] /\ key'[r] = name
  BY <1>1 DEF Start, Schedule
<1>3. ~IsExecuting(r)
  BY <1>2 DEF IsExecuting, Executing, Suspended
<1>4. CASE Start(r)
  <2>1. /\ pc' = [pc EXCEPT ![r] = "created"] /\ active' = active
        /\ status' = [status EXCEPT ![name] = Running(r)]
    BY <1>4 DEF Start
  <2>2. OwnStep(r) /\ ~IsExecuting(r)'
    BY <1>1, <1>2, <2>1 DEF OwnStep, IsExecuting, Executing, Suspended
  <2> QED
    BY <1>2, <1>3, <2>1, <2>2 DEF Effect, StaysOut
<1>5. CASE Schedule(r)
  <2>1. r \in Scheduled /\ status' = status
    BY <1>5 DEF Schedule
  <2>2. CASE /\ active' = [active EXCEPT ![name] = TRUE]
             /\ pc' = [pc EXCEPT ![r] = "checking"]
    <3>1. OwnStep(r) /\ IsExecuting(r)' /\ active'[name]
      BY <1>1, <1>2, <2>1, <2>2 DEF OwnStep, IsExecuting, Executing, Suspended
    <3> QED
      BY <1>2, <1>3, <2>1, <3>1 DEF Effect, Enters, ShowsOwn
  <2>3. CASE active' = active /\ pc' = [pc EXCEPT ![r] = "ended"]
    <3>1. OwnStep(r) /\ ~IsExecuting(r)'
      BY <1>1, <1>2, <2>1, <2>3 DEF OwnStep, IsExecuting, Executing, Suspended
    <3> QED
      BY <1>2, <1>3, <2>3, <3>1 DEF Effect, StaysOut
  <2> QED
    BY <1>5, <2>2, <2>3 DEF Schedule
<1> QED
  BY <1>3, <1>4, <1>5

(* A pending cancellation blocks the run until it has arrived. *)
LEMMA RequestedStep ==
  ASSUME Tracked, NEW r \in Runs, Start(r) \/ Schedule(r) \/ RunStep(r)
  PROVE  /\ ~requested'[r]
         /\ \A q \in Runs \ {r} : requested'[q] = requested[q]
<1>1. requested \in [Runs -> BOOLEAN] /\ CancelAt \subseteq Suspended
  BY RunAssumption DEF Tracked, TypeOK
<1>2. CASE Start(r) \/ Schedule(r)
  <2>1. pc[r] = "new" /\ requested' = requested
    BY <1>2 DEF Start, Schedule
  <2> QED
    BY <1>1, <2>1 DEF Tracked, Asked, Suspended
<1>3. CASE \/ Begin(r) \/ Checked(r) \/ Acquire(r) \/ WorkSucceeds(r)
           \/ WorkFails(r) \/ Settled(r) \/ Fetched(r) \/ Notified(r)
  BY <1>3 DEF Begin, Checked, Acquire, WorkSucceeds, WorkFails, Settled,
              Fetched, Notified, Proceeds
<1>4. CASE CancelUnstarted(r) \/ CancelExecution(r) \/ CancelFinalize(r)
  BY <1>1, <1>4 DEF CancelUnstarted, CancelExecution, CancelFinalize, Arrives
<1> QED
  BY <1>2, <1>3, <1>4 DEF RunStep

LEMMA TrackedStep ==
  ASSUME ~Renames, CancelAt \cap {"fetching", "notifying"} = {},
         Tracked, [Next]_vars
  PROVE  Asked' /\ ActiveMeansExecuting' /\ StatusFollowsRun'
<1>1. TypeOK' /\ TypeOK /\ key' \in [Runs -> Keys]
  BY TypeStep DEF Tracked, TypeOK
<1>2. ASSUME NEW r \in Runs, Start(r) \/ Schedule(r) \/ RunStep(r)
      PROVE  Asked' /\ ActiveMeansExecuting' /\ StatusFollowsRun'
  <2>1. Effect(r) /\ (IsExecuting(r) => key'[r] = key[r])
    BY <1>2, StartEffect, BeginEffect, StepEffect, CancelEffect
    DEF RunStep, Begin, Checked, Acquire, WorkSucceeds, WorkFails, Settled,
        Fetched, Notified, Proceeds, CancelUnstarted, CancelExecution,
        CancelFinalize, Arrives
  <2>2. Asked'
    BY <1>2, <2>1, RequestedStep DEF Effect, OwnStep, Asked, Tracked
  <2> QED
    BY <1>1, <2>1, <2>2, EffectActive, EffectStatus
<1>3. ASSUME NEW r \in Runs, CancelRun(r)
      PROVE  Asked' /\ ActiveMeansExecuting' /\ StatusFollowsRun'
  <2>1. Asked'
    BY <1>3 DEF CancelRun, Asked, Tracked, TypeOK
  <2> QED
    BY <1>3, <2>1 DEF CancelRun, service, Tracked, ActiveMeansExecuting,
                      StatusFollowsRun, IsExecuting
<1>4. ASSUME NEW k \in Keys, StatusCleanup(k) \/ LogCleanup(k)
      PROVE  Asked' /\ ActiveMeansExecuting' /\ StatusFollowsRun'
  <2>1. UNCHANGED <<active, key, pc, requested>>
    BY <1>4 DEF StatusCleanup, LogCleanup, service
  <2>2. \A j \in Keys : active[j] => status'[j] = status[j]
    BY <1>1, <1>4 DEF StatusCleanup, LogCleanup, service, TypeOK
  <2>3. \A r \in Runs : IsExecuting(r) => active[key[r]] /\ key[r] \in Keys
    BY <1>1 DEF Tracked, ActiveMeansExecuting, TypeOK
  <2> QED
    BY <2>1, <2>2, <2>3 DEF Tracked, Asked, ActiveMeansExecuting,
                            StatusFollowsRun, IsExecuting
<1>5. CASE UNCHANGED vars
  BY <1>5 DEF vars, service, Tracked, Asked, ActiveMeansExecuting,
              StatusFollowsRun, IsExecuting
<1> QED
  BY <1>2, <1>3, <1>4, <1>5 DEF Next, Rename

LEMMA TrackedAlways ==
  ASSUME ~Renames, CancelAt \cap {"fetching", "notifying"} = {}
  PROVE  Spec => []Tracked
<1>1. Init => Tracked
  BY TypeInit, InvInit
  DEF Init, Tracked, Asked, ActiveMeansExecuting, StatusFollowsRun,
      IsExecuting, Executing, Suspended
<1>2. Tracked /\ [Next]_vars => Tracked'
  BY TypeStep, InvStep, TrackedStep DEF Tracked
<1> QED
  BY <1>1, <1>2, PTL DEF Spec

(* is_task_running (sign_tasks.py:1276) tells the truth: _active_tasks is  *)
(* set exactly while a run executes, as long as nobody is cancelled inside *)
(* _runner_finalize (cancel_stuck) and the account keeps its name.         *)
THEOREM ActiveIsExecuting ==
  ASSUME ~Renames, CancelAt \cap {"fetching", "notifying"} = {}
  PROVE  Spec => []ActiveMeansExecuting
<1>1. Tracked => ActiveMeansExecuting
  BY DEF Tracked
<1> QED
  BY <1>1, TrackedAlways, PTL

(* Under the same assumptions _run_statuses shows the run that executes:   *)
(* no refused, ended or cleaned up run takes its place.                    *)
THEOREM StatusFollows ==
  ASSUME ~Renames, CancelAt \cap {"fetching", "notifying"} = {}
  PROVE  Spec => []StatusFollowsRun
<1>1. Tracked => StatusFollowsRun
  BY DEF Tracked
<1> QED
  BY <1>1, TrackedAlways, PTL
-----------------------------------------------------------------------------
(* History and status.  A step of run r writes only r's entry of the       *)
(* history; a status keeps what it was, says that r runs, or gets the      *)
(* final state of r, whose verdict agrees with the history.                *)
Finals == Outcomes \cup {"cancelled"}

Kept(r) ==
  /\ pc[r] \in ({"new"} \cup Suspended) \ {"notifying"} => recorded[r] = "none"
  /\ pc[r] = "notifying" => recorded[r] = "succeeded"

Verdict(r, final) ==
  /\ final \in Finals
  /\ final \in {"succeeded", "timeout"} => recorded'[r] = final
  /\ final = "failed" => recorded'[r] \in {"failed", "none"}
  /\ final = "cancelled" =>
       recorded'[r] = "none" \/ (pc[r] = "notifying" /\ requested[r])

Begins(r, k) == k = key'[r] /\ r \notin Scheduled /\ status'[k] = Running(r)
Finishes(r, k) ==
  /\ pc'[r] = "ended" /\ status'[k].run = r
  /\ Verdict(r, status'[k].state)

(* The status that a run which ends leaves is not that it runs, unless it  *)
(* is cancelled before its first step.                                     *)
Signs(r) ==
  pc'[r] = "ended" /\ r \notin Scheduled /\ ~(pc[r] = "created" /\ requested[r]) =>
    status'[key[r]].run # r \/ status'[key[r]].state # "running"

Writes(r) ==
  /\ pc[r] # "ended" /\ pc'[r] \in Suspended \cup {"ended"}
  /\ pc[r] # "new" => key'[r] = key[r]
  /\ \A q \in Runs \ {r} :
       pc'[q] = pc[q] /\ recorded'[q] = recorded[q] /\ key'[q] = key[q]
  /\ Kept(r)'
  /\ \A k \in Keys :
       \/ status'[k] = status[k]
       \/ Begins(r, k) /\ pc'[r] \in Suspended
       \/ Finishes(r, k)
  /\ Signs(r)

(* What a run knows of the status at its end.                              *)
Sees(r, seen) ==
  /\ seen \in StatusType
  /\ \A k \in Keys :
       \/ seen[k] = status[k]
       \/ k = key[r] /\ r \notin Scheduled /\ seen[k] = Running(r)

LEMMA PhaseSeen ==
  ASSUME TypeOK, NEW r \in Runs
  PROVE  Sees(r, status) /\ Sees(r, Phase(r, key[r]))
<1>1. key[r] \in Keys
  BY DEF TypeOK
<1>2. status \in StatusType /\ Phase(r, key[r]) \in StatusType
  BY <1>1, PhaseType
<1>3. \A k \in Keys : \/ Phase(r, key[r])[k] = status[k]
                      \/ /\ k = key[r] /\ r \notin Scheduled
                         /\ Phase(r, key[r])[k] = Running(r)
  BY <1>1 DEF Phase, TypeOK
<1> QED
  BY <1>2, <1>3 DEF Sees

(* The run r is at work, with its history as its phase says.               *)
AtWork(r) ==
  /\ TypeOK /\ pc[r] \in Suspended /\ Kept(r) /\ key' = key
  /\ \A q \in Runs \ {r} : recorded'[q] = recorded[q]

LEMMA PublishWrites ==
  ASSUME NEW r \in Runs, NEW seen, NEW final,
         AtWork(r), Sees(r, seen), Publish(r, seen, final), Verdict(r, final)
  PROVE  Writes(r)
<1>1. /\ pc' = [pc EXCEPT ![r] = "ended"] /\ key[r] \in Keys
      /\ pc \in [Runs -> Phases] /\ seen \in StatusType
  BY PublishEnds DEF AtWork, TypeOK, Phases, Sees
<1>2. /\ pc'[r] = "ended" /\ \A q \in Runs \ {r} : pc'[q] = pc[q]
      /\ pc[r] # "ended" /\ Kept(r)'
  BY <1>1 DEF AtWork, Suspended, Kept
<1>3. ASSUME NEW k \in Keys
      PROVE  \/ status'[k] = status[k]
             \/ Finishes(r, k)
  <2>1. CASE status'[k] = seen[k] /\ (r \in Scheduled \/ k # key[r] \/ seen[k].run # r)
    <3>1. seen[k] = Running(r) => seen[k].run = r
      BY DEF Running
    <3> QED
      BY <2>1, <3>1 DEF Sees
  <2>2. CASE r \notin Scheduled /\ k = key[r] /\ seen[k].run = r
    <3>1. status' = [seen EXCEPT ![key[r]].state = final]
      BY <2>2 DEF Publish
    <3>2. status'[k].run = r /\ status'[k].state = final
      BY <1>1, <2>2, <3>1 DEF StatusType
    <3> QED
      BY <1>2, <3>2 DEF Finishes
  <2>3. (r \in Scheduled \/ seen[key[r]].run # r) => status' = seen
    BY DEF Publish
  <2>4. k # key[r] => status'[k] = seen[k]
    BY <1>1 DEF Publish, StatusType
  <2> QED
    BY <2>1, <2>2, <2>3, <2>4
<1>4. Signs(r)
  <2>1. CASE seen[key[r]].run # r
    BY <2>1 DEF Publish, Signs
  <2>2. CASE seen[key[r]].run = r /\ r \notin Scheduled
    <3>1. status' = [seen EXCEPT ![key[r]].state = final]
      BY <2>2 DEF Publish
    <3>2. status'[key[r]].state = final /\ final # "running"
      BY <1>1, <3>1 DEF StatusType, Verdict, Finals, Outcomes
    <3> QED
      BY <3>2 DEF Signs
  <2> QED
    BY <2>1, <2>2 DEF Signs
<1> QED
  BY <1>2, <1>3, <1>4 DEF Writes, AtWork

LEMMA SuspendWrites ==
  ASSUME NEW r \in Runs, NEW seen, NEW phase \in Suspended,
         AtWork(r), Sees(r, seen), Kept(r)',
         pc' = [pc EXCEPT ![r] = phase], status' = seen
  PROVE  Writes(r)
<1>1. /\ pc'[r] = phase /\ \A q \in Runs \ {r} : pc'[q] = pc[q]
      /\ pc[r] # "ended" /\ phase # "ended"
  BY DEF AtWork, TypeOK, Suspended
<1> QED
  BY <1>1 DEF Writes, AtWork, Sees, Begins, Signs

LEMMA RecordWrites ==
  ASSUME NEW r \in Runs, NEW seen, NEW out \in Outcomes, NEW isCancelled,
         AtWork(r), Sees(r, seen), Record(r, seen, out, isCancelled),
         pc[r] # "notifying"
  PROVE  Writes(r)
<1>1. recorded \in [Runs -> {"none"} \cup Outcomes] /\ recorded[r] = "none"
  BY DEF AtWork, TypeOK, Kept
<1>2. CASE Close(r, seen, "cancelled") /\ UNCHANGED recorded
  <2>1. Verdict(r, "cancelled")
    BY <1>1, <1>2 DEF Verdict, Finals
  <2> QED
    BY <1>2, <2>1, PublishWrites DEF Close
<1>3. CASE recorded' = [recorded EXCEPT ![r] = out] /\ Close(r, seen, out)
  <2>1. Verdict(r, out)
    BY <1>1, <1>3 DEF Verdict, Finals, Outcomes
  <2> QED
    BY <1>3, <2>1, PublishWrites DEF Close
<1>4. CASE /\ recorded' = [recorded EXCEPT ![r] = out]
           /\ out = "succeeded" /\ Suspend(r, "notifying", seen)
  <2>1. pc' = [pc EXCEPT ![r] = "notifying"] /\ status' = seen
    BY <1>4 DEF Suspend
  <2>2. pc'[r] = "notifying" /\ recorded'[r] = "succeeded" /\ "notifying" \in Suspended
    BY <1>1, <1>4, <2>1 DEF AtWork, TypeOK, Suspended
  <2> QED
    BY <2>1, <2>2, SuspendWrites DEF Kept
<1> QED
  BY <1>2, <1>3, <1>4 DEF Record

LEMMA RecordOthers ==
  ASSUME NEW r \in Runs, NEW seen, NEW out \in Outcomes, NEW isCancelled,
         recorded \in [Runs -> {"none"} \cup Outcomes],
         Record(r, seen, out, isCancelled)
  PROVE  \A q \in Runs \ {r} : recorded'[q] = recorded[q]
BY DEF Record

LEMMA FinalizeWrites ==
  ASSUME NEW r \in Runs, NEW seen, NEW out \in Outcomes, NEW isCancelled,
         TypeOK, pc[r] \in Suspended, Kept(r), key' = key,
         Sees(r, seen), Finalize(r, seen, out, isCancelled), pc[r] # "notifying"
  PROVE  Writes(r)
<1>1. PICK verdict \in {out} \cup (IF out = "succeeded" THEN {"failed"} ELSE {}) :
        \/ Record(r, seen, verdict, isCancelled)
        \/ Suspend(r, "fetching", seen) /\ UNCHANGED recorded
  BY DEF Finalize
<1>2. verdict \in Outcomes /\ recorded \in [Runs -> {"none"} \cup Outcomes]
  BY DEF Outcomes, TypeOK
<1>3. CASE Record(r, seen, verdict, isCancelled)
  <2>1. AtWork(r)
    BY <1>2, <1>3, RecordOthers DEF AtWork
  <2> QED
    BY <1>2, <1>3, <2>1, RecordWrites
<1>4. CASE Suspend(r, "fetching", seen) /\ UNCHANGED recorded
  <2>1. AtWork(r) /\ pc' = [pc EXCEPT ![r] = "fetching"] /\ status' = seen
    BY <1>4 DEF AtWork, Suspend
  <2>2. "fetching" \in Suspended /\ Kept(r)'
    BY <1>4, <2>1 DEF Suspended, Kept, TypeOK
  <2> QED
    BY <2>1, <2>2, SuspendWrites
<1> QED
  BY <1>1, <1>3, <1>4

LEMMA StartWrites ==
  ASSUME NEW r \in Runs, TypeOK, Kept(r), Start(r) \/ Schedule(r)
  PROVE  Writes(r)
<1>1. /\ pc[r] = "new" /\ recorded[r] = "none" /\ name \in Keys
      /\ key' = [key EXCEPT ![r] = name] /\ key'[r] = name
      /\ \A q \in Runs \ {r} : key'[q] = key[q]
  BY DEF Start, Schedule, TypeOK, Kept
<1>2. CASE Start(r)
  <2>1. /\ pc'[r] = "created" /\ recorded' = recorded /\ r \notin Scheduled
        /\ \A q \in Runs \ {r} : pc'[q] = pc[q]
        /\ \A k \in Keys : status'[k] = IF k = name THEN Running(r) ELSE status[k]
    BY <1>2 DEF Start, TypeOK
  <2> QED
    BY <1>1, <2>1 DEF Writes, Kept, Begins, Signs, Suspended
<1>3. CASE Schedule(r)
  <2>1. /\ (pc'[r] = "checking" /\ recorded'[r] = recorded[r]) \/ pc'[r] = "ended"
        /\ status' = status /\ r \in Scheduled
        /\ \A q \in Runs \ {r} : pc'[q] = pc[q] /\ recorded'[q] = recorded[q]
    BY <1>3 DEF Schedule, TypeOK
  <2> QED
    BY <1>1, <2>1 DEF Writes, Kept, Signs, Suspended
<1> QED
  BY <1>2, <1>3

LEMMA BeginWrites ==
  ASSUME NEW r \in Runs, TypeOK, Kept(r), Begin(r)
  PROVE  Writes(r)
<1>1. /\ pc[r] = "created" /\ pc[r] \in Suspended /\ key' = key
      /\ recorded[r] = "none" /\ "failed" \in Outcomes
  BY DEF Begin, Suspended, Kept, Outcomes
<1>2. CASE active[key[r]]
  <2>1. Publish(r, status, "failed") /\ recorded' = recorded
    BY <1>2 DEF Begin
  <2>2. AtWork(r) /\ Verdict(r, "failed")
    BY <1>1, <2>1 DEF AtWork, Verdict, Finals
  <2> QED
    BY <2>1, <2>2, PhaseSeen, PublishWrites
<1>3. CASE Finalize(r, status, "failed", FALSE)
  BY <1>1, <1>3, PhaseSeen, FinalizeWrites
<1>4. CASE /\ pc' = [pc EXCEPT ![r] = "checking"] /\ status' = Phase(r, key[r])
           /\ UNCHANGED recorded
  <2>1. AtWork(r) /\ "checking" \in Suspended /\ Kept(r)'
    BY <1>1, <1>4 DEF AtWork, Suspended, Kept, TypeOK
  <2> QED
    BY <1>4, <2>1, PhaseSeen, SuspendWrites
<1> QED
  BY <1>2, <1>3, <1>4 DEF Begin, Execute

LEMMA StepWrites ==
  ASSUME NEW r \in Runs, TypeOK, Kept(r),
         \/ Checked(r) \/ Acquire(r) \/ WorkSucceeds(r) \/ WorkFails(r)
         \/ Settled(r) \/ Fetched(r) \/ Notified(r)
  PROVE  Writes(r)
<1>1. /\ pc[r] \in Suspended /\ key' = key
      /\ {"failed", "timeout", "succeeded"} \subseteq Outcomes
  BY DEF Checked, Acquire, WorkSucceeds, WorkFails, Settled, Fetched, Notified,
         Proceeds, Suspended, Outcomes
<1>2. ASSUME NEW to \in {"waiting", "running", "settling"},
             NEW seen \in {status, Phase(r, key[r])}, pc[r] # "notifying",
             pc' = [pc EXCEPT ![r] = to], status' = seen, UNCHANGED recorded
      PROVE  Writes(r)
  <2>1. AtWork(r) /\ to \in Suspended /\ Kept(r)'
    BY <1>1, <1>2 DEF AtWork, Suspended, Kept, TypeOK
  <2> QED
    BY <1>2, <2>1, PhaseSeen, SuspendWrites
<1>3. ASSUME NEW seen \in {status, Phase(r, key[r])}, NEW out \in Outcomes,
             pc[r] # "notifying", Finalize(r, seen, out, FALSE)
      PROVE  Writes(r)
  BY <1>1, <1>3, PhaseSeen, FinalizeWrites
<1>4. CASE Checked(r)
  BY <1>1, <1>2, <1>3, <1>4 DEF Checked, Proceeds
<1>5. CASE Acquire(r)
  BY <1>1, <1>2, <1>3, <1>5 DEF Acquire, Proceeds
<1>6. CASE WorkSucceeds(r)
  BY <1>2, <1>6 DEF WorkSucceeds, Proceeds, service
<1>7. CASE WorkFails(r)
  BY <1>1, <1>3, <1>7 DEF WorkFails, Proceeds
<1>8. CASE Settled(r)
  BY <1>1, <1>3, <1>8 DEF Settled, Proceeds
<1>9. CASE Fetched(r)
  <2>1. Record(r, status, "succeeded", cancelled[r]) /\ pc[r] # "notifying"
    BY <1>9 DEF Fetched, Proceeds
  <2>2. \A q \in Runs \ {r} : recorded'[q] = recorded[q]
    BY <1>1, <2>1, RecordOthers DEF TypeOK
  <2>3. AtWork(r)
    BY <1>1, <2>2 DEF AtWork
  <2> QED
    BY <1>1, <2>1, <2>3, PhaseSeen, RecordWrites
<1>10. CASE Notified(r)
  <2>1. /\ pc[r] = "notifying" /\ Publish(r, status, "succeeded")
        /\ recorded' = recorded
    BY <1>10 DEF Notified, Proceeds, Close
  <2>2. AtWork(r) /\ Verdict(r, "succeeded")
    BY <1>1, <2>1 DEF AtWork, Verdict, Finals, Kept
  <2> QED
    BY <2>1, <2>2, PhaseSeen, PublishWrites
<1> QED
  BY <1>4, <1>5, <1>6, <1>7, <1>8, <1>9, <1>10

LEMMA CancelWrites ==
  ASSUME NEW r \in Runs, TypeOK, Kept(r),
         CancelUnstarted(r) \/ CancelExecution(r) \/ CancelFinalize(r)
  PROVE  Writes(r)
<1>1. /\ requested[r] /\ key' = key /\ pc[r] \in Suspended
      /\ {"failed", "succeeded"} \subseteq Outcomes
  BY DEF CancelUnstarted, CancelExecution, CancelFinalize, Arrives, Suspended,
         Outcomes
<1>2. CASE CancelUnstarted(r)
  <2>1. /\ pc[r] = "created" /\ pc'[r] = "ended" /\ status' = status
        /\ recorded' = recorded /\ \A q \in Runs \ {r} : pc'[q] = pc[q]
    BY <1>2 DEF CancelUnstarted, service, TypeOK
  <2> QED
    BY <1>1, <2>1 DEF Writes, Kept, Signs, Suspended
<1>3. CASE CancelExecution(r)
  <2>1. PICK seen \in {status, Phase(r, key[r])}, out \in Outcomes :
          Finalize(r, seen, out, TRUE)
    BY <1>1, <1>3 DEF CancelExecution
  <2>2. pc[r] # "notifying"
    BY <1>3 DEF CancelExecution
  <2> QED
    BY <1>1, <2>1, <2>2, PhaseSeen, FinalizeWrites
<1>4. CASE CancelFinalize(r)
  <2>1. /\ Publish(r, status, "cancelled") /\ recorded' = recorded
        /\ pc[r] \in {"fetching", "notifying"}
    BY <1>4 DEF CancelFinalize
  <2>2. AtWork(r) /\ Verdict(r, "cancelled")
    BY <1>1, <2>1 DEF AtWork, Verdict, Finals, Kept, Suspended
  <2> QED
    BY <2>1, <2>2, PhaseSeen, PublishWrites
<1> QED
  BY <1>2, <1>3, <1>4

(* Every step of the specification is one of these, or leaves runs and     *)
(* history alone and at most moves, drops or keeps statuses.               *)
Housekeeps ==
  /\ UNCHANGED <<pc, recorded, key>>
  /\ \A k \in Keys : \/ status'[k] = NoStatus
                     \/ status'[k] = status[k]
                     \/ Rename /\ \E j \in Keys : status'[k] = status[j]

LEMMA EveryStep ==
  ASSUME TypeOK, \A r \in Runs : Kept(r), [Next]_vars
  PROVE  Housekeeps \/ \E r \in Runs : Writes(r)
<1>1. ASSUME NEW r \in Runs, Start(r) \/ Schedule(r) \/ RunStep(r) PROVE Writes(r)
  BY <1>1, StartWrites, BeginWrites, StepWrites, CancelWrites DEF RunStep
<1>2. ASSUME NEW r \in Runs, CancelRun(r) PROVE Housekeeps
  BY <1>2 DEF CancelRun, service, Housekeeps
<1>3. ASSUME NEW j \in Keys, StatusCleanup(j) \/ LogCleanup(j) PROVE Housekeeps
  BY <1>3 DEF StatusCleanup, LogCleanup, service, Housekeeps, TypeOK
<1>4. CASE Rename
  BY <1>4 DEF Rename, Moved, Housekeeps, Keys
<1>5. CASE UNCHANGED vars
  BY <1>5 DEF vars, service, Housekeeps
<1> QED
  BY <1>1, <1>2, <1>3, <1>4, <1>5 DEF Next

-----------------------------------------------------------------------------
(* A final status is that of a run that has ended, and the history of the  *)
(* runs is what their phases say.                                          *)
Told ==
  /\ TypeOK /\ \A r \in Runs : Kept(r)
  /\ \A k \in Keys :
       status[k].state \in Finals =>
         status[k].run \in Runs /\ pc[status[k].run] = "ended"
  /\ StatusMatchesHistory

LEMMA NotFinal ==
  "running" \notin Finals /\ "idle" \notin Finals /\ NoStatus.state \notin Finals
  /\ \A r \in Runs : Running(r).state \notin Finals
BY DEF Finals, Outcomes, NoStatus, Running

LEMMA ToldStep ==
  ASSUME Told, [Next]_vars
  PROVE  Told'
<1>1. TypeOK /\ TypeOK' /\ \A r \in Runs : Kept(r)
  BY TypeStep DEF Told
<1>2. CASE Housekeeps
  <2>1. \A r \in Runs : Kept(r)'
    BY <1>1, <1>2 DEF Housekeeps, Kept
  <2>2. ASSUME NEW k \in Keys, status'[k].state \in Finals
        PROVE  \E j \in Keys : status'[k] = status[j]
    BY <1>2, <2>2, NotFinal DEF Housekeeps
  <2>3. pc' = pc /\ recorded' = recorded
    BY <1>2 DEF Housekeeps
  <2>4. \A k \in Keys : status'[k].state \in Finals =>
          status'[k].run \in Runs /\ pc'[status'[k].run] = "ended"
    BY <2>2, <2>3 DEF Told
  <2>5. StatusMatchesHistory'
    BY <2>2, <2>3 DEF Told, StatusMatchesHistory, Finals, Outcomes
  <2> QED
    BY <1>1, <2>1, <2>4, <2>5 DEF Told
<1>3. ASSUME NEW r \in Runs, Writes(r) PROVE Told'
  <2>1. \A q \in Runs : Kept(q)'
    BY <1>1, <1>3 DEF Writes, Kept
  <2>2. ASSUME NEW k \in Keys, status'[k].state \in Finals
        PROVE  /\ status'[k].run \in Runs /\ pc'[status'[k].run] = "ended"
               /\ status'[k].state \in {"succeeded", "timeout"} =>
                    recorded'[status'[k].run] = status'[k].state
               /\ status'[k].state = "failed" =>
                    recorded'[status'[k].run] \in {"failed", "none"}
    <3>1. CASE status'[k] = status[k]
      <4>1. /\ status[k].run \in Runs /\ pc[status[k].run] = "ended"
            /\ status[k].state \in {"succeeded", "timeout"} =>
                 recorded[status[k].run] = status[k].state
            /\ status[k].state = "failed" =>
                 recorded[status[k].run] \in {"failed", "none"}
        BY <2>2, <3>1 DEF Told, StatusMatchesHistory
      <4>2. status[k].run \in Runs \ {r}
        BY <1>3, <4>1 DEF Writes
      <4> QED
        BY <1>3, <3>1, <4>1, <4>2 DEF Writes
    <3>2. CASE Finishes(r, k)
      BY <3>2 DEF Finishes, Verdict
    <3>3. ~Begins(r, k)
      BY <2>2, NotFinal DEF Begins
    <3> QED
      BY <1>3, <3>1, <3>2, <3>3 DEF Writes
  <2>3. StatusMatchesHistory'
    BY <2>2 DEF StatusMatchesHistory, Finals, Outcomes
  <2> QED
    BY <1>1, <2>1, <2>2, <2>3 DEF Told
<1> QED
  BY <1>1, <1>2, <1>3, EveryStep

LEMMA ToldInit == Init => Told
<1> SUFFICES ASSUME Init PROVE Told
  OBVIOUS
<1>1. TypeOK /\ \A r \in Runs : Kept(r)
  BY TypeInit DEF Init, Kept, Suspended
<1>2. \A k \in Keys : status[k] = NoStatus
  BY DEF Init
<1>3. NoStatus.state = "idle"
  BY DEF NoStatus
<1> QED
  BY <1>1, <1>2, <1>3, NotFinal DEF Told, StatusMatchesHistory, Finals, Outcomes

LEMMA ToldAlways == Spec => []Told
BY ToldInit, ToldStep, PTL DEF Spec

(* What a client reads as the end of a run (runner() in sign_tasks.py) is  *)
(* what the history got (_runner_finalize), wherever runs are cancelled    *)
(* and when the account is renamed.                                        *)
THEOREM HistoryAgrees == Spec => []StatusMatchesHistory
<1>1. Told => StatusMatchesHistory
  BY DEF Told
<1> QED
  BY <1>1, ToldAlways, PTL

-----------------------------------------------------------------------------
(* A cancellation that was asked for in an allowed phase does not arrive   *)
(* in another one.                                                         *)
LEMMA AskedStep ==
  ASSUME Told, Asked, [Next]_vars
  PROVE  Asked'
<1>1. /\ requested \in [Runs -> BOOLEAN] /\ CancelAt \subseteq Suspended
      /\ pc \in [Runs -> {"new", "ended"} \cup Suspended]
  BY RunAssumption DEF Told, TypeOK
<1>2. ASSUME NEW r \in Runs, requested'[r] = FALSE,
             \A q \in Runs \ {r} : requested'[q] = requested[q] /\ pc'[q] = pc[q]
      PROVE  Asked'
  BY <1>2 DEF Asked
<1>3. ASSUME NEW r \in Runs, Start(r) \/ Schedule(r) PROVE Asked'
  <2>1. ~requested[r] /\ requested' = requested
    BY <1>1, <1>3 DEF Start, Schedule, Asked, Suspended
  <2>2. \A q \in Runs \ {r} : pc'[q] = pc[q]
    BY <1>1, <1>3 DEF Start, Schedule
  <2> QED
    BY <1>1, <1>2, <2>1, <2>2
<1>4. ASSUME NEW r \in Runs, RunStep(r) PROVE Asked'
  <2>1. requested'[r] = FALSE /\ \A q \in Runs \ {r} : requested'[q] = requested[q]
    BY <1>1, <1>4
    DEF RunStep, Begin, Checked, Acquire, WorkSucceeds, WorkFails, Settled, Fetched,
        Notified, Proceeds, CancelUnstarted, CancelExecution, CancelFinalize, Arrives
  <2>2. \A q \in Runs \ {r} : pc'[q] = pc[q]
    BY <1>4, BeginWrites, StepWrites, CancelWrites DEF RunStep, Told, Writes
  <2> QED
    BY <1>2, <2>1, <2>2
<1>5. ASSUME NEW r \in Runs, CancelRun(r) PROVE Asked'
  BY <1>1, <1>5 DEF CancelRun, Asked
<1>6. ASSUME NEW k \in Keys, StatusCleanup(k) \/ LogCleanup(k) PROVE Asked'
  BY <1>6 DEF StatusCleanup, LogCleanup, Asked
<1>7. CASE Rename \/ UNCHANGED vars
  BY <1>7 DEF Rename, vars, Asked
<1> QED
  BY <1>1, <1>3, <1>4, <1>5, <1>6, <1>7 DEF Next

LEMMA AskedInit == Init => Asked
BY DEF Init, Asked

LEMMA CleanStep ==
  ASSUME Told, Asked, "notifying" \notin CancelAt, CancelledLeavesNoHistory,
         [Next]_vars
  PROVE  CancelledLeavesNoHistory'
<1>1. \A r \in Runs : Kept(r)
  BY DEF Told
<1>2. "cancelled" \in Finals
  BY DEF Finals
<1>3. CASE Housekeeps
  <2>1. ASSUME NEW k \in Keys, status'[k].state = "cancelled"
        PROVE  recorded'[status'[k].run] = "none"
    BY <1>2, <1>3, <2>1, NotFinal DEF Housekeeps, CancelledLeavesNoHistory
  <2> QED
    BY <2>1 DEF CancelledLeavesNoHistory
<1>4. ASSUME NEW r \in Runs, Writes(r) PROVE CancelledLeavesNoHistory'
  <2>1. ASSUME NEW k \in Keys, status'[k].state = "cancelled"
        PROVE  recorded'[status'[k].run] = "none"
    <3>1. CASE status'[k] = status[k]
      <4>1. /\ recorded[status[k].run] = "none"
            /\ status[k].run \in Runs /\ pc[status[k].run] = "ended"
        BY <1>2, <2>1, <3>1 DEF Told, CancelledLeavesNoHistory
      <4> QED
        BY <1>4, <3>1, <4>1 DEF Writes
    <3>2. CASE Finishes(r, k)
      <4>1. ~(pc[r] = "notifying" /\ requested[r])
        BY DEF Asked
      <4> QED
        BY <2>1, <3>2, <4>1 DEF Finishes, Verdict
    <3>3. ~Begins(r, k)
      BY <1>2, <2>1, NotFinal DEF Begins
    <3> QED
      BY <1>4, <3>1, <3>2, <3>3 DEF Writes
  <2> QED
    BY <2>1 DEF CancelledLeavesNoHistory
<1> QED
  BY <1>1, <1>3, <1>4, EveryStep DEF Told

(* A run whose status says cancelled has no entry in the history           *)
(* (sign_task_runner.py, _runner_finalize), if nobody is cancelled while   *)
(* the notification is sent.                                               *)
THEOREM CancelledIsClean ==
  ASSUME "notifying" \notin CancelAt
  PROVE  Spec => []CancelledLeavesNoHistory
<1> DEFINE I == Told /\ Asked /\ CancelledLeavesNoHistory
<1>1. Init => I
  BY ToldInit, AskedInit, NotFinal
  DEF Init, CancelledLeavesNoHistory, NoStatus
<1>2. I /\ [Next]_vars => I'
  BY ToldStep, AskedStep, CleanStep DEF Told
<1>3. I => CancelledLeavesNoHistory
  OBVIOUS
<1> HIDE DEF I
<1> QED
  BY <1>1, <1>2, <1>3, PTL DEF Spec

-----------------------------------------------------------------------------
(* A run that is shown as running has started and not ended, under its key.*)
ShownTo ==
  \A k \in Keys :
    status[k].state = "running" =>
      /\ status[k].run \in Runs \ Scheduled
      /\ pc[status[k].run] \in Suspended /\ key[status[k].run] = k

LEMMA ShownStep ==
  ASSUME ~Renames, "created" \notin CancelAt, Told, Asked, ShownTo, [Next]_vars
  PROVE  ShownTo'
<1>1. /\ \A r \in Runs : Kept(r)
      /\ TypeOK /\ NoStatus.state # "running" /\ "running" \notin Finals
  BY NotFinal DEF Told, NoStatus
<1>2. CASE Housekeeps
  <2>1. ~Rename
    BY DEF Rename
  <2> QED
    BY <1>1, <1>2, <2>1 DEF Housekeeps, ShownTo
<1>3. ASSUME NEW r \in Runs, Writes(r) PROVE ShownTo'
  <2>1. ASSUME NEW k \in Keys, status'[k].state = "running"
        PROVE  /\ status'[k].run \in Runs \ Scheduled
               /\ pc'[status'[k].run] \in Suspended /\ key'[status'[k].run] = k
    <3>1. CASE status'[k] = status[k]
      <4>1. /\ status[k].run \in Runs \ Scheduled
            /\ pc[status[k].run] \in Suspended /\ key[status[k].run] = k
        BY <2>1, <3>1 DEF ShownTo
      <4>2. CASE status[k].run # r
        BY <1>3, <3>1, <4>1, <4>2 DEF Writes
      <4>3. CASE status[k].run = r
        <5>1. pc[r] # "new" /\ ~(pc[r] = "created" /\ requested[r])
          BY <4>1, <4>3 DEF Asked, Suspended
        <5>2. pc'[r] # "ended"
          BY <1>3, <2>1, <3>1, <4>1, <4>3, <5>1 DEF Writes, Signs
        <5> QED
          BY <1>3, <3>1, <4>1, <4>3, <5>1, <5>2 DEF Writes
      <4> QED
        BY <4>2, <4>3
    <3>2. CASE Begins(r, k) /\ pc'[r] \in Suspended
      BY <3>2 DEF Begins, Running
    <3>3. ~Finishes(r, k)
      BY <1>1, <2>1 DEF Finishes, Verdict
    <3> QED
      BY <1>3, <3>1, <3>2, <3>3 DEF Writes
  <2> QED
    BY <2>1 DEF ShownTo
<1> QED
  BY <1>1, <1>2, <1>3, EveryStep DEF Told

(* The status a client polls is that of the run that executes, and no      *)
(* ended run is reported as running, as long as the account keeps its name *)
(* and runs are cancelled between their first step and _runner_finalize.   *)
THEOREM StatusTells ==
  ASSUME ~Renames, CancelAt \cap {"created", "fetching", "notifying"} = {}
  PROVE  Spec => []StatusTellsTheRun
<1> DEFINE I == Told /\ Asked /\ ShownTo
<1>1. Init => I
  BY ToldInit, AskedInit DEF Init, ShownTo, NoStatus
<1>2. I /\ [Next]_vars => I'
  BY ToldStep, AskedStep, ShownStep DEF Told
<1>3. I => NoGhostRunning
  BY DEF ShownTo, NoGhostRunning, Suspended
<1>4. Spec => []StatusFollowsRun
  BY StatusFollows
<1> HIDE DEF I
<1>5. Spec => []I
  BY <1>1, <1>2, PTL DEF Spec
<1> QED
  BY <1>3, <1>4, <1>5, PTL DEF StatusTellsTheRun

-----------------------------------------------------------------------------
(***************************************************************************)
(* SignEngine, for any script, any history, any length of the window and   *)
(* any number of attempts, posts and edits: a step is not done twice when  *)
(* retries do not go back, a completed flow has done all of its steps, and *)
(* one that stops early has been told that the sign succeeded.             *)
(*                                                                         *)
(* Each step of the specification is of one of a few kinds; what the       *)
(* invariant needs is proved once of each kind.                            *)
(***************************************************************************)

(* Proofs about SignEngine, for any script, any history, any length of the *)
(* window and any number of attempts, posts and edits: a step is not done  *)
(* twice when retries do not go back, a completed flow has done all of its *)
(* steps, and one that stops early has been told that the sign succeeded.  *)
(*                                                                         *)
(* Each step of the specification is of one of a few kinds; what the       *)
(* invariant needs is proved once of each kind.                            *)
(***************************************************************************)

(* The shape of the state.                                                 *)
Message == [id : Nat, ver : Nat, text : Texts]
Entry == [id : Nat, ver : Nat, text : Texts \cup {"none"}]
BotState == [posts : Nat, edits : Nat, prompted : Nat, reacted : BOOLEAN, told : BOOLEAN]
Fields == {"pc", "step", "tries", "attempt", "done", "before", "last", "rest", "target",
           "cached", "confirmed", "callback"}
Working == {"step", "sending", "sent", "clicking", "following", "reading", "replied"}
Compared == {"sending", "sent", "clicking", "following"}

Formed ==
  /\ flow = [x \in Fields |-> flow[x]]
  /\ flow.pc \in Working \cup {"preheat", "pause", "failed", "completed", "stopped"}
  /\ flow.attempt \in 1..MaxAttempts /\ flow.tries \in 1..2
  /\ flow.confirmed \in BOOLEAN /\ flow.callback \in BOOLEAN

Shape ==
  /\ script \in Scripts /\ terms \in Conditions
  /\ talk \in Seq(Message) /\ feed \in Seq(Message) /\ cache \in Seq(Entry)
  /\ Formed
  /\ flow.step \in Steps /\ flow.done \in 0..Len(script)
  /\ effects \in [Steps -> Nat] /\ answered \subseteq Steps
  /\ bot \in BotState

(* The chat numbers its messages, and the cache has a place for each.      *)
Numbered ==
  /\ \A i \in DOMAIN talk : talk[i].id = i
  /\ \A i, j \in DOMAIN cache : cache[i].id = cache[j].id => i = j

(* Telegram has confirmed the step, and the flow has not ended it yet.     *)
IsConfirmed == flow.pc \in {"sent", "replied"} \/ (flow.pc = "following" /\ flow.confirmed)

(* Where the flow may be, for the steps that are done.                     *)
Paced ==
  /\ flow.pc = "pause" => flow.attempt < MaxAttempts
  /\ flow.pc \notin {"completed", "stopped"} => flow.done < Len(script)
  /\ flow.pc = "completed" => flow.done = Len(script)
  /\ flow.pc = "preheat" => flow.done = 0
  /\ flow.pc \in Working /\ terms.backoff = 0 => flow.step = flow.done + 1

(* Without going back, only a step that is done or ends has an effect.     *)
Once ==
  terms.backoff = 0 =>
    \A s \in Steps :
      /\ effects[s] <= 1
      /\ effects[s] = 1 => s <= flow.done \/ (s = flow.step /\ IsConfirmed)

(* The steps behind the flow are done, or the bot reacted to them.         *)
Did(s) == effects[s] > 0 \/ s \in answered
Covered ==
  ~terms.unreadable =>
    /\ flow.pc # "stopped" => \A s \in Steps : s <= flow.done => Did(s)
    /\ flow.pc \in Working => \A s \in Steps : s < flow.step => Did(s)
    /\ IsConfirmed => effects[flow.step] > 0

(* As long as the bot has not reacted, the snapshot still describes the    *)
(* chat: this is what makes a change between the two a reaction.           *)
Seen ==
  flow.pc \in Compared /\ ~terms.unreadable /\ ~bot.reacted => Over(Recent) \subseteq flow.before

(* Until the bot says that the sign succeeded, success stands only in old  *)
(* messages, which the cache never gets and the snapshot has.              *)
OldSuccess ==
  ~bot.told =>
    /\ \A i \in DOMAIN feed : feed[i].text # "success"
    /\ \A i \in DOMAIN cache : cache[i].text # "success"
    /\ flow.pc \in Compared /\ ~terms.unreadable =>
         \A m \in Recent : m.text = "success" => m \in flow.before
    /\ flow.pc = "following" => ~flow.callback

-----------------------------------------------------------------------------
(* The kinds of steps: the bot talks, the flow looks at the chat, moves    *)
(* without an effect, has its step confirmed, begins an attempt, or ends a *)
(* step; the handler of updates is a kind of its own.                      *)
SameProgress ==
  flow'.step = flow.step /\ flow'.done = flow.done /\ flow'.attempt = flow.attempt

Talked(m) ==
  /\ m \in Message /\ m.id \in 1..(Len(talk) + 1)
  /\ talk' = IF m.id \in DOMAIN talk THEN [talk EXCEPT ![m.id] = m] ELSE Append(talk, m)
  /\ feed' = Append(feed, m)
  /\ bot' \in BotState /\ bot'.reacted = TRUE
  /\ bot'.told <=> bot.told \/ m.text = "success"
  /\ UNCHANGED <<script, terms, cache, flow, effects, answered>>

Looked ==
  /\ flow.pc = "step" /\ flow'.pc \in {"sending", "clicking"} /\ SameProgress
  /\ flow'.before \in Snapshots
  /\ bot' = [bot EXCEPT !.reacted = FALSE]
  /\ UNCHANGED <<script, terms, talk, feed, cache, effects, answered>>

EngineMoved ==
  /\ SameProgress /\ ~IsConfirmed /\ flow.pc \in Working \cup {"preheat"}
  /\ \/ /\ flow.pc = "clicking" /\ flow'.pc = "following"
        /\ ~flow'.confirmed /\ ~flow'.callback /\ flow'.before = flow.before
     \/ flow.pc \in Working /\ flow'.pc \in {"step", "reading"}
     \/ flow.pc \in Working /\ flow'.pc = "pause" /\ flow.attempt < MaxAttempts
     \/ flow'.pc = "failed"
  /\ UNCHANGED <<script, terms, talk, feed, cache, effects, answered, bot>>

Confirmed ==
  /\ SameProgress /\ flow'.before = flow.before
  /\ \/ flow.pc = "sending" /\ flow'.pc = "sent" /\ bot' = bot
     \/ flow.pc = "reading" /\ flow'.pc = "replied" /\ bot' = bot
     \/ /\ flow.pc = "clicking" /\ flow'.pc = "following" /\ flow'.confirmed
        /\ bot' = [bot EXCEPT !.told = @ \/ flow'.callback]
  /\ Confirms
  /\ UNCHANGED <<script, terms, talk, feed, cache, answered>>

Attempted ==
  /\ \/ flow.pc = "preheat" /\ flow'.step = 1
     \/ flow.pc = "pause" /\ flow'.step = FirstStep
  /\ flow'.pc = "step" /\ flow'.done = flow.done
  /\ cache' \in {<<>>, cache}
  /\ UNCHANGED <<script, terms, talk, feed, effects, answered, bot>>

Ended ==
  /\ flow.pc \in {"sent", "replied", "following"} /\ flow'.done = flow.step
  /\ \/ /\ flow'.pc = "stopped" /\ flow'.step = flow.step
        /\ \/ flow.pc = "following" /\ flow.callback
           \/ flow.pc \in {"sent", "following"} /\ Announced
     \/ flow'.pc = "completed" /\ flow.step = Len(script) /\ flow'.step = flow.step
     \/ flow'.pc = "step" /\ flow.step # Len(script) /\ flow'.step = flow.step + 1
  /\ cache' \in {cache, With(None(flow.target.id), flow.target.id)}
  /\ answered' \in {answered, answered \cup {flow.step}}
  /\ flow'.pc # "stopped" =>
       \/ IsConfirmed
       \/ /\ flow.pc = "following" /\ Credits
          /\ \E texts \in SUBSET Texts : Changed(texts)
  /\ UNCHANGED <<script, terms, talk, feed, effects, bot>>

Kinds ==
  \/ \E m \in Message : Talked(m)
  \/ HandlerGets
  \/ Formed' /\ (Looked \/ EngineMoved \/ Confirmed \/ Attempted \/ Ended)

(* The types of the script and of the constants, for the provers.          *)
LEMMA ScriptFacts ==
  ASSUME Shape
  PROVE  /\ script \in Seq({"send", "click", "reply"}) /\ Len(script) \in Nat \ {0}
         /\ Steps = 1..Len(script) /\ terms.backoff \in Nat /\ terms.unreadable \in BOOLEAN
         /\ Lookback \in Nat /\ MaxAttempts \in Nat \ {0}
BY EngineAssumption DEF Shape, Steps

(* What a reaction changes of the bot's state.                             *)
LEMMA BotChanges ==
  \A b \in BotState, p, e, q \in Nat, s \in BOOLEAN :
    LET c == [b EXCEPT !.posts = p, !.edits = e, !.prompted = q, !.reacted = TRUE,
                       !.told = s]
    IN  c \in BotState /\ c.reacted = TRUE /\ (c.told <=> s)
BY DEF BotState

(* A message or an edit, whoever says it, is a step of the kind Talked.    *)
LEMMA Speaks ==
  ASSUME Shape, NEW m \in Message, m.id \in 1..(Len(talk) + 1), NEW q \in Nat, Says(m, q)
  PROVE  Talked(m)
<1>1. bot' \in BotState /\ bot'.reacted = TRUE /\ (bot'.told <=> bot.told \/ m.text = "success")
  <2> DEFINE p == IF m.ver = 1 THEN bot.posts + 1 ELSE bot.posts
             e == IF m.ver = 1 THEN bot.edits ELSE bot.edits + 1
             s == bot.told \/ m.text = "success"
  <2>1. p \in Nat /\ e \in Nat /\ s \in BOOLEAN /\ bot \in BotState
    BY DEF Shape, BotState
  <2>2. bot' = [bot EXCEPT !.posts = p, !.edits = e, !.prompted = q, !.reacted = TRUE, !.told = s]
    BY DEF Says
  <2> HIDE DEF p, e, s
  <2>3. bot' \in BotState /\ bot'.reacted = TRUE /\ (bot'.told <=> s)
    BY <2>1, <2>2, BotChanges
  <2> QED BY <2>3 DEF s
<1> QED BY <1>1 DEF Says, Talked

(* Both bots post and edit messages that the chat numbers.                 *)
LEMMA BotSpeaks ==
  ASSUME Shape, Numbered, BotTalks \/ BotHelps
  PROVE  \E m \in Message : Talked(m)
<1>1. ASSUME NEW t \in Texts
      PROVE  New(t) \in Message /\ New(t).id \in 1..(Len(talk) + 1)
  BY <1>1 DEF New, Message, Shape
<1>2. ASSUME NEW t \in Texts, NEW i \in DOMAIN talk
      PROVE  Edited(i, t) \in Message /\ Edited(i, t).id \in 1..(Len(talk) + 1)
  <2>1. talk[i] \in Message /\ i \in 1..Len(talk) BY DEF Shape
  <2> QED BY <2>1 DEF Edited, Message
<1>3. CASE BotTalks
  <2>1. bot.prompted \in Nat BY DEF Shape, BotState
  <2>2. PICK t \in Texts :
          \/ Says(New(t), bot.prompted)
          \/ \E i \in DOMAIN talk : Says(Edited(i, t), bot.prompted)
    BY <1>3 DEF BotTalks
  <2> QED BY <1>1, <1>2, <2>1, <2>2, Speaks
<1>4. CASE BotHelps
  <2>1. PICK s \in Steps \ {1} :
          /\ script[s] # "send"
          /\ \/ Says(New(Prompt[script[s]]), s)
             \/ talk # <<>> /\ Says(Edited(Len(talk), Prompt[script[s]]), s)
    BY <1>4 DEF BotHelps, OwesPrompt
  <2>2. s \in Nat /\ script[s] \in {"send", "click", "reply"}
    BY <2>1, ScriptFacts
  <2>3. Prompt[script[s]] \in Texts
    <3>1. CASE script[s] = "click" BY <3>1 DEF Prompt, Texts
    <3>2. CASE script[s] = "reply" BY <3>2 DEF Prompt, Texts
    <3> QED BY <2>1, <2>2, <3>1, <3>2
  <2>4. talk # <<>> => Len(talk) \in DOMAIN talk
    BY DEF Shape
  <2> QED BY <1>1, <1>2, <2>1, <2>2, <2>3, <2>4, Speaks
<1> QED BY <1>3, <1>4

(* What the beginning of an attempt changes.                               *)
LEMMA AttemptBegins ==
  ASSUME Shape, NEW a \in 1..MaxAttempts, NEW first, BeginsAttempt(a, first)
  PROVE  /\ Formed' /\ flow'.pc = "step" /\ flow'.step = first /\ flow'.done = flow.done
         /\ cache' \in {<<>>, cache}
         /\ UNCHANGED <<script, terms, talk, feed, effects, answered, bot>>
<1>1. flow' = [flow EXCEPT !.pc = "step", !.attempt = a, !.step = first, !.tries = 1,
                           !.last = NoMessage]
  BY DEF BeginsAttempt, Budge
<1>2. Formed BY DEF Shape
<1>3. flow' = [x \in Fields |-> flow'[x]]
  BY <1>1, <1>2 DEF Formed
<1>4. Formed' /\ flow'.pc = "step" /\ flow'.step = first /\ flow'.done = flow.done
  BY <1>1, <1>2, <1>3 DEF Formed, Fields, Working
<1> QED BY <1>4 DEF BeginsAttempt, Budge

(* A step that is done completes the flow, or the next one follows.        *)
LEMMA StepEnds ==
  ASSUME Shape, StepDone
  PROVE  /\ Formed' /\ flow'.done = flow.step
         /\ \/ flow'.pc = "completed" /\ flow.step = Len(script) /\ flow'.step = flow.step
            \/ flow'.pc = "step" /\ flow.step # Len(script) /\ flow'.step = flow.step + 1
         /\ UNCHANGED <<script, terms, talk, feed, effects, bot>>
<1>1. Formed BY DEF Shape
<1>2. CASE flow.step = Len(script)
  <2>1. flow' = [flow EXCEPT !.pc = "completed", !.done = flow.step]
    BY <1>2 DEF StepDone, Budge
  <2>2. flow' = [x \in Fields |-> flow'[x]]
    BY <1>1, <2>1 DEF Formed
  <2>3. Formed' /\ flow'.done = flow.step /\ flow'.pc = "completed" /\ flow'.step = flow.step
    BY <1>1, <2>1, <2>2 DEF Formed, Fields, Working
  <2> QED BY <1>2, <2>3 DEF StepDone, Budge
<1>3. CASE flow.step # Len(script)
  <2>1. flow' = [flow EXCEPT !.pc = "step", !.done = flow.step, !.step = flow.step + 1,
                             !.tries = 1, !.last = NoMessage]
    BY <1>1, <1>3 DEF StepDone, Budge, Formed, Fields
  <2>2. flow' = [x \in Fields |-> flow'[x]]
    BY <1>1, <2>1 DEF Formed
  <2>3. Formed' /\ flow'.done = flow.step /\ flow'.pc = "step" /\ flow'.step = flow.step + 1
    BY <1>1, <2>1, <2>2 DEF Formed, Fields, Working
  <2> QED BY <1>3, <2>3 DEF StepDone, Budge
<1> QED BY <1>2, <1>3

(* Every action of the engine is of one of the kinds.                      *)
LEMMA EngineKinds ==
  ASSUME Shape, Paced, EngineStep
  PROVE  Formed' /\ (Looked \/ EngineMoved \/ Confirmed \/ Attempted \/ Ended)
<1> USE ScriptFacts DEF Shape, Formed, Fields, Working, At, SameProgress
<1>1. ASSUME Preheats PROVE Formed' /\ Attempted
  <2>1. BeginsAttempt(1, 1) /\ flow.pc = "preheat" /\ 1 \in 1..MaxAttempts
    BY <1>1 DEF Preheats
  <2>2. /\ Formed' /\ flow'.pc = "step" /\ flow'.step = 1 /\ flow'.done = flow.done
        /\ cache' \in {<<>>, cache}
        /\ UNCHANGED <<script, terms, talk, feed, effects, answered, bot>>
    BY <2>1, AttemptBegins
  <2>3. Attempted BY <2>1, <2>2 DEF Attempted
  <2> QED BY <2>2, <2>3
<1>2. ASSUME PreheatFails PROVE Formed' /\ EngineMoved
  BY <1>2 DEF PreheatFails, Budge, EngineMoved, IsConfirmed
<1>3. ASSUME Retries PROVE Formed' /\ Attempted
  <2>1. flow.attempt + 1 \in 1..MaxAttempts
    BY <1>3 DEF Retries, Paced
  <2>2. \E a \in 1..MaxAttempts : \E first \in {FirstStep} : BeginsAttempt(a, first)
    BY <1>3, <2>1 DEF Retries
  <2>3. PICK a \in 1..MaxAttempts : \E first \in {FirstStep} : BeginsAttempt(a, first)
    BY <2>2
  <2>4. PICK first \in {FirstStep} : BeginsAttempt(a, first)
    BY <2>3
  <2>5. /\ Formed' /\ flow'.pc = "step" /\ flow'.step = first /\ flow'.done = flow.done
        /\ cache' \in {<<>>, cache}
        /\ UNCHANGED <<script, terms, talk, feed, effects, answered, bot>>
    BY <2>4, AttemptBegins
  <2>6. flow.pc = "pause" BY <1>3 DEF Retries
  <2>7. flow'.step = FirstStep BY <2>4, <2>5
  <2>8. Attempted BY <2>5, <2>6, <2>7 DEF Attempted
  <2> QED BY <2>5, <2>8
<1>4. ASSUME Fails, ~IsConfirmed, flow.pc \in Working PROVE Formed' /\ EngineMoved
  BY <1>4 DEF Fails, AttemptFails, Budge, EngineMoved
<1>5. ASSUME Raises, ~IsConfirmed, flow.pc \in Working PROVE Formed' /\ EngineMoved
  <2>1. CASE Budge(AttemptFails) /\ UNCHANGED <<cache, answered>>
    BY <1>4, <1>5, <2>1 DEF Fails
  <2>2. CASE flow' = [flow EXCEPT !.pc = "step", !.tries = 2, !.last = NoMessage]
    <3>1. flow' = [x \in Fields |-> flow'[x]]
      BY <2>2
    <3>2. Formed' /\ flow'.pc = "step" /\ SameProgress
      BY <2>2, <3>1
    <3> QED BY <1>5, <3>2 DEF Raises, Budge, EngineMoved
  <2> QED BY <1>5, <2>1, <2>2 DEF Raises, Budge
<1>6. ASSUME SendLooks PROVE Formed' /\ Looked
  BY <1>6 DEF SendLooks, TakesSnapshot, Looked
<1>7. ASSUME Sends PROVE Formed' /\ Confirmed
  BY <1>7 DEF Sends, Confirmed
<1>8. ASSUME SendRaises PROVE Formed' /\ EngineMoved
  BY <1>5, <1>8 DEF SendRaises, IsConfirmed
<1>9. ASSUME SendIsEnough PROVE Formed' /\ Ended
  BY <1>9 DEF SendIsEnough, Stops, Budge, Ended
<1>10. ASSUME SendIsDone PROVE Formed' /\ Ended
  BY <1>10, StepEnds DEF SendIsDone, Ended, IsConfirmed
<1>11. ASSUME FindsCached \/ FindsInHistory PROVE Formed' /\ Looked
  BY <1>11 DEF FindsCached, FindsInHistory, Finds, TakesSnapshot, Looked
<1>12. ASSUME FindsNone PROVE Formed' /\ EngineMoved
  BY <1>4, <1>12 DEF FindsNone, IsConfirmed
<1>13. ASSUME ClickConfirmed PROVE Formed' /\ Confirmed
  <2>1. PICK said \in BOOLEAN :
          /\ flow' = [flow EXCEPT !.pc = "following", !.confirmed = TRUE, !.callback = said]
          /\ bot' = [bot EXCEPT !.told = @ \/ said]
    BY <1>13 DEF ClickConfirmed
  <2>2. flow' = [x \in Fields |-> flow'[x]]
    BY <2>1
  <2>3. /\ Formed' /\ SameProgress /\ flow'.before = flow.before
        /\ flow'.pc = "following" /\ flow'.confirmed /\ flow'.callback = said
    BY <2>1, <2>2
  <2>4. bot' = [bot EXCEPT !.told = bot.told \/ flow'.callback]
    BY <2>1, <2>3
  <2>5. flow.pc = "clicking" /\ Confirms /\ UNCHANGED <<script, terms, talk, feed, cache, answered>>
    BY <1>13 DEF ClickConfirmed
  <2> QED BY <2>3, <2>4, <2>5 DEF Confirmed
<1>14. ASSUME ClickUnconfirmed PROVE Formed' /\ EngineMoved
  BY <1>14 DEF ClickUnconfirmed, Budge, EngineMoved, IsConfirmed
<1>15. ASSUME ClickRaises PROVE Formed' /\ EngineMoved
  <2>1. CASE flow.cached
    BY <1>5, <1>15, <2>1 DEF ClickRaises, IsConfirmed
  <2>2. CASE ~flow.cached
    BY <1>15, <2>2 DEF ClickRaises, IsConfirmed, Budge, EngineMoved
  <2> QED BY <2>1, <2>2
<1>16. ASSUME FollowSucceeds PROVE Formed' /\ Ended
  BY <1>16 DEF FollowSucceeds, Stops, Settles, Marks, Credits, Budge, Ended
<1>17. ASSUME FollowGoesOn PROVE Formed' /\ Ended
  <2>1. \E texts \in SUBSET Texts : Changed(texts)
    BY <1>17 DEF FollowGoesOn, Supports, Texts, Final, Steps
  <2> QED BY <1>17, <2>1, StepEnds DEF FollowGoesOn, Settles, Marks, Credits, Ended
<1>18. ASSUME FollowEnds PROVE Formed' /\ (Ended \/ EngineMoved)
  <2>1. CASE flow.confirmed
    BY <1>18, <2>1, StepEnds DEF FollowEnds, Settles, Marks, Ended, IsConfirmed
  <2>2. CASE ~flow.confirmed
    BY <1>4, <1>18, <2>2 DEF FollowEnds, IsConfirmed
  <2> QED BY <2>1, <2>2
<1>19. ASSUME LastClickEnds PROVE Formed' /\ (Ended \/ EngineMoved)
  <2>1. Announced => \E texts \in SUBSET Texts : Changed(texts)
    BY DEF Announced, Texts
  <2>2. CASE (flow.confirmed \/ Announced) /\ StepDone /\ Settles /\ Credits
    BY <1>19, <2>1, <2>2, StepEnds DEF LastClickEnds, Settles, Marks, Credits, Ended, IsConfirmed
  <2>3. CASE ~flow.confirmed /\ Fails
    BY <1>4, <1>19, <2>3 DEF LastClickEnds, IsConfirmed
  <2> QED BY <1>19, <2>2, <2>3 DEF LastClickEnds
<1>20. ASSUME Notices PROVE Formed' /\ EngineMoved
  BY <1>20 DEF Notices, Budge, EngineMoved, IsConfirmed
<1>21. ASSUME Answers PROVE Formed' /\ Confirmed
  BY <1>21 DEF Answers, Confirmed
<1>22. ASSUME Replied PROVE Formed' /\ Ended
  BY <1>22, StepEnds DEF Replied, Marks, Ended, IsConfirmed
<1>23. ASSUME AnswersNot \/ AnswerRaises PROVE Formed' /\ EngineMoved
  BY <1>4, <1>5, <1>23 DEF AnswersNot, AnswerRaises, Budge, EngineMoved, IsConfirmed
<1>24. ASSUME LooksBack PROVE Formed' /\ EngineMoved
  BY <1>4, <1>24 DEF LooksBack, Budge, EngineMoved, IsConfirmed
<1> QED
  BY <1>1, <1>2, <1>3, <1>6, <1>7, <1>8, <1>9, <1>10, <1>11, <1>12, <1>13, <1>14, <1>15,
     <1>16, <1>17, <1>18, <1>19, <1>20, <1>21, <1>22, <1>23, <1>24 DEF EngineStep

-----------------------------------------------------------------------------
(* With replaces the entries of one message.                               *)
LEMMA Replaced ==
  ASSUME Shape
  PROVE  \A m, id :
           /\ DOMAIN With(m, id) = DOMAIN cache
           /\ \A i \in DOMAIN cache :
                With(m, id)[i] = IF cache[i].id = id THEN m ELSE cache[i]
BY DEF With, Places

(* Replacing entries keeps one place per message, and lets no success in.  *)
LEMMA ReplacedKeeps ==
  ASSUME Shape, Numbered
  PROVE  \A m, id : m.id = id /\ (id \in Nat => m \in Entry) =>
           /\ With(m, id) \in Seq(Entry)
           /\ \A i, j \in DOMAIN With(m, id) : With(m, id)[i].id = With(m, id)[j].id => i = j
           /\ m.text # "success" /\ (\A i \in DOMAIN cache : cache[i].text # "success")
                => \A i \in DOMAIN With(m, id) : With(m, id)[i].text # "success"
<1> SUFFICES ASSUME NEW m, NEW id, m.id = id, id \in Nat => m \in Entry
             PROVE  /\ With(m, id) \in Seq(Entry)
                    /\ \A i, j \in DOMAIN With(m, id) : With(m, id)[i].id = With(m, id)[j].id => i = j
                    /\ m.text # "success" /\ (\A i \in DOMAIN cache : cache[i].text # "success")
                         => \A i \in DOMAIN With(m, id) : With(m, id)[i].text # "success"
  OBVIOUS
<1> DEFINE c == With(m, id)
<1>1. /\ DOMAIN c = DOMAIN cache
      /\ \A i \in DOMAIN cache : c[i] = IF cache[i].id = id THEN m ELSE cache[i]
  BY Replaced
<1>2. c = [i \in DOMAIN cache |-> c[i]]
  BY DEF With
<1> HIDE DEF c
<1>3. cache \in Seq(Entry) /\ DOMAIN cache = 1..Len(cache) /\ Len(cache) \in Nat
  BY DEF Shape
<1>4. \A i \in 1..Len(cache) : c[i] \in Entry /\ c[i].id = cache[i].id
  <2> TAKE i \in 1..Len(cache)
  <2>0. cache[i] \in Entry
    BY <1>3
  <2>1. cache[i] \in Entry /\ cache[i].id \in Nat
    BY <2>0 DEF Entry
  <2>2. CASE cache[i].id = id BY <1>1, <1>3, <2>1, <2>2
  <2>3. CASE cache[i].id # id BY <1>1, <1>3, <2>1, <2>3
  <2> QED BY <2>2, <2>3
<1>5. c \in Seq(Entry)
  <2>1. c \in [1..Len(cache) -> Entry]
    BY <1>2, <1>3, <1>4
  <2> QED BY <1>3, <2>1
<1>6. \A i, j \in DOMAIN c : c[i].id = c[j].id => i = j
  BY <1>1, <1>3, <1>4 DEF Numbered
<1>7. m.text # "success" /\ (\A i \in DOMAIN cache : cache[i].text # "success")
        => \A i \in DOMAIN c : c[i].text # "success"
  BY <1>1
<1> QED BY <1>5, <1>6, <1>7 DEF c

(* An update that a handler gets keeps the cache one place per message.    *)
LEMMA Handler ==
  ASSUME Shape, Numbered, HandlerGets
  PROVE  /\ cache' \in Seq(Entry)
         /\ \A i, j \in DOMAIN cache' : cache'[i].id = cache'[j].id => i = j
         /\ (\A i \in DOMAIN feed : feed[i].text # "success")
              /\ (\A i \in DOMAIN cache : cache[i].text # "success")
              => /\ \A i \in DOMAIN feed' : feed'[i].text # "success"
                 /\ \A i \in DOMAIN cache' : cache'[i].text # "success"
         /\ feed' \in Seq(Message) /\ bot' \in BotState /\ bot'.reacted /\ bot'.told = bot.told
         /\ UNCHANGED <<script, terms, talk, flow, effects, answered>>
<1> DEFINE m == Head(feed)
<1>1. /\ feed \in Seq(Message) /\ feed # <<>> /\ feed' = Tail(feed) /\ m \in Message
      /\ m = feed[1] /\ 1 \in DOMAIN feed
  BY DEF HandlerGets, Shape
<1>2. feed' \in Seq(Message)
  BY <1>1
<1>3. \A i \in DOMAIN feed' : i + 1 \in DOMAIN feed /\ feed'[i] = feed[i + 1]
  BY <1>1
<1>4. bot' \in BotState /\ bot'.reacted /\ bot'.told = bot.told
  BY DEF HandlerGets, Shape, BotState
<1>5. m \in Entry /\ m.id \in Nat
  BY <1>1 DEF Message, Entry
<1> HIDE DEF m
<1>6. CASE cache' = cache
  BY <1>2, <1>3, <1>4, <1>6 DEF Shape, Numbered, HandlerGets
<1>7. CASE Places(m.id) = {} /\ cache' = Append(cache, m)
  <2>1. cache \in Seq(Entry) BY DEF Shape
  <2>2. cache' \in Seq(Entry) BY <1>5, <1>7, <2>1
  <2>3. /\ DOMAIN cache' = 1..(Len(cache) + 1) /\ DOMAIN cache = 1..Len(cache) /\ Len(cache) \in Nat
        /\ cache'[Len(cache) + 1] = m
        /\ \A i \in 1..Len(cache) : cache'[i] = cache[i]
    BY <1>5, <1>7, <2>1
  <2>4. \A i \in DOMAIN cache : cache[i].id # m.id
    BY <1>7 DEF Places
  <2>5. \A i, j \in DOMAIN cache' : cache'[i].id = cache'[j].id => i = j
    BY <2>3, <2>4 DEF Numbered
  <2>6. ASSUME \A i \in DOMAIN feed : feed[i].text # "success",
               \A i \in DOMAIN cache : cache[i].text # "success"
        PROVE  /\ \A i \in DOMAIN feed' : feed'[i].text # "success"
               /\ \A i \in DOMAIN cache' : cache'[i].text # "success"
    BY <1>1, <1>3, <2>3, <2>6 DEF m
  <2> QED BY <1>2, <1>4, <2>2, <2>5, <2>6 DEF HandlerGets
<1>8. CASE cache' = With(m, m.id)
  <2>1. /\ cache' \in Seq(Entry)
        /\ \A i, j \in DOMAIN cache' : cache'[i].id = cache'[j].id => i = j
        /\ m.text # "success" /\ (\A i \in DOMAIN cache : cache[i].text # "success")
             => \A i \in DOMAIN cache' : cache'[i].text # "success"
    BY <1>5, <1>8, ReplacedKeeps
  <2>2. ASSUME \A i \in DOMAIN feed : feed[i].text # "success",
               \A i \in DOMAIN cache : cache[i].text # "success"
        PROVE  /\ \A i \in DOMAIN feed' : feed'[i].text # "success"
               /\ \A i \in DOMAIN cache' : cache'[i].text # "success"
    BY <1>1, <1>3, <2>1, <2>2 DEF m
  <2> QED BY <1>2, <1>4, <2>1, <2>2 DEF HandlerGets
<1> QED BY <1>6, <1>7, <1>8 DEF HandlerGets, m

(* So does marking the message that a step has dealt with.                 *)
LEMMA Wiped ==
  ASSUME Shape, Numbered, Ended
  PROVE  /\ cache' \in Seq(Entry)
         /\ \A i, j \in DOMAIN cache' : cache'[i].id = cache'[j].id => i = j
         /\ (\A i \in DOMAIN cache : cache[i].text # "success")
              => \A i \in DOMAIN cache' : cache'[i].text # "success"
<1>1. CASE cache' = cache
  BY <1>1 DEF Shape, Numbered
<1>2. CASE cache' = With(None(flow.target.id), flow.target.id)
  <2> DEFINE id == flow.target.id
             m == None(id)
  <2>1. m.id = id /\ m.text # "success" /\ (id \in Nat => m \in Entry)
    BY DEF None, Entry
  <2> HIDE DEF id, m
  <2>2. cache' = With(m, id) BY <1>2 DEF m, id
  <2> QED BY <2>1, <2>2, ReplacedKeeps
<1> QED BY <1>1, <1>2 DEF Ended

(* The lemmas below take one part of the invariant each, and show that no  *)
(* kind of step breaks it.  The shape of the state:                        *)
LEMMA ShapeKept ==
  ASSUME Shape, Numbered, Paced, Kinds
  PROVE  Shape' /\ Numbered'
<1> USE ScriptFacts
<1>1. ASSUME NEW m \in Message, Talked(m) PROVE Shape' /\ Numbered'
  <2>1. /\ talk \in Seq(Message) /\ DOMAIN talk = 1..Len(talk) /\ Len(talk) \in Nat
        /\ feed' \in Seq(Message)
    BY <1>1 DEF Talked, Shape
  <2>2. talk' \in Seq(Message) /\ \A i \in DOMAIN talk' : talk'[i].id = i
    <3>1. CASE m.id \in DOMAIN talk
      <4>1. talk' = [talk EXCEPT ![m.id] = m] BY <1>1, <3>1 DEF Talked
      <4> QED BY <2>1, <3>1, <4>1 DEF Numbered
    <3>2. CASE m.id \notin DOMAIN talk
      <4>1. talk' = Append(talk, m) /\ m.id = Len(talk) + 1
        <5>1. m.id \in 1..(Len(talk) + 1) /\ m.id \notin 1..Len(talk)
          BY <1>1, <2>1, <3>2 DEF Talked
        <5>2. m.id = Len(talk) + 1
          BY <2>1, <5>1
        <5> QED BY <1>1, <3>2, <5>2 DEF Talked
      <4> QED BY <2>1, <4>1 DEF Numbered
    <3> QED BY <3>1, <3>2
  <2> QED BY <1>1, <2>1, <2>2 DEF Talked, Shape, Formed, Numbered, Steps
<1>2. CASE HandlerGets
  BY <1>2, Handler DEF Shape, Formed, Numbered, Steps
<1>3. CASE Formed' /\ Looked
  BY <1>3 DEF Looked, Shape, Numbered, Steps, SameProgress, BotState
<1>4. CASE Formed' /\ EngineMoved
  BY <1>4 DEF EngineMoved, Shape, Numbered, Steps, SameProgress
<1>5. CASE Formed' /\ Confirmed
  <2>1. bot' \in BotState
    BY <1>5 DEF Confirmed, Shape, BotState, Formed
  <2>2. effects' \in [Steps -> Nat]
    BY <1>5 DEF Confirmed, Confirms, Shape
  <2> QED BY <1>5, <2>1, <2>2 DEF Confirmed, Shape, Numbered, Steps, SameProgress
<1>6. CASE Formed' /\ Attempted
  <2>1. flow'.step \in 1..Len(script)
    <3>1. flow.done \in Nat /\ (flow.pc \in {"preheat", "pause"} => flow.done + 1 \in 1..Len(script))
      BY DEF Shape, Paced
    <3>2. flow.pc = "pause" => FirstStep \in 1..Len(script)
      BY <3>1 DEF FirstStep
    <3> QED BY <1>6, <3>1, <3>2 DEF Attempted
  <2>2. <<>> \in Seq(Entry) /\ DOMAIN <<>> = {}
    OBVIOUS
  <2> QED BY <1>6, <2>1, <2>2 DEF Attempted, Shape, Numbered, Steps
<1>7. CASE Formed' /\ Ended
  <2>1. flow'.step \in 1..Len(script) /\ flow'.done \in 0..Len(script)
    BY <1>7 DEF Ended, Shape
  <2>2. answered' \subseteq Steps
    BY <1>7 DEF Ended, Shape
  <2> QED BY <1>7, <2>1, <2>2, Wiped DEF Ended, Shape, Numbered, Steps
<1> QED BY <1>1, <1>2, <1>3, <1>4, <1>5, <1>6, <1>7 DEF Kinds

-----------------------------------------------------------------------------
(* The pace of the flow.                                                   *)
LEMMA PacedKept ==
  ASSUME Shape, Numbered, Paced, Kinds
  PROVE  Paced'
<1> USE ScriptFacts
<1>1. ASSUME NEW m \in Message, Talked(m) PROVE Paced'
  BY <1>1 DEF Talked, Paced
<1>2. CASE HandlerGets
  BY <1>2, Handler DEF Paced
<1>3. CASE Looked
  BY <1>3 DEF Looked, Paced, SameProgress, Working
<1>4. CASE EngineMoved
  BY <1>4 DEF EngineMoved, Paced, SameProgress, Working, IsConfirmed
<1>5. CASE Confirmed
  BY <1>5 DEF Confirmed, Paced, SameProgress, Working
<1>6. CASE Attempted
  <2>1. flow.done \in Nat BY DEF Shape
  <2> QED BY <1>6, <2>1 DEF Attempted, Paced, FirstStep, Working
<1>7. CASE Ended
  <2>1. flow.step \in 1..Len(script) BY DEF Shape
  <2> QED BY <1>7, <2>1 DEF Ended, Paced, Working
<1> QED BY <1>1, <1>2, <1>3, <1>4, <1>5, <1>6, <1>7 DEF Kinds

(* No second effect of a step: a confirmation finds the step the first one *)
(* that is not done, and without an effect.                                *)
LEMMA OnceKept ==
  ASSUME Shape, Numbered, Paced, Once, Kinds
  PROVE  Once'
<1> USE ScriptFacts
<1> SUFFICES ASSUME terms'.backoff = 0, NEW s \in Steps'
             PROVE  /\ effects'[s] <= 1
                    /\ effects'[s] = 1 => s <= flow'.done \/ (s = flow'.step /\ IsConfirmed')
  BY DEF Once
<1>0. /\ terms' = terms /\ script' = script
  BY Handler DEF Kinds, Talked, Looked, EngineMoved, Confirmed, Attempted, Ended
<1>a. /\ s \in Steps /\ s \in Nat /\ effects[s] \in Nat /\ effects[s] <= 1
      /\ effects[s] = 1 => s <= flow.done \/ (s = flow.step /\ IsConfirmed)
      /\ flow.step \in Nat /\ flow.done \in Nat
  BY <1>0 DEF Once, Steps, Shape
<1>1. ASSUME NEW m \in Message, Talked(m)
      PROVE  effects' = effects /\ flow' = flow
  BY <1>1 DEF Talked
<1>2. CASE HandlerGets
  BY <1>a, <1>2, Handler DEF IsConfirmed
<1>3. CASE Looked
  BY <1>a, <1>3 DEF Looked, SameProgress, IsConfirmed
<1>4. CASE EngineMoved
  BY <1>a, <1>4 DEF EngineMoved, SameProgress
<1>5. CASE Confirmed
  <2>1. /\ flow.step = flow.done + 1 /\ ~IsConfirmed
        /\ IsConfirmed' /\ flow'.step = flow.step /\ flow'.done = flow.done
    BY <1>0, <1>5 DEF Confirmed, SameProgress, IsConfirmed, Paced, Working
  <2>2. effects' = [effects EXCEPT ![flow.step] = @ + 1] /\ effects \in [Steps -> Nat]
    BY <1>5 DEF Confirmed, Confirms, Shape
  <2>3. CASE s = flow.step
    BY <1>a, <2>1, <2>2, <2>3
  <2>4. CASE s # flow.step
    BY <1>a, <2>1, <2>2, <2>4
  <2> QED BY <2>3, <2>4
<1>6. CASE Attempted
  BY <1>a, <1>6 DEF Attempted, IsConfirmed
<1>7. CASE Ended
  <2>1. flow.step = flow.done + 1
    BY <1>0, <1>7 DEF Ended, Paced, Working
  <2> QED BY <1>a, <1>7, <2>1 DEF Ended
<1>8. CASE \E m \in Message : Talked(m)
  BY <1>1, <1>8, <1>a DEF IsConfirmed
<1> QED BY <1>2, <1>3, <1>4, <1>5, <1>6, <1>7, <1>8 DEF Kinds

-----------------------------------------------------------------------------
(* A text that was not there before is a reaction of the bot.              *)
LEMMA News ==
  ASSUME Seen, ~terms.unreadable, flow.pc \in Compared, NEW texts, Changed(texts)
  PROVE  bot.reacted
BY DEF Seen, Changed, Snapshots

(* No step is left out: one that ends unconfirmed ends on a reaction.      *)
LEMMA CoveredKept ==
  ASSUME Shape, Numbered, Paced, Covered, Seen, Kinds
  PROVE  Covered'
<1> USE ScriptFacts
<1> SUFFICES ASSUME ~terms'.unreadable
             PROVE  /\ flow'.pc # "stopped" => \A s \in Steps' : s <= flow'.done => Did(s)'
                    /\ flow'.pc \in Working => \A s \in Steps' : s < flow'.step => Did(s)'
                    /\ IsConfirmed' => effects'[flow'.step] > 0
  BY DEF Covered
<1>0. terms' = terms /\ script' = script /\ Steps' = Steps
  BY Handler DEF Kinds, Talked, Looked, EngineMoved, Confirmed, Attempted, Ended, Steps
<1>a. /\ flow.pc # "stopped" => \A s \in Steps : s <= flow.done => Did(s)
      /\ flow.pc \in Working => \A s \in Steps : s < flow.step => Did(s)
      /\ IsConfirmed => effects[flow.step] > 0
  BY <1>0 DEF Covered
<1>b. ASSUME UNCHANGED <<effects, answered>> PROVE \A s : Did(s)' = Did(s)
  BY <1>b DEF Did
<1>1. CASE \E m \in Message : Talked(m)
  BY <1>0, <1>a, <1>b, <1>1 DEF Talked, IsConfirmed
<1>2. CASE HandlerGets
  BY <1>0, <1>a, <1>b, <1>2, Handler DEF IsConfirmed
<1>3. CASE Looked
  BY <1>0, <1>a, <1>b, <1>3 DEF Looked, SameProgress, IsConfirmed, Working
<1>4. CASE EngineMoved
  <2>1. ~IsConfirmed'
    BY <1>4 DEF EngineMoved, IsConfirmed
  <2> QED BY <1>0, <1>a, <1>b, <1>4, <2>1 DEF EngineMoved, SameProgress, Working
<1>5. CASE Confirmed
  <2>1. /\ effects \in [Steps -> Nat] /\ flow.step \in Steps
        /\ effects' = [effects EXCEPT ![flow.step] = @ + 1]
    BY <1>5 DEF Confirmed, Confirms, Shape
  <2>2. \A s \in Steps : Did(s) => Did(s)'
    BY <1>5, <2>1 DEF Confirmed, Did
  <2> QED BY <1>0, <1>a, <1>5, <2>1, <2>2 DEF Confirmed, SameProgress, Working
<1>6. CASE Attempted
  <2>1. flow.done \in Nat /\ flow'.step <= flow.done + 1
    BY <1>6 DEF Attempted, Shape, FirstStep
  <2>2. flow'.step \in Nat
    BY <1>6, <2>1 DEF Attempted, FirstStep
  <2>3. \A s \in Nat : s < flow'.step => s <= flow.done
    BY <2>1, <2>2
  <2>4. \A s \in Steps : s < flow'.step => s <= flow.done
    BY <2>3
  <2> QED BY <1>0, <1>a, <1>b, <1>6, <2>4 DEF Attempted, IsConfirmed
<1>7. CASE Ended
  <2>1. flow.step \in Steps /\ flow.step \in Nat /\ flow.pc \in Working
    BY <1>7 DEF Shape, Ended, Working
  <2>2. \A s \in Steps : Did(s) => Did(s)'
    BY <1>7 DEF Ended, Did
  <2>3. ASSUME flow'.pc # "stopped", NEW s \in Steps, s = flow.step PROVE Did(s)'
    <3>1. CASE IsConfirmed
      <4>1. Did(s) BY <1>a, <2>3, <3>1 DEF Did
      <4> QED BY <2>2, <4>1
    <3>2. CASE ~IsConfirmed
      <4>1. flow.pc = "following" /\ Credits /\ \E texts \in SUBSET Texts : Changed(texts)
        BY <1>7, <2>3, <3>2 DEF Ended
      <4>2. PICK texts \in SUBSET Texts : Changed(texts)
        BY <4>1
      <4>3. bot.reacted /\ ~flow.confirmed
        BY <1>0, <3>2, <4>1, <4>2, News DEF Compared, IsConfirmed
      <4>4. s \in answered'
        BY <2>3, <4>1, <4>3 DEF Credits
      <4> QED BY <4>4 DEF Did
    <3> QED BY <3>1, <3>2
  <2>4. ASSUME flow'.pc # "stopped", NEW s \in Steps, s <= flow.step PROVE Did(s)'
    <3>1. CASE s = flow.step BY <2>3, <2>4, <3>1
    <3>2. CASE s < flow.step
      <4>1. Did(s) BY <1>a, <2>1, <3>2
      <4> QED BY <2>2, <4>1
    <3>3. s < flow.step \/ s = flow.step
      <4>1. s \in Nat /\ flow.step \in Nat BY <2>1
      <4> QED BY <2>4, <4>1
    <3> QED BY <3>1, <3>2, <3>3
  <2>5. ~IsConfirmed' BY <1>7 DEF Ended, IsConfirmed
  <2>6. flow'.done = flow.step /\ (flow'.pc \in Working => flow'.step = flow.step + 1)
    BY <1>7 DEF Ended, Working
  <2>7. \A s \in Nat : s < flow.step + 1 => s <= flow.step
    BY <2>1
  <2>8. \A s \in Steps : s < flow.step + 1 => s <= flow.step
    BY <2>7
  <2>9. "stopped" \notin Working BY DEF Working
  <2> QED BY <1>0, <2>4, <2>5, <2>6, <2>8, <2>9
<1> QED BY <1>1, <1>2, <1>3, <1>4, <1>5, <1>6, <1>7 DEF Kinds

(* The snapshot describes the chat until the bot reacts.                   *)
LEMMA SeenKept ==
  ASSUME Shape, Numbered, Seen, Kinds
  PROVE  Seen'
<1> SUFFICES ASSUME flow'.pc \in Compared, ~terms'.unreadable, ~bot'.reacted
             PROVE  Over(Recent)' \subseteq flow'.before
  BY DEF Seen
<1>1. ASSUME UNCHANGED <<talk, cache>> PROVE Over(Recent)' = Over(Recent)
  BY <1>1 DEF Over, Recent, Cached
<1>2. CASE \E m \in Message : Talked(m)
  BY <1>2 DEF Talked
<1>3. CASE HandlerGets
  BY <1>3, Handler
<1>4. CASE Looked
  BY <1>1, <1>4 DEF Looked, Snapshots
<1>5. CASE EngineMoved
  BY <1>1, <1>5 DEF EngineMoved, Compared, Seen
<1>6. CASE Confirmed
  <2>1. bot'.reacted = bot.reacted
    BY <1>6 DEF Confirmed, Shape, BotState
  <2> QED BY <1>1, <1>6, <2>1 DEF Confirmed, Compared, Seen
<1>7. CASE Attempted \/ Ended
  BY <1>7 DEF Attempted, Ended, Compared
<1> QED BY <1>2, <1>3, <1>4, <1>5, <1>6, <1>7 DEF Kinds

(* A new success is one the bot has said since the flow began.             *)
LEMMA NewSuccess ==
  ASSUME Shape, Numbered, OldSuccess, ~terms.unreadable, flow.pc \in Compared, Announced
  PROVE  bot.told
<1> SUFFICES ASSUME ~bot.told PROVE FALSE
  OBVIOUS
<1>1. PICK m \in Cached \cup Recent, c \in Over(Recent) :
        m.text = "success" /\ c.id = m.id /\ c \notin flow.before
  BY DEF Announced, Changed, Snapshots
<1>2. m \in Recent
  BY <1>1 DEF OldSuccess, Cached
<1>3. c \in Recent
  BY <1>1, <1>2 DEF Over
<1>4. c = m
  BY <1>1, <1>2, <1>3 DEF Recent, Numbered
<1> QED BY <1>1, <1>2, <1>4 DEF OldSuccess

(* A message moves the window of the history: nothing old comes into it.   *)
LEMMA Window ==
  ASSUME Shape, NEW m \in Message, Talked(m)
  PROVE  \A n \in Recent' : n \in Recent \/ n = m
<1>1. /\ talk \in Seq(Message) /\ DOMAIN talk = 1..Len(talk) /\ Len(talk) \in Nat
      /\ Lookback \in Nat
  BY ScriptFacts DEF Shape
<1>2. CASE m.id \in DOMAIN talk
  <2>1. talk' = [talk EXCEPT ![m.id] = m] BY <1>2 DEF Talked
  <2>2. Len(talk') = Len(talk) /\ DOMAIN talk' = DOMAIN talk
    BY <1>1, <2>1
  <2> QED BY <1>1, <2>1, <2>2 DEF Recent
<1>3. CASE m.id \notin DOMAIN talk
  <2>1. talk' = Append(talk, m) BY <1>3 DEF Talked
  <2>2. /\ Len(talk') = Len(talk) + 1 /\ DOMAIN talk' = 1..(Len(talk) + 1)
        /\ talk'[Len(talk) + 1] = m
        /\ \A i \in 1..Len(talk) : talk'[i] = talk[i]
    BY <1>1, <2>1
  <2> SUFFICES ASSUME NEW j \in DOMAIN talk', j + Lookback > Len(talk')
               PROVE  talk'[j] \in Recent \/ talk'[j] = m
    BY DEF Recent
  <2>3. CASE j = Len(talk) + 1 BY <2>2, <2>3
  <2>4. CASE j \in 1..Len(talk)
    <3>1. j + Lookback > Len(talk) BY <1>1, <2>2, <2>4
    <3> QED BY <1>1, <2>2, <2>4, <3>1 DEF Recent
  <2> QED BY <1>1, <2>2, <2>3, <2>4
<1> QED BY <1>2, <1>3

(* Success stands only in old messages.                                    *)
LEMMA OldKept ==
  ASSUME Shape, Numbered, OldSuccess, Kinds
  PROVE  OldSuccess'
<1> SUFFICES ASSUME ~bot'.told
             PROVE  /\ \A i \in DOMAIN feed' : feed'[i].text # "success"
                    /\ \A i \in DOMAIN cache' : cache'[i].text # "success"
                    /\ flow'.pc \in Compared /\ ~terms'.unreadable =>
                         \A m \in Recent' : m.text = "success" => m \in flow'.before
                    /\ flow'.pc = "following" => ~flow'.callback
  BY DEF OldSuccess
<1>0. ASSUME talk' = talk PROVE Recent' = Recent
  BY <1>0 DEF Recent
<1>1. ASSUME NEW m \in Message, Talked(m) PROVE OldSuccess'
  <2>1. ~bot.told /\ m.text # "success"
    BY <1>1 DEF Talked
  <2>2. feed \in Seq(Message) /\ feed' = Append(feed, m)
    BY <1>1 DEF Talked, Shape
  <2>3. \A i \in DOMAIN feed' : feed'[i].text # "success"
    BY <2>1, <2>2 DEF OldSuccess
  <2> QED BY <1>1, <2>1, <2>3, Window DEF Talked, OldSuccess
<1>2. CASE HandlerGets
  BY <1>0, <1>2, Handler DEF OldSuccess
<1>3. CASE Looked
  <2>1. ~bot.told BY <1>3 DEF Looked, Shape, BotState
  <2>2. ~terms.unreadable => Recent \subseteq flow'.before
    BY <1>3 DEF Looked, Snapshots, Over
  <2> QED BY <1>0, <1>3, <2>1, <2>2 DEF Looked, OldSuccess
<1>4. CASE EngineMoved
  BY <1>0, <1>4 DEF EngineMoved, OldSuccess, Compared
<1>5. CASE Formed' /\ Confirmed
  <2>1. ~bot.told /\ (flow'.pc = "following" => ~flow'.callback)
    BY <1>5 DEF Confirmed, Shape, BotState, Formed
  <2> QED BY <1>0, <1>5, <2>1 DEF Confirmed, OldSuccess, Compared
<1>6. CASE Attempted
  BY <1>0, <1>6 DEF Attempted, OldSuccess, Compared
<1>7. CASE Ended
  BY <1>0, <1>7, Wiped DEF Ended, OldSuccess, Compared
<1> QED BY <1>1, <1>2, <1>3, <1>4, <1>5, <1>6, <1>7 DEF Kinds, OldSuccess

(* A flow stops on a new success, or on a callback that says so.           *)
LEMMA EarnedKept ==
  ASSUME Shape, Numbered, OldSuccess, StopIsEarned, Kinds
  PROVE  StopIsEarned'
<1> USE DEF StopIsEarned, At
<1>1. CASE \E m \in Message : Talked(m)
  BY <1>1 DEF Talked
<1>2. CASE HandlerGets
  BY <1>2, Handler
<1>3. CASE Looked \/ EngineMoved \/ Confirmed \/ Attempted
  BY <1>3 DEF Looked, EngineMoved, Confirmed, Attempted
<1>4. CASE Ended
  BY <1>4, NewSuccess DEF Ended, OldSuccess, Compared
<1> QED BY <1>1, <1>2, <1>3, <1>4 DEF Kinds

-----------------------------------------------------------------------------
(* The inductive invariant: Once, Covered and StopIsEarned give what is to *)
(* be shown, the other conjuncts are what these rest on.                   *)
IInv ==
  /\ Shape /\ Numbered /\ Paced /\ Once /\ Covered
  /\ Seen /\ OldSuccess /\ StopIsEarned

(* It holds in the initial states.                                         *)
LEMMA EngineBegins == EngineInit => IInv
<1> SUFFICES ASSUME EngineInit PROVE IInv
  OBVIOUS
<1>1. /\ script \in Seq({"send", "click", "reply"}) \ {<<>>} /\ terms.backoff \in Nat
      /\ terms \in Conditions /\ MaxAttempts \in Nat \ {0}
  BY EngineAssumption DEF EngineInit
<1>2. Steps = 1..Len(script) /\ Len(script) \in Nat \ {0}
  BY <1>1 DEF Steps
<1>3. /\ flow.pc = "preheat" /\ flow.step = 1 /\ flow.done = 0 /\ flow.tries = 1
      /\ flow.attempt = 1 /\ flow.confirmed = FALSE /\ flow.callback = FALSE
      /\ flow = [x \in Fields |-> flow[x]]
  BY DEF EngineInit, Fields
<1>4. talk \in Seq(Message) /\ \A i \in DOMAIN talk : talk[i].id = i
  <2>1. PICK h \in Histories : talk = [i \in DOMAIN h |-> [id |-> i, ver |-> 1, text |-> h[i]]]
    BY DEF EngineInit
  <2>2. h \in Seq(Texts) /\ DOMAIN h = 1..Len(h) /\ Len(h) \in Nat
    BY EngineAssumption, <2>1
  <2>3. \A i \in 1..Len(h) : [id |-> i, ver |-> 1, text |-> h[i]] \in Message
    BY <2>2 DEF Message
  <2>4. talk \in [1..Len(h) -> Message]
    BY <2>1, <2>2, <2>3
  <2> QED BY <2>1, <2>2, <2>4
<1>5. feed = <<>> /\ cache = <<>> /\ answered = {} /\ effects = [s \in Steps |-> 0]
  BY DEF EngineInit
<1>6. bot \in BotState
  BY DEF EngineInit, BotState
<1>7. Formed
  <2>1. MaxAttempts >= 1 /\ 1 \in 1..MaxAttempts /\ 1 \in 1..2
    BY <1>1
  <2> QED BY <1>3, <2>1 DEF Formed
<1>8. Shape
  BY <1>1, <1>2, <1>3, <1>4, <1>5, <1>6, <1>7 DEF Shape, EngineInit
<1>9. Numbered /\ Paced /\ StopIsEarned /\ ~IsConfirmed
  BY <1>2, <1>3, <1>4, <1>5 DEF Numbered, Paced, Working, StopIsEarned, At, IsConfirmed
<1>10. Once
  BY <1>5 DEF Once
<1>11. Covered
  BY <1>2, <1>3, <1>9 DEF Covered, Working
<1>12. Seen /\ OldSuccess
  BY <1>3, <1>5 DEF Seen, OldSuccess, Compared
<1> QED BY <1>8, <1>9, <1>10, <1>11, <1>12 DEF IInv

(* Every step of the specification is of one of the kinds.                 *)
LEMMA StepIsOfAKind ==
  ASSUME Shape, Numbered, Paced, EngineNext
  PROVE  Kinds
BY BotSpeaks, EngineKinds DEF EngineNext, Kinds

(* A stuttering step keeps it.                                             *)
LEMMA Stutters ==
  ASSUME IInv, UNCHANGED engineVars
  PROVE  IInv'
<1>1. /\ script' = script /\ terms' = terms /\ talk' = talk /\ feed' = feed
      /\ cache' = cache /\ flow' = flow /\ effects' = effects
      /\ answered' = answered /\ bot' = bot
  BY DEF engineVars
<1>2. Shape' /\ Numbered' /\ Paced'
  BY <1>1 DEF IInv, Shape, Formed, Numbered, Paced, Steps
<1>3. Once' /\ Covered'
  BY <1>1 DEF IInv, Once, Covered, Did, IsConfirmed, Steps
<1>4. Seen' /\ OldSuccess'
  BY <1>1 DEF IInv, Seen, OldSuccess, Over, Recent, Cached
<1>5. StopIsEarned'
  BY <1>1 DEF IInv, StopIsEarned, At
<1> QED BY <1>2, <1>3, <1>4, <1>5 DEF IInv

(* The invariant holds in every reachable state.                           *)
LEMMA InvariantHolds == EngineSpec => []IInv
<1>1. IInv /\ [EngineNext]_engineVars => IInv'
  <2>1. ASSUME IInv, EngineNext PROVE IInv'
    <3>1. Kinds
      BY <2>1, StepIsOfAKind DEF IInv
    <3>2. Shape' /\ Numbered' /\ Paced'
      BY <2>1, <3>1, ShapeKept, PacedKept DEF IInv
    <3>3. Once' /\ Covered'
      BY <2>1, <3>1, OnceKept, CoveredKept DEF IInv
    <3>4. Seen' /\ OldSuccess' /\ StopIsEarned'
      BY <2>1, <3>1, SeenKept, OldKept, EarnedKept DEF IInv
    <3> QED BY <3>2, <3>3, <3>4 DEF IInv
  <2> QED BY <2>1, Stutters
<1> QED BY <1>1, EngineBegins, PTL DEF EngineSpec

(* sign_a_chat follows its script: retries without a step back never do a  *)
(* confirmed step again, a completed flow has done every step or seen the  *)
(* bot react to it, and while the history can be read a flow stops early   *)
(* only if the bot has said since the flow began that the sign succeeded.  *)
THEOREM EngineFollowsScript == EngineSpec => []ScriptIsFollowed
<1>1. IInv => ScriptIsFollowed
  <2> SUFFICES ASSUME IInv PROVE ScriptIsFollowed
    OBVIOUS
  <2>1. EngineTypeOK
    BY DEF IInv, Shape, Formed, Numbered, EngineTypeOK
  <2>2. DoneOnce
    BY DEF IInv, Once, DoneOnce
  <2>3. NothingSkipped
    <3> SUFFICES ASSUME flow.pc = "completed", ~terms.unreadable, NEW s \in Steps
                 PROVE  Did(s)
      BY DEF NothingSkipped, At, Did
    <3>1. flow.done = Len(script) /\ s \in 1..Len(script) /\ Len(script) \in Nat
      BY ScriptFacts DEF IInv, Paced
    <3>2. s <= flow.done
      BY <3>1
    <3> QED BY <3>2 DEF IInv, Covered
  <2> QED BY <2>1, <2>2, <2>3 DEF IInv, ScriptIsFollowed
<1> QED BY <1>1, InvariantHolds, PTL
=============================================================================
