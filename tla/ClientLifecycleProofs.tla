----------------------- MODULE ClientLifecycleProofs -----------------------
(***************************************************************************)
(* Proofs about ClientLifecycle, for any number of coroutines, client and  *)
(* lock objects.  How much holds depends on what the environment may do:   *)
(* the assumptions on Faults say it theorem by theorem.                    *)
(***************************************************************************)
EXTENDS ClientLifecycle, FiniteSetTheorems, TLAPS

(* Stopping a client object keeps the type of the connection flags. *)
LEMMA Disconnecting ==
  ASSUME NEW c, NEW f \in [Clients -> BOOLEAN]
  PROVE  [f EXCEPT ![c] = FALSE] \in [Clients -> BOOLEAN]
OBVIOUS

LEMMA StopTypes ==
  ASSUME TypeOK, NEW u \in Users, StopClient(u)
  PROVE  connected' \in [Clients -> BOOLEAN]
BY Disconnecting DEF TypeOK, StopClient

(* The object a coroutine is done with, or keeps. *)
LEMMA PartTypes ==
  ASSUME TypeOK, NEW u \in Users, Part(u)
  PROVE  /\ using' \in [Users -> Clients \cup {NoClient}]
         /\ \E to \in {"idle", "has"} : pc' = [pc EXCEPT ![u] = to]
BY DEF TypeOK, Part, Forget

(* The end of a critical section after which the caller is done, or not.   *)
LEMMA PartLeaves ==
  ASSUME TypeOK, NEW u \in Users, Release(u), Part(u)
  PROVE  /\ using' \in [Users -> Clients \cup {NoClient}]
         /\ \E to \in {"idle", "has"} : Leave(u, to)
BY PartTypes DEF Leave

(* The two ends of the body of __aexit__. *)
LEMMA ExitShape ==
  ASSUME TypeOK, NEW u \in Users, NEW l, ExitBody(u, l)
  PROVE  /\ using' \in [Users -> Clients \cup {NoClient}]
         /\ \/ /\ refs' = 0
               /\ pc' = [pc EXCEPT ![u] = "stopping"]
               /\ using' = using
               /\ holder' = [holder EXCEPT ![l] = u]
               /\ waitsOn' = [waitsOn EXCEPT ![u] = l]
            \/ /\ refs' # 0
               /\ \E to \in {"idle", "has"} : pc' = [pc EXCEPT ![u] = to]
               /\ holder' = holder
               /\ waitsOn' = [waitsOn EXCEPT ![u] = NoLock]
<1>1. CASE refs' = 0
  BY <1>1 DEF ExitBody, TypeOK
<1>2. CASE refs' # 0
  BY <1>2, PartTypes DEF ExitBody
<1> QED
  BY <1>1, <1>2

(* The way out of the lifecycle code keeps the types of what it changes. *)
LEMMA LeaveTypes ==
  ASSUME TypeOK, NEW u \in Users, NEW to \in Phases, Leave(u, to)
  PROVE  /\ holder' \in [Locks -> Users \cup {NoUser}]
         /\ waitsOn' \in [Users -> Locks \cup {NoLock}]
         /\ attempt' \in [Users -> 0 .. MaxRetries - 1]
         /\ pc' \in [Users -> Phases]
BY LifecycleAssumption DEF TypeOK, Leave, Release

(* So does a coroutine that is cut off at an await. *)
LEMMA CutOffTypes ==
  ASSUME TypeOK, NEW u \in Users, CutOff(u)
  PROVE  TypeOK'
<1>1. connected' \in [Clients -> BOOLEAN]
  BY Disconnecting DEF CutOff, TypeOK
<1> QED
  BY <1>1, LeaveTypes DEF CutOff, Forget, TypeOK, Phases

LEMMA TypeStep == ASSUME TypeOK, [Next]_vars PROVE TypeOK'
<1> USE DEF TypeOK, Phases
<1>1. ASSUME NEW u \in Users, GetClient(u) PROVE TypeOK'
  BY <1>1 DEF GetClient, GetCached, GetNew, registry
<1>2. ASSUME NEW u \in Users, NEW l \in Locks, EnterBody(u, l)
      PROVE  /\ refs' \in Nat
             /\ holder' \in [Locks -> Users \cup {NoUser}]
             /\ waitsOn' \in [Users -> Locks \cup {NoLock}]
             /\ pc' \in [Users -> Phases]
  BY <1>2 DEF EnterBody
<1>3. ASSUME NEW u \in Users, Enter(u) PROVE TypeOK'
  BY <1>2, <1>3 DEF Enter
<1>4. ASSUME NEW u \in Users, EnterResume(u) PROVE TypeOK'
  BY <1>4 DEF EnterResume, EnterBody
<1>5. ASSUME NEW u \in Users, OpenStep(u) PROVE TypeOK'
  <2>1. CASE Connect(u)
    BY <2>1 DEF Connect, registry
  <2>2. CASE Ready(u)
    BY <2>2, LifecycleAssumption DEF Ready, Leave, Release, registry
  <2>3. CASE DatabaseLocked(u)
    <3>1. connected' \in [Clients -> BOOLEAN]
      BY <2>3, StopTypes DEF DatabaseLocked
    <3>2. attempt' \in [Users -> 0 .. MaxRetries - 1]
      BY <2>3, LifecycleAssumption DEF DatabaseLocked
    <3> QED
      BY <2>3, <3>1, <3>2 DEF DatabaseLocked, registry
  <2>4. CASE ConnectFails(u)
    <3>1. CASE refs' = 0
      BY <2>4, <3>1 DEF ConnectFails
    <3>2. CASE refs' # 0
      <4>1. PICK to \in {"idle", "has"} : Leave(u, to)
        BY <2>4, <3>2, PartLeaves DEF ConnectFails
      <4>2. using' \in [Users -> Clients \cup {NoClient}]
        BY <2>4, <3>2, PartLeaves DEF ConnectFails
      <4>3. refs' \in Nat
        BY <2>4 DEF ConnectFails, Dropped
      <4> QED
        BY <2>4, <3>2, <4>1, <4>2, <4>3, LeaveTypes DEF ConnectFails
    <3> QED
      BY <3>1, <3>2
  <2>5. CASE Aborted(u)
    <3>1. connected' \in [Clients -> BOOLEAN]
      BY <2>5, StopTypes DEF Aborted
    <3>2. using' \in [Users -> Clients \cup {NoClient}]
      BY <2>5, PartLeaves DEF Aborted
    <3>3. PICK to \in {"idle", "has"} : Leave(u, to)
      BY <2>5, PartLeaves DEF Aborted
    <3> QED
      BY <2>5, <3>1, <3>2, <3>3, LeaveTypes DEF Aborted, registry
  <2> QED
    BY <1>5, <2>1, <2>2, <2>3, <2>4, <2>5 DEF OpenStep
<1>6. ASSUME NEW u \in Users, LeaveStep(u) PROVE TypeOK'
  <2>0. ASSUME NEW l, ExitBody(u, l), l \in Locks \/ holder' = holder
        PROVE  /\ refs' \in Nat
               /\ holder' \in [Locks -> Users \cup {NoUser}]
               /\ l \in Locks => waitsOn' \in [Users -> Locks \cup {NoLock}]
               /\ pc' \in [Users -> Phases]
               /\ using' \in [Users -> Clients \cup {NoClient}]
    BY <2>0, ExitShape DEF Dropped, ExitBody
  <2>1. CASE Exit(u)
    <3>1. lock \in Locks
      BY <2>1 DEF Exit
    <3> QED
      BY <2>0, <2>1, <3>1 DEF Exit
  <2>2. CASE ExitUnlocked(u)
    BY <2>2, PartTypes DEF ExitUnlocked, registry
  <2>3. CASE ExitResume(u)
    BY <2>3, ExitShape DEF ExitResume, ExitBody, Dropped
  <2>4. CASE Stopped(u)
    <3>1. connected' \in [Clients -> BOOLEAN]
      BY <2>4, StopTypes DEF Stopped
    <3>2. using' \in [Users -> Clients \cup {NoClient}]
      BY <2>4, PartLeaves DEF Stopped
    <3>3. PICK to \in {"idle", "has"} : Leave(u, to)
      BY <2>4, PartLeaves DEF Stopped
    <3> QED
      BY <2>4, <3>1, <3>2, <3>3, LeaveTypes DEF Stopped
  <2> QED
    BY <1>6, <2>1, <2>2, <2>3, <2>4 DEF LeaveStep
<1>7. ASSUME NEW u \in Users, CloseStep(u) PROVE TypeOK'
  <2>1. ASSUME NEW n \in Nat, CloseBody(u, n)
        PROVE  /\ instance' \in Clients \cup {NoClient}
               /\ refs' \in Nat
               /\ lock' \in Locks \cup {NoLock}
               /\ pc' \in [Users -> Phases]
               /\ using' \in [Users -> Clients \cup {NoClient}]
    BY <2>1 DEF CloseBody, PopEntries
  <2>2. CASE Close(u)
    BY <2>1, <2>2 DEF Close, registry
  <2>3. CASE CloseResume(u)
    BY <2>1, <2>3 DEF CloseResume
  <2>4. CASE Closed(u)
    <3>1. connected' \in [Clients -> BOOLEAN]
      BY <2>4, StopTypes DEF Closed
    <3> QED
      BY <2>4, <3>1 DEF Closed, PopEntries, Forget
  <2> QED
    BY <1>7, <2>2, <2>3, <2>4 DEF CloseStep
<1>8. ASSUME NEW u \in Users, Cancel(u) PROVE TypeOK'
  BY <1>8, CutOffTypes DEF Cancel
<1>9. CASE UNCHANGED vars
  BY <1>9 DEF vars
<1> QED
  BY <1>1, <1>3, <1>4, <1>5, <1>6, <1>7, <1>8, <1>9 DEF Next

(* Type correctness: every variable of the client lifecycle (client.py)    *)
(* keeps its type under every fault; in particular the count, which the    *)
(* code clamps in __aenter__ and __aexit__, is never negative.             *)
THEOREM TypeCorrect == Spec => []TypeOK
<1>1. Init => TypeOK
  BY LifecycleAssumption DEF Init, TypeOK, Phases
<1> QED
  BY <1>1, TypeStep, PTL DEF Spec

-----------------------------------------------------------------------------
(* Leave releases what the coroutine holds and touches nobody else.        *)
LEMMA LeaveReleases ==
  ASSUME TypeOK, HeldOnlyByLifecycleOp, NEW u \in Users, NEW to \in Phases,
         Leave(u, to)
  PROVE  HeldOnlyByLifecycleOp'
BY DEF TypeOK, Leave, Release, HeldOnlyByLifecycleOp, LifecycleOp

(* So does a step in which a coroutine that holds nothing goes from one    *)
(* phase outside of the critical sections to another.                      *)
LEMMA OutsiderHoldsNothing ==
  ASSUME TypeOK, HeldOnlyByLifecycleOp, NEW u \in Users, u \notin LifecycleOp,
         holder' = holder, pc' \in [Users -> Phases],
         waitsOn' \in [Users -> Locks \cup {NoLock}],
         \A v \in Users \ {u} : pc'[v] = pc[v] /\ waitsOn'[v] = waitsOn[v]
  PROVE  HeldOnlyByLifecycleOp'
BY DEF TypeOK, HeldOnlyByLifecycleOp, LifecycleOp

(* The lock is taken by a coroutine that held none and starts or stops.    *)
LEMMA TakingIsAnOperation ==
  ASSUME TypeOK, HeldOnlyByLifecycleOp, NEW u \in Users, NEW l \in Locks,
         NEW to \in {"opening", "stopping"}, u \notin LifecycleOp,
         holder' = [holder EXCEPT ![l] = u],
         waitsOn' = [waitsOn EXCEPT ![u] = l],
         pc' = [pc EXCEPT ![u] = to]
  PROVE  HeldOnlyByLifecycleOp'
BY DEF TypeOK, HeldOnlyByLifecycleOp, LifecycleOp, Phases

LEMMA HeldStep ==
  ASSUME TypeOK, TypeOK', HeldOnlyByLifecycleOp, [Next]_vars
  PROVE  HeldOnlyByLifecycleOp'
<1>0. /\ pc \in [Users -> Phases] /\ pc' \in [Users -> Phases]
      /\ waitsOn \in [Users -> Locks \cup {NoLock}]
      /\ waitsOn' \in [Users -> Locks \cup {NoLock}]
      /\ {"idle", "has", "inside"} \subseteq Phases
  BY DEF TypeOK, Phases
<1>1. ASSUME NEW u \in Users, GetClient(u) PROVE HeldOnlyByLifecycleOp'
  BY <1>0, <1>1, OutsiderHoldsNothing
  DEF GetClient, GetCached, GetNew, LifecycleOp
<1>2. ASSUME NEW u \in Users, NEW l \in Locks, u \notin LifecycleOp,
             EnterBody(u, l)
      PROVE  HeldOnlyByLifecycleOp'
  <2>1. CASE refs = 0
    BY <1>2, <2>1, TakingIsAnOperation DEF EnterBody
  <2>2. CASE refs # 0
    BY <1>0, <1>2, <2>2, OutsiderHoldsNothing DEF EnterBody
  <2> QED
    BY <2>1, <2>2
<1>3. ASSUME NEW u \in Users, NEW l \in Locks, u \notin LifecycleOp,
             ExitBody(u, l)
      PROVE  HeldOnlyByLifecycleOp'
  <2>1. CASE refs' = 0
    BY <1>3, <2>1, TakingIsAnOperation, ExitShape
  <2>2. CASE refs' # 0
    BY <1>0, <1>3, <2>2, OutsiderHoldsNothing, ExitShape
  <2> QED
    BY <2>1, <2>2
<1>4. ASSUME NEW u \in Users, Enter(u) PROVE HeldOnlyByLifecycleOp'
  <2>1. u \notin LifecycleOp
    BY <1>4 DEF Enter, LifecycleOp
  <2>2. PICK l \in Locks : IF holder[l] = NoUser
                             THEN EnterBody(u, l)
                             ELSE /\ pc' = [pc EXCEPT ![u] = "entering"]
                                  /\ waitsOn' = [waitsOn EXCEPT ![u] = l]
                                  /\ UNCHANGED <<refs, holder>>
    BY <1>4 DEF Enter
  <2>3. CASE EnterBody(u, l)
    BY <1>2, <2>1, <2>3
  <2>4. CASE ~EnterBody(u, l)
    BY <1>0, <2>1, <2>2, <2>4, OutsiderHoldsNothing
  <2> QED
    BY <2>3, <2>4
<1>5. ASSUME NEW u \in Users, EnterResume(u) PROVE HeldOnlyByLifecycleOp'
  <2>1. u \notin LifecycleOp
    BY <1>5 DEF EnterResume, LifecycleOp
  <2>2. CASE waitsOn[u] \in Locks
    BY <1>2, <1>5, <2>1, <2>2 DEF EnterResume
  <2>3. CASE waitsOn[u] \notin Locks
    <3>1. holder' = holder
      BY <1>5, <2>3 DEF EnterResume, EnterBody, TypeOK
    <3> QED
      BY <1>0, <1>5, <2>1, <3>1, OutsiderHoldsNothing
      DEF EnterResume, EnterBody
  <2> QED
    BY <2>2, <2>3
<1>6. ASSUME NEW u \in Users, OpenStep(u) PROVE HeldOnlyByLifecycleOp'
  <2>1. CASE Connect(u) \/ DatabaseLocked(u)
    BY <2>1 DEF Connect, DatabaseLocked, HeldOnlyByLifecycleOp, LifecycleOp
  <2>2. CASE Ready(u) \/ Aborted(u)
    BY <1>0, <2>2, LeaveReleases, PartLeaves DEF Ready, Aborted
  <2>3. CASE ConnectFails(u)
    <3>1. CASE refs' # 0
      BY <1>0, <2>3, <3>1, LeaveReleases, PartLeaves DEF ConnectFails
    <3>2. CASE refs' = 0
      BY <2>3, <3>2
      DEF ConnectFails, HeldOnlyByLifecycleOp, LifecycleOp, TypeOK
    <3> QED
      BY <3>1, <3>2
  <2> QED
    BY <1>6, <2>1, <2>2, <2>3 DEF OpenStep
<1>7. ASSUME NEW u \in Users, LeaveStep(u) PROVE HeldOnlyByLifecycleOp'
  <2>1. CASE Exit(u)
    <3>1. u \notin LifecycleOp /\ lock \in Locks
      BY <2>1 DEF Exit, LifecycleOp, TypeOK
    <3>2. CASE ExitBody(u, lock)
      BY <1>3, <3>1, <3>2
    <3>3. CASE ~ExitBody(u, lock)
      BY <1>0, <2>1, <3>1, <3>3, OutsiderHoldsNothing DEF Exit
    <3> QED
      BY <3>2, <3>3
  <2>2. CASE ExitUnlocked(u)
    BY <1>0, <2>2, OutsiderHoldsNothing, PartTypes DEF ExitUnlocked, LifecycleOp
  <2>3. CASE ExitResume(u)
    <3>1. u \notin LifecycleOp
      BY <2>3 DEF ExitResume, LifecycleOp
    <3>2. CASE waitsOn[u] \in Locks
      BY <1>3, <2>3, <3>1, <3>2 DEF ExitResume
    <3>3. CASE waitsOn[u] \notin Locks
      <4>1. holder' = holder
        BY <2>3, <3>3 DEF ExitResume, ExitBody, TypeOK
      <4> QED
        BY <1>0, <2>3, <3>1, <4>1, OutsiderHoldsNothing, ExitShape
        DEF ExitResume
    <3> QED
      BY <3>2, <3>3
  <2>4. CASE Stopped(u)
    BY <1>0, <2>4, LeaveReleases, PartLeaves DEF Stopped
  <2> QED
    BY <1>7, <2>1, <2>2, <2>3, <2>4 DEF LeaveStep
<1>8. ASSUME NEW u \in Users, CloseStep(u) PROVE HeldOnlyByLifecycleOp'
  <2>1. u \notin LifecycleOp /\ holder' = holder
    BY <1>8 DEF CloseStep, Close, CloseResume, Closed, LifecycleOp
  <2>2. \A v \in Users \ {u} : pc'[v] = pc[v] /\ waitsOn'[v] = waitsOn[v]
    BY <1>0, <1>8
    DEF CloseStep, Close, CloseResume, Closed, CloseBody
  <2> QED
    BY <1>0, <2>1, <2>2, OutsiderHoldsNothing
<1>9. ASSUME NEW u \in Users, Cancel(u) PROVE HeldOnlyByLifecycleOp'
  BY <1>0, <1>9, LeaveReleases DEF Cancel, CutOff
<1>10. CASE UNCHANGED vars
  BY <1>10 DEF vars, HeldOnlyByLifecycleOp, LifecycleOp
<1> QED
  BY <1>1, <1>4, <1>5, <1>6, <1>7, <1>8, <1>9, <1>10 DEF Next

(* No fault, cancellation and forced close included, leaves a lock object  *)
(* of _CLIENT_ASYNC_LOCKS (client.py:217, 297, 457) held by a coroutine    *)
(* that is not connecting or stopping.                                     *)
THEOREM HeldOnly == Spec => []HeldOnlyByLifecycleOp
<1>1. Init => HeldOnlyByLifecycleOp
  BY DEF Init, HeldOnlyByLifecycleOp
<1> QED
  BY <1>1, HeldStep, TypeCorrect, PTL DEF Spec

-----------------------------------------------------------------------------
(* What a coroutine does that is neither cancelled nor closes by name.      *)
UseStep(u) ==
  GetClient(u) \/ Enter(u) \/ EnterResume(u) \/ OpenStep(u) \/ LeaveStep(u)

(* As long as nobody closes by name, the dictionary keeps one lock object, *)
(* so everybody that waits for a lock or holds one fetched that object.    *)
Bound == {"entering", "leaving", "opening", "aborting", "stopping"}

SingleLock ==
  /\ \A u \in Users : waitsOn[u] \in {NoLock, lock}
  /\ \A u \in Users : pc[u] \in Bound => waitsOn[u] \in Locks
  /\ \A u \in Users : pc[u] = "inside" => lock # NoLock

NobodyCloses == \A u \in Users : pc[u] \notin {"closeWait", "closing"}

OperationsHold == \A u \in LifecycleOp : holder[waitsOn[u]] = u

LEMMA Serialized ==
  ASSUME TypeOK, SingleLock, OperationsHold
  PROVE  StartStopSerialized
BY LifecycleAssumption
DEF StartStopSerialized, SingleLock, OperationsHold, LifecycleOp, Bound

(* A coroutine that gets a free lock finds no operation in progress.       *)
LEMMA FreeLockNoOperation ==
  ASSUME TypeOK, SingleLock, OperationsHold, NEW l \in Locks,
         holder[l] = NoUser, l = lock \/ lock = NoLock
  PROVE  LifecycleOp = {}
BY LifecycleAssumption
DEF TypeOK, SingleLock, OperationsHold, LifecycleOp, Bound

LEMMA SingleLockInit == Init => SingleLock /\ OperationsHold /\ NobodyCloses
BY LifecycleAssumption
DEF Init, SingleLock, OperationsHold, NobodyCloses, LifecycleOp, Bound

LEMMA NobodyClosesStep ==
  ASSUME "close" \notin Faults, TypeOK, NobodyCloses, [Next]_vars
  PROVE  NobodyCloses'
<1> USE DEF NobodyCloses
<1>1. ASSUME NEW u \in Users, NEW to \in Phases \ {"closeWait", "closing"},
             pc' = [pc EXCEPT ![u] = to]
      PROVE  NobodyCloses'
  BY <1>1 DEF TypeOK
<1>2. ASSUME NEW u \in Users, UseStep(u) PROVE NobodyCloses'
  <2>1. CASE GetClient(u) \/ Enter(u) \/ EnterResume(u)
    BY <1>1, <2>1
    DEF GetClient, GetCached, GetNew, Enter, EnterResume, EnterBody, Phases
  <2>2. CASE OpenStep(u)
    BY <1>1, <2>2, PartTypes
    DEF OpenStep, Connect, Ready, DatabaseLocked, ConnectFails, Aborted, Leave,
        Phases
  <2>3. CASE LeaveStep(u)
    BY <1>1, <2>3, PartTypes, ExitShape
    DEF LeaveStep, Exit, ExitUnlocked, ExitResume, Stopped, Phases
  <2> QED
    BY <1>2, <2>1, <2>2, <2>3 DEF UseStep
<1>3. ASSUME NEW u \in Users, CloseStep(u) PROVE FALSE
  BY <1>3 DEF CloseStep, Close, CloseResume, Closed
<1>4. ASSUME NEW u \in Users, Cancel(u) PROVE NobodyCloses'
  BY <1>1, <1>4 DEF Cancel, CutOff, Leave, Release, Phases
<1>5. CASE UNCHANGED vars
  BY <1>5 DEF vars
<1> QED
  BY <1>2, <1>3, <1>4, <1>5 DEF Next, UseStep

LEMMA SingleLockStep ==
  ASSUME TypeOK, TypeOK', SingleLock, OperationsHold,
         NEW w \in Users, UseStep(w) \/ Cancel(w)
  PROVE  SingleLock' /\ OperationsHold'
<1> USE DEF SingleLock, OperationsHold, LifecycleOp, Bound
<1>1. ASSUME NEW u \in Users, GetClient(u)
      PROVE  SingleLock' /\ OperationsHold'
  BY <1>1 DEF TypeOK, GetClient, GetCached, GetNew, registry
<1>2. ASSUME NEW u \in Users, Enter(u)
      PROVE  SingleLock' /\ OperationsHold'
  BY <1>2, LifecycleAssumption DEF TypeOK, Enter, EnterBody
<1>3. ASSUME NEW u \in Users, EnterResume(u)
      PROVE  SingleLock' /\ OperationsHold'
  BY <1>3, LifecycleAssumption DEF TypeOK, EnterResume, EnterBody
<1>4. ASSUME NEW u \in Users, NEW to \in {"idle", "has", "inside"},
             Leave(u, to), lock' = lock, to = "inside" => lock # NoLock
      PROVE  SingleLock' /\ OperationsHold'
  BY <1>4, LifecycleAssumption DEF TypeOK, Leave, Release
<1>5. ASSUME NEW u \in Users, OpenStep(u)
      PROVE  SingleLock' /\ OperationsHold'
  <2>1. CASE Connect(u) \/ DatabaseLocked(u)
    BY <2>1 DEF Connect, DatabaseLocked, registry
  <2>2. CASE Ready(u)
    BY <1>4, <2>2, LifecycleAssumption DEF Ready, registry
  <2>3. CASE ConnectFails(u)
    <3>1. CASE refs' # 0
      BY <1>4, <2>3, <3>1, PartLeaves DEF ConnectFails
    <3>2. CASE refs' = 0
      BY <2>3, <3>2 DEF ConnectFails, TypeOK
    <3> QED
      BY <3>1, <3>2
  <2>4. CASE Aborted(u)
    BY <1>4, <2>4, PartLeaves DEF Aborted, registry
  <2> QED
    BY <1>5, <2>1, <2>2, <2>3, <2>4 DEF OpenStep
<1>6. ASSUME NEW u \in Users, LeaveStep(u)
      PROVE  SingleLock' /\ OperationsHold'
  <2>0. ASSUME ExitBody(u, lock), lock \in Locks, lock' = lock,
               holder[lock] = NoUser
        PROVE  SingleLock' /\ OperationsHold'
    BY <2>0, ExitShape, LifecycleAssumption DEF TypeOK
  <2>1. CASE Exit(u)
    <3>1. CASE holder[lock] = NoUser
      BY <2>0, <2>1, <3>1 DEF Exit, TypeOK
    <3>2. CASE holder[lock] # NoUser
      BY <2>1, <3>2, LifecycleAssumption DEF TypeOK, Exit
    <3> QED
      BY <3>1, <3>2
  <2>2. CASE ExitUnlocked(u)
    BY <2>2, LifecycleAssumption DEF ExitUnlocked
  <2>3. CASE ExitResume(u)
    <3>1. waitsOn[u] = lock /\ lock \in Locks
      BY <2>3, LifecycleAssumption DEF ExitResume
    <3> QED
      BY <2>0, <2>3, <3>1 DEF ExitResume
  <2>4. CASE Stopped(u)
    BY <1>4, <2>4, PartLeaves DEF Stopped
  <2> QED
    BY <1>6, <2>1, <2>2, <2>3, <2>4 DEF LeaveStep
<1>7. ASSUME NEW u \in Users, Cancel(u)
      PROVE  SingleLock' /\ OperationsHold'
  BY <1>4, <1>7 DEF Cancel, CutOff
<1> QED
  BY <1>1, <1>2, <1>3, <1>5, <1>6, <1>7 DEF UseStep

(* As long as nobody calls close_client_by_name, __aenter__ and __aexit__  *)
(* (client.py:212-310) connect and stop a client of the key one   *)
(* at a time, even when coroutines are cancelled in the middle.            *)
THEOREM StartStop ==
  ASSUME "close" \notin Faults
  PROVE  Spec => []StartStopSerialized
<1>1. Init => SingleLock /\ OperationsHold /\ NobodyCloses
  BY SingleLockInit
<1>2. TypeOK /\ TypeOK' /\ SingleLock /\ OperationsHold /\ NobodyCloses /\ [Next]_vars
        => SingleLock' /\ OperationsHold' /\ NobodyCloses'
  <2> SUFFICES ASSUME TypeOK, TypeOK', SingleLock, OperationsHold, NobodyCloses,
                      [Next]_vars
               PROVE  SingleLock' /\ OperationsHold'
    BY NobodyClosesStep
  <2>1. ASSUME NEW u \in Users, CloseStep(u) PROVE FALSE
    BY <2>1 DEF NobodyCloses, CloseStep, Close, CloseResume, Closed
  <2>2. CASE UNCHANGED vars
    BY <2>2 DEF vars, SingleLock, OperationsHold, LifecycleOp
  <2> QED
    BY <2>1, <2>2, SingleLockStep DEF Next, UseStep
<1>3. TypeOK /\ SingleLock /\ OperationsHold => StartStopSerialized
  BY Serialized
<1> QED
  BY <1>1, <1>2, <1>3, TypeCorrect, PTL DEF Spec

-----------------------------------------------------------------------------
(* While a coroutine connects or stops the client, nobody else counts as a *)
(* reference: the first one in is alone, the last one out too.             *)
Alone == \A u \in LifecycleOp : Referencing \subseteq {u}

RefsInvariant == SingleLock /\ OperationsHold /\ RefsCountUsers /\ Alone

LEMMA ReferencingFinite ==
  /\ IsFiniteSet(Referencing)
  /\ Cardinality(Referencing) \in Nat
  /\ Cardinality(Referencing) = 0 <=> Referencing = {}
BY LifecycleAssumption, FS_Subset, FS_CardinalityType, FS_EmptySet
DEF Referencing

LEMMA OneMore ==
  ASSUME RefsCountUsers, NEW u, u \notin Referencing,
         Referencing' = Referencing \cup {u}, refs' = refs + 1
  PROVE  RefsCountUsers'
<1>1. Cardinality(Referencing \cup {u}) = Cardinality(Referencing) + 1
  BY ReferencingFinite, FS_AddElement
<1> QED
  BY <1>1 DEF RefsCountUsers

LEMMA OneLess ==
  ASSUME RefsCountUsers, NEW u \in Referencing,
         Referencing' = Referencing \ {u}, refs' = Dropped(refs)
  PROVE  RefsCountUsers'
<1>1. Cardinality(Referencing \ {u}) = Cardinality(Referencing) - 1
  BY ReferencingFinite, FS_RemoveElement
<1>2. refs \in Nat /\ refs # 0
  BY ReferencingFinite DEF RefsCountUsers
<1>3. refs' = refs - 1
  BY <1>2 DEF Dropped
<1> QED
  BY <1>1, <1>3 DEF RefsCountUsers

LEMMA RefsInit == ASSUME Init PROVE RefsInvariant /\ NobodyCloses
<1>1. Referencing = {} /\ LifecycleOp = {}
  BY DEF Init, Referencing, LifecycleOp
<1>2. RefsCountUsers
  BY <1>1, FS_EmptySet DEF Init, RefsCountUsers
<1> QED
  BY <1>1, <1>2, SingleLockInit DEF RefsInvariant, Alone

LEMMA RefsStep ==
  ASSUME TypeOK, TypeOK', RefsInvariant, NEW w \in Users, UseStep(w)
  PROVE  RefsCountUsers' /\ Alone'
<1>0. SingleLock /\ OperationsHold /\ RefsCountUsers /\ Alone
  BY DEF RefsInvariant
<1>1. ASSUME NEW u \in Users, Referencing' = Referencing, refs' = refs,
             LifecycleOp' \subseteq LifecycleOp
      PROVE  RefsCountUsers' /\ Alone'
  BY <1>0, <1>1 DEF RefsCountUsers, Alone
<1>2. ASSUME NEW u \in Users, NEW l \in Locks, u \notin Referencing,
             holder[l] = NoUser, l = lock \/ lock = NoLock, EnterBody(u, l)
      PROVE  RefsCountUsers' /\ Alone'
  <2>1. LifecycleOp = {}
    BY <1>0, <1>2, FreeLockNoOperation
  <2>2. Referencing' = Referencing \cup {u}
    BY <1>2 DEF EnterBody, Referencing, TypeOK
  <2>3. RefsCountUsers'
    BY <1>0, <1>2, <2>2, OneMore DEF EnterBody
  <2>4. CASE refs = 0
    <3>1. Referencing' = {u}
      BY <1>0, <2>2, <2>4, ReferencingFinite DEF RefsCountUsers
    <3>2. LifecycleOp' \subseteq {u}
      BY <1>2, <2>1, <2>4 DEF EnterBody, LifecycleOp, TypeOK
    <3> QED
      BY <2>3, <3>1, <3>2 DEF Alone
  <2>5. CASE refs # 0
    <3>1. LifecycleOp' = {}
      BY <1>2, <2>1, <2>5 DEF EnterBody, LifecycleOp, TypeOK
    <3> QED
      BY <2>3, <3>1 DEF Alone
  <2> QED
    BY <2>4, <2>5
<1>3. ASSUME NEW u \in Users, NEW l \in Locks, u \in Referencing,
             pc[u] # "opening", holder[l] = NoUser, l = lock, ExitBody(u, l)
      PROVE  RefsCountUsers' /\ Alone'
  <2>1. LifecycleOp = {}
    BY <1>0, <1>3, FreeLockNoOperation
  <2>2. Referencing' = Referencing \ {u}
    BY <1>3, ExitShape DEF Referencing, TypeOK
  <2>3. RefsCountUsers'
    BY <1>0, <1>3, <2>2, OneLess DEF ExitBody
  <2>4. CASE refs' = 0
    <3>1. Referencing' = {}
      BY <2>2, <2>3, <2>4, ReferencingFinite, FS_RemoveElement, FS_EmptySet
      DEF RefsCountUsers
    <3> QED
      BY <2>3, <3>1 DEF Alone
  <2>5. CASE refs' # 0
    <3>1. LifecycleOp' = {}
      BY <1>3, <2>1, <2>5, ExitShape DEF LifecycleOp, TypeOK
    <3> QED
      BY <2>3, <3>1 DEF Alone
  <2> QED
    BY <2>4, <2>5
<1>4. ASSUME NEW u \in Users, GetClient(u)
      PROVE  RefsCountUsers' /\ Alone'
  BY <1>1, <1>4
  DEF GetClient, GetCached, GetNew, registry, Referencing, LifecycleOp, TypeOK
<1>5. ASSUME NEW u \in Users, Enter(u)
      PROVE  RefsCountUsers' /\ Alone'
  <2>1. u \notin Referencing
    BY <1>5 DEF Enter, Referencing
  <2>2. PICK l \in Locks :
          /\ l = lock \/ lock = NoLock
          /\ IF holder[l] = NoUser
               THEN EnterBody(u, l)
               ELSE /\ pc' = [pc EXCEPT ![u] = "entering"]
                    /\ UNCHANGED <<refs, holder>>
    BY <1>5 DEF Enter
  <2>3. CASE holder[l] = NoUser
    BY <1>2, <2>1, <2>2, <2>3
  <2>4. CASE holder[l] # NoUser
    BY <1>1, <1>5, <2>2, <2>4 DEF Enter, Referencing, LifecycleOp, TypeOK
  <2> QED
    BY <2>3, <2>4
<1>6. ASSUME NEW u \in Users, EnterResume(u)
      PROVE  RefsCountUsers' /\ Alone'
  BY <1>0, <1>2, <1>6, LifecycleAssumption
  DEF EnterResume, Referencing, SingleLock, Bound
<1>7. ASSUME NEW u \in Users, OpenStep(u)
      PROVE  RefsCountUsers' /\ Alone'
  <2>1. CASE Connect(u) \/ DatabaseLocked(u)
    BY <1>1, <2>1
    DEF Connect, DatabaseLocked, registry, Referencing, LifecycleOp
  <2>2. CASE Ready(u)
    BY <1>1, <2>2 DEF Ready, Leave, Release, registry, Referencing, LifecycleOp, TypeOK
  <2>3. CASE ConnectFails(u)
    <3>1. u \in Referencing /\ u \in LifecycleOp
      BY <2>3 DEF ConnectFails, Referencing, LifecycleOp
    <3>2. Referencing' = Referencing \ {u}
      BY <2>3, PartTypes DEF ConnectFails, Referencing, TypeOK
    <3>3. RefsCountUsers'
      BY <1>0, <2>3, <3>1, <3>2, OneLess DEF ConnectFails
    <3>4. Referencing' = {}
      BY <1>0, <3>1, <3>2 DEF Alone
    <3> QED
      BY <3>3, <3>4 DEF Alone
  <2>4. CASE Aborted(u)
    BY <1>1, <2>4, PartTypes
    DEF Aborted, registry, Referencing, LifecycleOp, TypeOK
  <2> QED
    BY <1>7, <2>1, <2>2, <2>3, <2>4 DEF OpenStep
<1>8. ASSUME NEW u \in Users, LeaveStep(u)
      PROVE  RefsCountUsers' /\ Alone'
  <2>1. CASE Exit(u)
    <3>1. u \in Referencing /\ pc[u] # "opening" /\ lock \in Locks
      BY <2>1 DEF Exit, Referencing, TypeOK
    <3>2. CASE holder[lock] = NoUser
      BY <1>3, <2>1, <3>1, <3>2 DEF Exit
    <3>3. CASE holder[lock] # NoUser
      BY <1>1, <2>1, <3>3 DEF Exit, Referencing, LifecycleOp, TypeOK
    <3> QED
      BY <3>2, <3>3
  <2>2. CASE ExitUnlocked(u)
    BY <1>0, <2>2 DEF ExitUnlocked, SingleLock
  <2>3. CASE ExitResume(u)
    BY <1>0, <1>3, <2>3, LifecycleAssumption
    DEF ExitResume, Referencing, SingleLock, Bound
  <2>4. CASE Stopped(u)
    <3>1. Referencing = {} /\ refs = 0
      BY <1>0, <2>4, ReferencingFinite
      DEF Stopped, Alone, LifecycleOp, Referencing, RefsCountUsers
    <3> QED
      BY <1>1, <2>4, <3>1, PartTypes
      DEF Stopped, Referencing, LifecycleOp, TypeOK
  <2> QED
    BY <1>8, <2>1, <2>2, <2>3, <2>4 DEF LeaveStep
<1> QED
  BY <1>4, <1>5, <1>6, <1>7, <1>8 DEF UseStep

LEMMA UseKeepsInvariant ==
  ASSUME TypeOK, TypeOK', RefsInvariant, NEW u \in Users, UseStep(u)
  PROVE  RefsInvariant'
BY RefsStep, SingleLockStep DEF RefsInvariant

(* With errors of the connection as the only fault every step is a use.    *)
LEMMA NextIsUse ==
  ASSUME Faults \subseteq {"fatal"}, NobodyCloses, Next
  PROVE  \E u \in Users : UseStep(u)
BY DEF NobodyCloses, Next, UseStep, CloseStep, Close, CloseResume, Closed, Cancel, CutOff

LEMMA LifeStep ==
  ASSUME Faults \subseteq {"fatal"}, TypeOK, TypeOK', RefsInvariant, NobodyCloses,
         [Next]_vars
  PROVE  RefsInvariant' /\ NobodyCloses'
<1>1. NobodyCloses'
  BY NobodyClosesStep
<1>2. CASE Next
  BY <1>1, <1>2, NextIsUse, UseKeepsInvariant
<1>3. CASE UNCHANGED vars
  BY <1>1, <1>3
  DEF vars, RefsInvariant, RefsCountUsers, Alone, Referencing, LifecycleOp,
      SingleLock, OperationsHold
<1> QED
  BY <1>2, <1>3

(* With errors of the connection as the only fault, the reference count    *)
(* _CLIENT_REFS (client.py:218, 282, 299) equals the number of coroutines  *)
(* between the increment of __aenter__ and the decrement of __aexit__.     *)
THEOREM RefsCount ==
  ASSUME Faults \subseteq {"fatal"}
  PROVE  Spec => []RefsCountUsers
<1>1. Init => RefsInvariant /\ NobodyCloses
  BY RefsInit
<1>2. TypeOK /\ TypeOK' /\ RefsInvariant /\ NobodyCloses /\ [Next]_vars
        => RefsInvariant' /\ NobodyCloses'
  BY LifeStep
<1>3. RefsInvariant => RefsCountUsers
  BY DEF RefsInvariant
<1> QED
  BY <1>1, <1>2, <1>3, TypeCorrect, PTL DEF Spec

(* A step that stops a client runs under the lock with nobody else inside. *)
LEMMA StopsOnlyUnused ==
  ASSUME TypeOK, RefsInvariant, NEW w \in Users, UseStep(w),
         NEW u \in Users, pc[u] = "inside", connected[using[u]]
  PROVE  connected'[using[u]]
<1>1. SingleLock /\ Alone
  BY DEF RefsInvariant
<1>2. LifecycleOp = {}
  <2>1. u \in Referencing /\ u \notin LifecycleOp
    BY DEF Referencing, LifecycleOp
  <2> QED
    BY <1>1, <2>1 DEF Alone
<1>3. ASSUME NEW v \in Users,
             \/ GetClient(v) \/ Enter(v) \/ EnterResume(v)
             \/ Exit(v) \/ ExitUnlocked(v) \/ ExitResume(v)
      PROVE  connected' = connected
  BY <1>3
  DEF GetClient, GetCached, GetNew, Enter, EnterResume, Exit, ExitUnlocked,
      ExitResume
<1>4. ASSUME NEW v \in Users,
             OpenStep(v) \/ Stopped(v)
      PROVE  FALSE
  BY <1>1, <1>2, <1>4
  DEF LifecycleOp, OpenStep, Connect, Ready, DatabaseLocked, ConnectFails,
      Aborted, Stopped
<1> QED
  BY <1>3, <1>4 DEF UseStep, LeaveStep

(* With errors of the connection as the only fault, no step of __aenter__  *)
(* or __aexit__ stops the client of the key under a coroutine inside it.   *)
THEOREM NeverStopped ==
  ASSUME Faults \subseteq {"fatal"}
  PROVE  Spec => NeverStoppedUnderUser
<1>1. Init => RefsInvariant /\ NobodyCloses
  BY RefsInit
<1>2. TypeOK /\ TypeOK' /\ RefsInvariant /\ NobodyCloses /\ [Next]_vars
        => RefsInvariant' /\ NobodyCloses'
  BY LifeStep
<1>3. TypeOK /\ RefsInvariant /\ NobodyCloses /\ [Next]_vars
        => [\A u \in Users :
              pc[u] = "inside" /\ pc'[u] = "inside" /\ connected[using[u]]
                => connected'[using[u]]]_vars
  BY StopsOnlyUnused, NextIsUse
<1> QED
  BY <1>1, <1>2, <1>3, TypeCorrect, PTL DEF Spec, NeverStoppedUnderUser

-----------------------------------------------------------------------------
(* Refinement: every step is a step of the shared connection or stutters.  *)
(* Each lemma below is one way in which the members and the link change.   *)

LEMMA LinkValues ==
  ASSUME RefsInvariant
  PROVE  /\ Link = "starting" <=> \E u \in Users : pc[u] = "opening"
         /\ Link = "stopping" <=>
              \E u \in Users : pc[u] \in {"aborting", "stopping"}
         /\ Link = "up" <=> LifecycleOp = {} /\ Referencing # {}
         /\ Link = "down" <=> LifecycleOp = {} /\ Referencing = {}
<1>1. ASSUME NEW u \in Users, NEW v \in Users, pc[u] = "opening",
             pc[v] \in {"aborting", "stopping"}
      PROVE  FALSE
  BY <1>1 DEF RefsInvariant, Alone, LifecycleOp, Referencing
<1> QED
  BY <1>1 DEF Link, LifecycleOp

(* A coroutine that moves without taking or giving up a part stutters.     *)
LEMMA Stutters ==
  ASSUME TypeOK, NEW u \in Users, pc' = [pc EXCEPT ![u] = pc'[u]],
         \/ {pc[u], pc'[u]} \subseteq {"idle", "has", "entering"}
         \/ {pc[u], pc'[u]} \subseteq {"inside", "leaving"}
  PROVE  Referencing' = Referencing /\ Link' = Link
<1>1. Referencing' = Referencing
  BY DEF TypeOK, Referencing
<1>2. /\ \A v \in Users : pc'[v] = "opening" <=> pc[v] = "opening"
      /\ \A v \in Users : pc'[v] \in {"aborting", "stopping"}
                            <=> pc[v] \in {"aborting", "stopping"}
  BY DEF TypeOK
<1> QED
  BY <1>1, <1>2 DEF Link

LEMMA EnterMaps ==
  ASSUME TypeOK, RefsInvariant, RefsInvariant', NEW u \in Users,
         NEW l \in Locks, pc[u] \in {"has", "entering"}, holder[l] = NoUser,
         l = lock \/ lock = NoLock, EnterBody(u, l)
  PROVE  Shared!Start(u) \/ Shared!Join(u)
<1>1. LifecycleOp = {}
  BY FreeLockNoOperation DEF RefsInvariant
<1>2. u \notin Referencing /\ Referencing' = Referencing \cup {u}
  BY DEF EnterBody, Referencing, TypeOK
<1>3. refs = 0 <=> Referencing = {}
  BY ReferencingFinite DEF RefsInvariant, RefsCountUsers
<1>4. CASE refs = 0
  <2>1. Link = "down"
    BY <1>1, <1>3, <1>4, LinkValues
  <2>2. Link' = "starting"
    BY <1>4 DEF EnterBody, Link, TypeOK
  <2> QED
    BY <1>2, <1>3, <1>4, <2>1, <2>2 DEF Shared!Start
<1>5. CASE refs # 0
  <2>1. Link = "up"
    BY <1>1, <1>3, <1>5, LinkValues
  <2>2. LifecycleOp' = {}
    BY <1>1, <1>5 DEF EnterBody, LifecycleOp, TypeOK
  <2>3. Link' = "up"
    BY <1>2, <2>2 DEF Link, LifecycleOp
  <2> QED
    BY <1>2, <2>1, <2>3 DEF Shared!Join
<1> QED
  BY <1>4, <1>5

LEMMA ExitMaps ==
  ASSUME TypeOK, RefsInvariant, RefsInvariant', NEW u \in Users,
         lock \in Locks, pc[u] \in {"inside", "leaving"},
         holder[lock] = NoUser, ExitBody(u, lock)
  PROVE  Shared!Leave(u)
<1>1. LifecycleOp = {}
  BY FreeLockNoOperation DEF RefsInvariant
<1>2. u \in Referencing /\ Referencing' = Referencing \ {u}
  BY ExitShape DEF Referencing, TypeOK
<1>3. Link = "up"
  BY <1>1, <1>2, LinkValues
<1>4. refs' = 0 <=> Referencing = {u}
  BY <1>2, ReferencingFinite, FS_RemoveElement, FS_EmptySet
  DEF RefsInvariant, RefsCountUsers
<1>5. CASE refs' = 0
  <2>1. Link' = "stopping"
    BY <1>1, <1>5, ExitShape DEF Link, LifecycleOp, TypeOK
  <2> QED
    BY <1>2, <1>3, <1>4, <1>5, <2>1 DEF Shared!Leave
<1>6. CASE refs' # 0
  <2>1. LifecycleOp' = {}
    BY <1>1, <1>6, ExitShape DEF LifecycleOp, TypeOK
  <2>2. Link' = "up"
    BY <1>2, <1>4, <1>6, <2>1 DEF Link, LifecycleOp
  <2> QED
    BY <1>2, <1>3, <1>4, <1>6, <2>2 DEF Shared!Leave
<1> QED
  BY <1>5, <1>6

LEMMA OpenMaps ==
  ASSUME TypeOK, TypeOK', RefsInvariant, RefsInvariant', NEW u \in Users,
         OpenStep(u)
  PROVE  [Shared!Next]_(Shared!sharedVars)
<1>0. /\ Alone
      /\ \A v \in LifecycleOp : holder[waitsOn[v]] = v
      /\ \A v, w \in LifecycleOp : v = w
  BY Serialized DEF RefsInvariant, OperationsHold, StartStopSerialized
<1>1. CASE Connect(u) \/ DatabaseLocked(u)
  BY <1>1
  DEF Connect, DatabaseLocked, Shared!sharedVars, Referencing, Link
<1>2. CASE Ready(u)
  <2>1. LifecycleOp = {u} /\ Link = "starting" /\ u \in Referencing
    BY <1>0, <1>2 DEF Ready, LifecycleOp, Link, Referencing
  <2>2. Referencing' = Referencing /\ LifecycleOp' = {}
    BY <1>2, <2>1 DEF Ready, Leave, Release, Referencing, LifecycleOp, TypeOK
  <2>3. Link' = "up"
    BY <2>1, <2>2 DEF Link, LifecycleOp
  <2> QED
    BY <2>1, <2>2, <2>3 DEF Shared!Next, Shared!Started
<1>3. CASE ConnectFails(u)
  <2>1. LifecycleOp = {u} /\ Link = "starting" /\ Referencing = {u}
    BY <1>0, <1>3 DEF ConnectFails, LifecycleOp, Link, Referencing, Alone
  <2>2. refs' = 0
    <3>1. Cardinality({u}) = 1
      BY FS_Singleton
    <3>2. refs = 1
      BY <2>1, <3>1 DEF RefsInvariant, RefsCountUsers
    <3> QED
      BY <1>3, <3>2 DEF ConnectFails, Dropped
  <2>3. pc' = [pc EXCEPT ![u] = "aborting"]
    BY <1>3, <2>2 DEF ConnectFails
  <2>4. Referencing' = {} /\ Link' = "stopping"
    BY <2>1, <2>3 DEF Referencing, Link, LifecycleOp, TypeOK
  <2> QED
    BY <2>1, <2>4 DEF Shared!Next, Shared!Failed
<1>4. CASE Aborted(u)
  <2>1. LifecycleOp = {u} /\ Referencing = {}
    BY <1>0, <1>4 DEF Aborted, LifecycleOp, Referencing, Alone
  <2>2. Link = "stopping"
    BY <1>4, <2>1, LinkValues DEF Aborted
  <2>3. Referencing' = {} /\ LifecycleOp' = {}
    BY <1>4, <2>1, PartTypes DEF Aborted, Referencing, LifecycleOp, TypeOK
  <2>4. Link' = "down"
    BY <2>3 DEF Link, LifecycleOp
  <2> QED
    BY <2>1, <2>2, <2>3, <2>4 DEF Shared!Next, Shared!Down
<1> QED
  BY <1>1, <1>2, <1>3, <1>4 DEF OpenStep

LEMMA LeaveMaps ==
  ASSUME TypeOK, TypeOK', RefsInvariant, RefsInvariant', NEW u \in Users,
         LeaveStep(u)
  PROVE  [Shared!Next]_(Shared!sharedVars)
<1>1. CASE Exit(u)
  <2>1. lock \in Locks
    BY <1>1 DEF Exit, TypeOK
  <2>2. CASE holder[lock] = NoUser
    BY <1>1, <2>1, <2>2, ExitMaps DEF Exit, Shared!Next
  <2>3. CASE holder[lock] # NoUser
    <3>1. pc[u] = "inside" /\ pc' = [pc EXCEPT ![u] = "leaving"]
      BY <1>1, <2>3 DEF Exit
    <3>2. pc'[u] = "leaving"
      BY <3>1 DEF TypeOK
    <3> QED
      BY <3>1, <3>2, Stutters DEF Shared!sharedVars
  <2> QED
    BY <2>2, <2>3
<1>2. CASE ExitUnlocked(u)
  BY <1>2 DEF ExitUnlocked, RefsInvariant, SingleLock
<1>3. CASE ExitResume(u)
  <2>1. waitsOn[u] = lock /\ lock \in Locks
    BY <1>3, LifecycleAssumption
    DEF ExitResume, RefsInvariant, SingleLock, Bound
  <2> QED
    BY <1>3, <2>1, ExitMaps DEF ExitResume, Shared!Next
<1>4. CASE Stopped(u)
  <2>1. LifecycleOp = {u} /\ Referencing = {}
    BY <1>4, Serialized
    DEF Stopped, LifecycleOp, Referencing, RefsInvariant, Alone,
        StartStopSerialized
  <2>2. Link = "stopping"
    BY <1>4, <2>1, LinkValues DEF Stopped
  <2>3. Referencing' = {} /\ LifecycleOp' = {}
    BY <1>4, <2>1, PartTypes DEF Stopped, Referencing, LifecycleOp, TypeOK
  <2>4. Link' = "down"
    BY <2>3 DEF Link, LifecycleOp
  <2> QED
    BY <2>1, <2>2, <2>3, <2>4 DEF Shared!Next, Shared!Down
<1> QED
  BY <1>1, <1>2, <1>3, <1>4 DEF LeaveStep

LEMMA UseMaps ==
  ASSUME TypeOK, TypeOK', RefsInvariant, RefsInvariant', NEW w \in Users, UseStep(w)
  PROVE  [Shared!Next]_(Shared!sharedVars)
<1>1. ASSUME NEW u \in Users, GetClient(u)
      PROVE  [Shared!Next]_(Shared!sharedVars)
  <2>1. pc[u] = "idle" /\ pc' = [pc EXCEPT ![u] = "has"]
    BY <1>1 DEF GetClient, GetCached, GetNew
  <2>2. pc'[u] = "has"
    BY <2>1 DEF TypeOK
  <2> QED
    BY <2>1, <2>2, Stutters DEF Shared!sharedVars
<1>2. ASSUME NEW u \in Users, Enter(u)
      PROVE  [Shared!Next]_(Shared!sharedVars)
  <2>1. PICK l \in Locks :
          /\ l = lock \/ lock = NoLock
          /\ IF holder[l] = NoUser
               THEN EnterBody(u, l)
               ELSE pc' = [pc EXCEPT ![u] = "entering"]
    BY <1>2 DEF Enter
  <2>2. pc[u] = "has"
    BY <1>2 DEF Enter
  <2>3. CASE holder[l] = NoUser
    BY <2>1, <2>2, <2>3, EnterMaps DEF Shared!Next
  <2>4. CASE holder[l] # NoUser
    <3>1. pc' = [pc EXCEPT ![u] = "entering"]
      BY <2>1, <2>4
    <3>2. pc'[u] = "entering"
      BY <3>1 DEF TypeOK
    <3> QED
      BY <2>2, <3>1, <3>2, Stutters DEF Shared!sharedVars
  <2> QED
    BY <2>3, <2>4
<1>3. ASSUME NEW u \in Users, EnterResume(u)
      PROVE  [Shared!Next]_(Shared!sharedVars)
  <2>1. waitsOn[u] = lock /\ lock \in Locks
    BY <1>3, LifecycleAssumption
    DEF EnterResume, RefsInvariant, SingleLock, Bound
  <2> QED
    BY <1>3, <2>1, EnterMaps DEF EnterResume, Shared!Next
<1> QED
  BY <1>1, <1>2, <1>3, OpenMaps, LeaveMaps DEF UseStep

(* With connection errors as the only fault, the registry of client.py     *)
(* (get_client, __aenter__, __aexit__) implements one shared connection:   *)
(* the first coroutine in starts it, the last one out stops it.            *)
THEOREM Implements ==
  ASSUME Faults \subseteq {"fatal"}
  PROVE  Spec => ImplementsSharedConnection
<1>1. Init => RefsInvariant /\ NobodyCloses
  BY RefsInit
<1>2. TypeOK /\ TypeOK' /\ RefsInvariant /\ NobodyCloses /\ [Next]_vars
        => RefsInvariant' /\ NobodyCloses'
  BY LifeStep
<1>3. Init => Shared!Init
  BY DEF Init, Shared!Init, Referencing, Link
<1>4. ASSUME TypeOK, TypeOK', RefsInvariant, RefsInvariant', NobodyCloses, [Next]_vars
      PROVE  [Shared!Next]_(Shared!sharedVars)
  <2>1. CASE Next
    BY <1>4, <2>1, NextIsUse, UseMaps
  <2>2. CASE UNCHANGED vars
    BY <2>2 DEF vars, Shared!sharedVars, Referencing, Link
  <2> QED
    BY <1>4, <2>1, <2>2
<1> QED
  BY <1>1, <1>2, <1>3, <1>4, TypeCorrect, PTL
  DEF Spec, ImplementsSharedConnection, Shared!Spec
=============================================================================
