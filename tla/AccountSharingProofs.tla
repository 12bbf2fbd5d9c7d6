------------------------- MODULE AccountSharingProofs -------------------------
(***************************************************************************)
(* Proofs about AccountSharing: what the account lock of                    *)
(* backend/utils/account_locks.py adds to the lock of the client, and how   *)
(* long it does.  Nothing is assumed about which services share the account *)
(* or about what the environment may do.                                    *)
(***************************************************************************)
EXTENDS AccountSharing, ClientLifecycleProofs

(* Account checks take no reference and do not wait for the client. *)
ChecksOutside == \A u \in Users : Kind[u] = "status" => pc[u] \in {"idle", "has"}

(* What holds whatever happens. *)
Base ==
  /\ SharingTypeOK /\ HeldOnlyByLifecycleOp /\ ChecksOutside
  /\ Colliding \subseteq strays

(* Whoever starts, stops or waits is alone, and the account lock his or     *)
(* free.                                                                    *)
Calm ==
  \A u \in Moving : accountLock \in {u, NoUser} /\ \A v \in Moving : v = u

(* Where each service can be without, and with, the account lock.           *)
Disciplined(u) ==
  /\ pc[u] \notin {"entering", "leaving", "closeWait"}
  /\ Kind[u] = "sign" /\ accountLock = u => pc[u] \notin {"idle", "closing"}
  /\ Kind[u] = "sign" /\ accountLock # u => pc[u] \in {"idle", "has", "inside", "stopping"}
  /\ Kind[u] = "monitor" /\ accountLock # u => pc[u] \in {"idle", "inside"}
  /\ Kind[u] = "manga" /\ accountLock # u => pc[u] \in {"idle", "inside", "stopping"}
  /\ Kind[u] = "manga" /\ accountLock = u => pc[u] # "stopping"
  /\ LongLived(u) /\ accountLock = u => pc[u] # "inside"
  /\ Kind[u] = "status" => pc[u] \in {"idle", "has"}
  /\ Kind[u] = "status" /\ accountLock = u => pc[u] = "has"

Discipline == \A u \in Users : Disciplined(u)

(* Whoever waits for no lock of the client has fetched none. *)
NoStaleLock == \A u \in Users : waitsOn[u] # NoLock => pc[u] \in Bound

(* A client is closed by name while nobody uses it.                         *)
QuietCloses ==
  \A u \in Users : pc[u] = "closing" => Referencing = {} /\ LifecycleOp = {}

Working == {u \in Users : pc[u] \notin {"idle", "closeWait"}}

UsesClient == \A u \in Working : using[u] \in Clients

(* A service that has just got its client has the cached one. *)
JustGot ==
  \A u \in Users : LongLived(u) /\ pc[u] = "has" =>
    using[u] = instance /\ instance \in Clients /\ variant[instance] # "noUpdates"

(* A run that is over and keeps the cached client, to read the reply.       *)
Reader(u) ==
  Kind[u] = "sign" /\ accountLock # u /\ pc[u] = "has" /\ using[u] = instance

(* The cached client such a run keeps is in use, or the last user is about  *)
(* to drop it.                                                              *)
ReadersFollow ==
  \A u \in Users : Reader(u) => Referencing # {} \/ \E v \in Users : pc[v] = "stopping"

(* Who uses the client, or will, without holding the account lock.          *)
Attached(u) ==
  (u \in Referencing /\ (LongLived(u) \/ accountLock # u)) \/ Reader(u)

(* While there is one, the client is the cached one, built with updates,    *)
(* and the one of everybody who uses it or is about to.                     *)
OneClient ==
  \A v \in Users : Attached(v) =>
    /\ instance \in Clients /\ variant[instance] # "noUpdates"
    /\ \A u \in Users :
         u \in Referencing \/ (Kind[u] = "sign" /\ accountLock = u /\ pc[u] = "has")
           => using[u] = instance

LiveInside == \A u \in Users : pc[u] = "inside" => connected[using[u]]

SharingInv ==
  /\ SharingTypeOK /\ HeldOnlyByLifecycleOp /\ RefsInvariant /\ Calm
  /\ Discipline /\ NoStaleLock /\ UsesClient
  /\ QuietCloses /\ JustGot /\ ReadersFollow /\ OneClient /\ LiveInside

UseInv == QuietCloses /\ JustGot /\ ReadersFollow /\ OneClient /\ LiveInside

-----------------------------------------------------------------------------
LEMMA KindOfUser ==
  ASSUME NEW u \in Users
  PROVE  /\ Kind[u] \in {"sign", "monitor", "manga", "status"}
         /\ LongLived(u) <=> Kind[u] \in {"monitor", "manga"}
         /\ u # NoUser
BY SharingAssumption, LifecycleAssumption DEF Kinds, LongLived

(* A step moves one coroutine. *)
LEMMA PartMoves ==
  ASSUME TypeOK, NEW u \in Users, Part(u)
  PROVE  /\ \A v \in Users \ {u} : pc'[v] = pc[v] /\ using'[v] = using[v]
         /\ pc'[u] \in {"idle", "has"}
         /\ pc'[u] = "has" => using' = using
BY DEF TypeOK, Part, Forget

LEMMA ReleaseMoves ==
  ASSUME TypeOK, NEW u \in Users, Release(u)
  PROVE  waitsOn'[u] = NoLock /\ \A v \in Users \ {u} : waitsOn'[v] = waitsOn[v]
BY DEF TypeOK, Release

(* A coroutine that fails to connect is alone: it drops the client.         *)
LEMMA FailingIsLast ==
  ASSUME TypeOK, RefsInvariant, NEW u \in Users, ConnectFails(u)
  PROVE  /\ Referencing = {u} /\ instance' = NoClient /\ refs' = 0
         /\ pc' = [pc EXCEPT ![u] = "aborting"]
         /\ UNCHANGED <<using, waitsOn, connected, variant>>
<1>1. u \in LifecycleOp /\ Referencing = {u}
  BY DEF ConnectFails, LifecycleOp, Referencing, RefsInvariant, Alone
<1>2. refs = 1
  BY <1>1, FS_Singleton DEF RefsInvariant, RefsCountUsers
<1>3. refs' = 0
  BY <1>2 DEF ConnectFails, Dropped
<1> QED
  BY <1>1, <1>3 DEF ConnectFails

(* What leaving the client at once, or as the last one, does.               *)
LEMMA ExitMoves ==
  ASSUME TypeOK, NEW u \in Users, NEW l, ExitBody(u, l)
  PROVE  /\ \A v \in Users \ {u} : pc'[v] = pc[v] /\ using'[v] = using[v] /\ waitsOn'[v] = waitsOn[v]
         /\ refs' = 0 => pc'[u] = "stopping"
         /\ refs' # 0 => pc'[u] \in {"idle", "has"} /\ waitsOn'[u] = NoLock
         /\ pc'[u] # "idle" => using' = using
<1>1. CASE refs' = 0
  BY <1>1 DEF ExitBody, TypeOK
<1>2. CASE refs' # 0
  BY <1>2, PartMoves DEF ExitBody, TypeOK
<1> QED
  BY <1>1, <1>2

LEMMA UseMoves ==
  ASSUME TypeOK, NEW u \in Users, UseStep(u)
  PROVE  \A v \in Users \ {u} : pc'[v] = pc[v] /\ using'[v] = using[v] /\ waitsOn'[v] = waitsOn[v]
<1>1. CASE GetClient(u)
  BY <1>1 DEF GetClient, GetCached, GetNew, TypeOK
<1>2. CASE Enter(u) \/ EnterResume(u)
  BY <1>2 DEF Enter, EnterResume, EnterBody, TypeOK
<1>3. CASE OpenStep(u)
  <2>1. CASE ConnectFails(u)
    <3>1. CASE refs' = 0
      BY <2>1, <3>1 DEF ConnectFails, TypeOK
    <3>2. CASE refs' # 0
      BY <2>1, <3>2, PartMoves, ReleaseMoves DEF ConnectFails
    <3> QED
      BY <3>1, <3>2
  <2>2. CASE Aborted(u)
    BY <2>2, PartMoves, ReleaseMoves DEF Aborted
  <2>3. CASE Ready(u)
    BY <2>3, ReleaseMoves DEF Ready, Leave, TypeOK
  <2>4. CASE Connect(u) \/ DatabaseLocked(u)
    BY <2>4 DEF Connect, DatabaseLocked
  <2> QED
    BY <1>3, <2>1, <2>2, <2>3, <2>4 DEF OpenStep
<1>4. CASE LeaveStep(u)
  <2>1. CASE Exit(u)
    <3>1. CASE holder[lock] = NoUser
      BY <2>1, <3>1, ExitMoves DEF Exit
    <3>2. CASE holder[lock] # NoUser
      BY <2>1, <3>2 DEF Exit, TypeOK
    <3> QED
      BY <3>1, <3>2
  <2>2. CASE ExitUnlocked(u)
    BY <2>2, PartMoves DEF ExitUnlocked
  <2>3. CASE ExitResume(u)
    BY <2>3, ExitMoves DEF ExitResume
  <2>4. CASE Stopped(u)
    BY <2>4, PartMoves, ReleaseMoves DEF Stopped
  <2> QED
    BY <1>4, <2>1, <2>2, <2>3, <2>4 DEF LeaveStep
<1> QED
  BY <1>1, <1>2, <1>3, <1>4 DEF UseStep

LEMMA UseWaits ==
  ASSUME TypeOK, TypeOK', NoStaleLock, NEW u \in Users, UseStep(u)
  PROVE  NoStaleLock'
<1> SUFFICES waitsOn'[u] # NoLock => pc'[u] \in Bound
  BY UseMoves DEF NoStaleLock
<1>1. CASE GetClient(u)
  BY <1>1 DEF GetClient, GetCached, GetNew, TypeOK, NoStaleLock, Bound
<1>2. CASE Enter(u) \/ EnterResume(u)
  BY <1>2 DEF Enter, EnterResume, EnterBody, TypeOK, Bound
<1>3. CASE OpenStep(u)
  <2>1. CASE ConnectFails(u)
    BY <2>1, ReleaseMoves DEF ConnectFails, TypeOK, NoStaleLock, Bound
  <2>2. CASE Aborted(u) \/ Ready(u)
    BY <2>2, ReleaseMoves DEF Aborted, Ready, Leave
  <2>3. CASE Connect(u) \/ DatabaseLocked(u)
    BY <2>3 DEF Connect, DatabaseLocked, Bound
  <2> QED
    BY <1>3, <2>1, <2>2, <2>3 DEF OpenStep
<1>4. CASE LeaveStep(u)
  <2>1. ASSUME NEW l, ExitBody(u, l) PROVE waitsOn'[u] # NoLock => pc'[u] \in Bound
    BY <2>1, ExitMoves DEF Bound
  <2>2. CASE Exit(u)
    <3>1. CASE holder[lock] = NoUser
      BY <2>1, <2>2, <3>1 DEF Exit
    <3>2. CASE holder[lock] # NoUser
      BY <2>2, <3>2 DEF Exit, TypeOK, Bound
    <3> QED
      BY <3>1, <3>2
  <2>3. CASE ExitUnlocked(u)
    BY <2>3 DEF ExitUnlocked, NoStaleLock, Bound
  <2>4. CASE ExitResume(u)
    BY <2>1, <2>4 DEF ExitResume
  <2>5. CASE Stopped(u)
    BY <2>5, ReleaseMoves DEF Stopped
  <2> QED
    BY <1>4, <2>2, <2>3, <2>4, <2>5 DEF LeaveStep
<1> QED
  BY <1>1, <1>2, <1>3, <1>4 DEF UseStep

LEMMA UseUses ==
  ASSUME TypeOK, TypeOK', UsesClient, NEW u \in Users, UseStep(u)
  PROVE  UsesClient'
<1> SUFFICES pc'[u] \notin {"idle", "closeWait"} => using'[u] \in Clients
  BY UseMoves DEF UsesClient, Working
<1>1. CASE GetClient(u)
  BY <1>1 DEF GetClient, GetCached, GetNew, TypeOK
<1>2. CASE Enter(u) \/ EnterResume(u)
  BY <1>2 DEF Enter, EnterResume, UsesClient, Working
<1>3. CASE OpenStep(u)
  BY <1>3, PartMoves
  DEF OpenStep, Connect, Ready, DatabaseLocked, ConnectFails, Aborted, UsesClient, Working
<1>4. CASE LeaveStep(u)
  BY <1>4, PartMoves, ExitMoves
  DEF LeaveStep, Exit, ExitUnlocked, ExitResume, Stopped, UsesClient, Working
<1> QED
  BY <1>1, <1>2, <1>3, <1>4 DEF UseStep

-----------------------------------------------------------------------------
(* The steps of the services, in terms of the client.                       *)
LEMMA SharingCases ==
  ASSUME NEW u \in Users,
         \/ SignStart(u) \/ SignEnter(u) \/ SignLeave(u) \/ FetchEnter(u) \/ FetchStep(u)
         \/ WorkerGet(u) \/ WorkerEnter(u) \/ MonitorExit(u) \/ MonitorLeaving(u)
         \/ MangaExit(u) \/ StatusGet(u)
  PROVE  UseStep(u)
BY SharingAssumption
DEF SignStart, SignEnter, SignLeave, FetchEnter, FetchStep, WorkerGet, WorkerEnter, MonitorExit,
    MonitorLeaving, MangaExit, StatusGet, UseStep, GetClient, LeaveStep

LEMMA BaseStep ==
  ASSUME Base, SharingNext
  PROVE  Base'
<1>0. TypeOK /\ HeldOnlyByLifecycleOp /\ ChecksOutside /\ accountLock \in Users \cup {NoUser}
      /\ strays \subseteq Users
  BY DEF Base, SharingTypeOK
<1>1. PICK u \in Users :
        \/ SignStart(u) \/ SignEnter(u) \/ SignLeave(u) \/ SignCancelled(u) \/ SignGivesUp(u)
        \/ FetchEnter(u) \/ FetchStep(u) \/ FetchTimeout(u)
        \/ WorkerAcquire(u) \/ WorkerClose(u) \/ WorkerGet(u) \/ WorkerEnter(u)
        \/ MonitorExit(u) \/ MonitorLeaving(u) \/ MangaExit(u)
        \/ StatusGet(u) \/ StatusAcquire(u) \/ StatusConnect(u) \/ StatusDone(u)
  BY DEF SharingNext
<1>2. \E who \in SUBSET {u} : Stray(who)
  BY <1>1
  DEF SignStart, SignEnter, SignLeave, SignCancelled, SignGivesUp, FetchEnter, FetchStep,
      FetchTimeout, WorkerAcquire, WorkerClose, WorkerGet, WorkerEnter, MonitorExit,
      MonitorLeaving, MangaExit, StatusGet, StatusAcquire, StatusConnect, StatusDone
<1>3. strays' \subseteq Users /\ Colliding' \subseteq strays'
  BY <1>0, <1>2 DEF Stray, Colliding, Moving
<1>4. accountLock' \in Users \cup {NoUser}
  BY <1>0, <1>1
  DEF SignStart, SignEnter, SignLeave, SignCancelled, SignGivesUp, FetchEnter, FetchStep,
      FetchTimeout, WorkerAcquire, WorkerClose, WorkerGet, WorkerEnter, MonitorExit,
      MonitorLeaving, MangaExit, StatusGet, StatusAcquire, StatusConnect, StatusDone,
      Take, ReleaseWhen
<1>5. ASSUME UseStep(u) PROVE TypeOK' /\ HeldOnlyByLifecycleOp'
  BY <1>0, <1>5, TypeStep, HeldStep DEF Next, UseStep
<1>6. ASSUME CloseStep(u) PROVE TypeOK' /\ HeldOnlyByLifecycleOp'
  BY <1>0, <1>6, TypeStep, HeldStep DEF Next
<1>7. ASSUME CutOff(u) PROVE TypeOK' /\ HeldOnlyByLifecycleOp'
  <2>1. TypeOK'
    BY <1>0, <1>7, CutOffTypes
  <2>2. "idle" \in Phases /\ Leave(u, "idle")
    BY <1>7 DEF CutOff, Phases
  <2> QED
    BY <1>0, <2>1, <2>2, LeaveReleases
<1>8. ASSUME GivesUp(u) PROVE TypeOK' /\ HeldOnlyByLifecycleOp'
  <2>1. TypeOK'
    BY <1>0, <1>8 DEF GivesUp, Forget, TypeOK, Phases, registry
  <2> QED
    BY <1>0, <1>8, <2>1 DEF GivesUp, HeldOnlyByLifecycleOp, LifecycleOp, TypeOK
<1>9. ASSUME StatusConnect(u) PROVE TypeOK' /\ HeldOnlyByLifecycleOp'
  <2>1. /\ connected' = [connected EXCEPT ![using[u]] = TRUE]
        /\ UNCHANGED <<registry, holder, variant, pc, using, waitsOn, attempt>>
    BY <1>9 DEF StatusConnect
  <2>2. connected' \in [Clients -> BOOLEAN]
    BY <1>0, <2>1 DEF TypeOK
  <2> QED
    BY <1>0, <2>1, <2>2 DEF TypeOK, registry, HeldOnlyByLifecycleOp, LifecycleOp
<1>10. ASSUME UNCHANGED vars PROVE TypeOK' /\ HeldOnlyByLifecycleOp'
  BY <1>0, <1>10 DEF vars, TypeOK, HeldOnlyByLifecycleOp, LifecycleOp
<1>11. \/ UseStep(u) \/ CloseStep(u) \/ CutOff(u) \/ GivesUp(u) \/ StatusConnect(u)
       \/ UNCHANGED vars
  BY <1>1, SharingCases
  DEF SignCancelled, Cancel, SignGivesUp, FetchTimeout, WorkerAcquire, WorkerClose, CloseStep,
      StatusAcquire, StatusDone
<1>12. TypeOK' /\ HeldOnlyByLifecycleOp'
  BY <1>5, <1>6, <1>7, <1>8, <1>9, <1>10, <1>11
<1>13. ChecksOutside'
  <2>1. \A v \in Users \ {u} : pc'[v] = pc[v]
    BY <1>0, <1>11, UseMoves
    DEF CloseStep, Close, CloseResume, Closed, CloseBody, CutOff, Leave, GivesUp, StatusConnect,
        vars, TypeOK
  <2>2. Kind[u] = "status" => pc'[u] \in {"idle", "has"}
    <3> SUFFICES ASSUME Kind[u] = "status" PROVE pc'[u] \in {"idle", "has"}
      OBVIOUS
    <3>1. StatusGet(u) \/ StatusAcquire(u) \/ StatusConnect(u) \/ StatusDone(u)
      BY <1>1
      DEF SignStart, SignEnter, SignLeave, SignCancelled, SignGivesUp, FetchEnter, FetchStep,
          FetchTimeout, WorkerAcquire, WorkerClose, WorkerGet, WorkerEnter, MonitorExit,
          MonitorLeaving, MangaExit, LongLived
    <3> QED
      BY <1>0, <3>1
      DEF StatusGet, GetCached, GetNew, StatusAcquire, StatusConnect, StatusDone, GivesUp, vars,
          TypeOK, ChecksOutside
  <2> QED
    BY <1>0, <2>1, <2>2 DEF ChecksOutside
<1> QED
  BY <1>3, <1>4, <1>12, <1>13 DEF Base, SharingTypeOK

LEMMA CalmWhenOrderly ==
  ASSUME Base, Orderly
  PROVE  Calm
<1>1. \A u \in Moving : u \in Users /\ Kind[u] # "status"
  BY DEF Base, ChecksOutside, Moving
<1>2. Colliding = {}
  BY <1>1 DEF Base, Orderly, Colliding
<1> QED
  BY <1>2, LifecycleAssumption DEF Calm, Colliding, Moving

-----------------------------------------------------------------------------
(* While one user holds the account lock, what the others can be doing.     *)
LEMMA OthersAreQuiet ==
  ASSUME Discipline, Calm, NEW u \in Users, accountLock = u, NEW v \in Users, v # u
  PROVE  /\ pc[v] \in {"idle", "inside", "has"}
         /\ pc[v] = "has" => Kind[v] \in {"status", "sign"}
<1>1. v \notin Moving
  BY LifecycleAssumption DEF Calm
<1> QED
  BY <1>1, KindOfUser DEF Discipline, Disciplined, Moving

(* Whoever has the account lock and is not at it finds no operation on the  *)
(* client.                                                                  *)
LEMMA ClientIsFree ==
  ASSUME Calm, NEW u \in Users, accountLock = u, u \notin Moving
  PROVE  LifecycleOp = {}
BY LifecycleAssumption DEF Calm, LifecycleOp, Moving

LEMMA NobodyOrCounted ==
  ASSUME RefsInvariant
  PROVE  refs = 0 <=> Referencing = {}
BY ReferencingFinite DEF RefsInvariant, RefsCountUsers

(* Only a worker with the account lock closes a client by name.             *)
LEMMA WhoCloses ==
  ASSUME Discipline, NEW u \in Users, pc[u] = "closing"
  PROVE  accountLock = u /\ LongLived(u)
BY KindOfUser DEF Discipline, Disciplined

(* How the account lock moves in a step of one user.                        *)
LockOf(u) == {accountLock, accountLock'} \subseteq {u, NoUser} \/ accountLock' = accountLock

-----------------------------------------------------------------------------
(* get_client: nobody starts or stops anything; the cached client is        *)
(* replaced only while nobody uses it.                                      *)
LEMMA GetKeeps ==
  ASSUME SharingInv, SharingTypeOK', NEW u \in Users, LockOf(u),
         \A v \in Users \ {u} : ~Unsuspended(v),
         Kind[u] = "sign" => accountLock' = u,
         \/ ~LongLived(u) /\ GetClient(u)
         \/ ~WithoutUpdates /\ (GetCached(u, "updates") \/ GetNew(u, "updates"))
  PROVE  UseInv' /\ pc[u] = "idle" /\ pc' = [pc EXCEPT ![u] = "has"] /\ GetClient(u)
<1>0. TypeOK /\ TypeOK' /\ UseInv /\ RefsInvariant
  BY DEF SharingInv, SharingTypeOK, UseInv
<1>1. PICK v \in Variants : GetCached(u, v) \/ GetNew(u, v)
  BY SharingAssumption DEF GetClient
<1>2. GetClient(u)
  BY <1>1 DEF GetClient
<1>3. pc[u] = "idle" /\ pc' = [pc EXCEPT ![u] = "has"] /\ connected' = connected /\ refs' = refs
  BY <1>1 DEF GetCached, GetNew, registry
<1>4. /\ Referencing' = Referencing /\ LifecycleOp' = LifecycleOp
      /\ \A w \in Users \ {u} : pc'[w] = pc[w] /\ using'[w] = using[w]
      /\ pc'[u] = "has" /\ using'[u] = instance' /\ instance' \in Clients
  BY <1>0, <1>1, <1>3 DEF GetCached, GetNew, TypeOK, Referencing, LifecycleOp, registry
<1>5. QuietCloses' /\ LiveInside'
  BY <1>0, <1>3, <1>4 DEF UseInv, QuietCloses, LiveInside
<1>6. JustGot'
  <2>1. LongLived(u) => variant'[instance'] # "noUpdates"
    <3>1. CASE ~WithoutUpdates /\ GetCached(u, "updates")
      BY <3>1 DEF WithoutUpdates, GetCached, registry
    <3>2. CASE GetNew(u, "updates")
      BY <3>2, <1>0 DEF GetNew, TypeOK
    <3> QED
      BY <3>1, <3>2
  <2>2. \A w \in Users \ {u} : ~(LongLived(w) /\ pc[w] = "has")
    BY DEF Unsuspended
  <2> QED
    BY <1>4, <2>1, <2>2 DEF JustGot, LongLived
<1>7. (instance' = instance /\ variant' = variant) \/ \A w \in Users \ {u} : using[w] # instance'
  BY <1>1 DEF GetCached, GetNew, FreshClient, registry
<1>8. ASSUME NEW w \in Users, Attached(w)'
      PROVE  w # u /\ Attached(w) /\ instance' = instance /\ variant' = variant
  <2>1. w # u
    BY <1>3, <1>4, <1>8 DEF Attached, Reader, Referencing
  <2>2. accountLock' = w <=> accountLock = w
    BY <2>1, LifecycleAssumption DEF LockOf
  <2>3. CASE w \in Referencing
    <3>1. Attached(w)
      BY <1>4, <1>8, <2>1, <2>2, <2>3 DEF Attached, Reader, LongLived, Referencing
    <3>2. refs # 0 /\ instance \in Clients
      BY <1>0, <2>3, <3>1, NobodyOrCounted DEF UseInv, OneClient
    <3> QED
      BY <1>1, <2>1, <3>1, <3>2, LifecycleAssumption DEF GetCached, GetNew, Replaceable, registry
  <2>4. CASE w \notin Referencing
    <3>1. Reader(w)'
      BY <1>4, <1>8, <2>4 DEF Attached
    <3>2. using[w] = instance'
      BY <1>4, <2>1, <3>1 DEF Reader
    <3> QED
      BY <1>4, <1>7, <2>1, <2>2, <3>1, <3>2 DEF Attached, Reader
  <2> QED
    BY <2>3, <2>4
<1>9. OneClient'
  <2> SUFFICES ASSUME NEW w \in Users, Attached(w)'
               PROVE  /\ instance' \in Clients /\ variant'[instance'] # "noUpdates"
                      /\ \A x \in Users :
                           x \in Referencing \/ (Kind[x] = "sign" /\ accountLock' = x /\ pc'[x] = "has")
                             => using'[x] = instance'
    BY <1>4 DEF OneClient
  <2>1. /\ Attached(w) /\ instance' = instance /\ variant' = variant
        /\ instance \in Clients /\ variant[instance] # "noUpdates"
    BY <1>0, <1>8 DEF UseInv, OneClient
  <2>2. ASSUME NEW x \in Users,
               x \in Referencing \/ (Kind[x] = "sign" /\ accountLock' = x /\ pc'[x] = "has")
        PROVE  using'[x] = instance'
    <3>1. CASE x = u
      BY <1>4, <2>1, <3>1
    <3>2. CASE x # u
      <4>1. accountLock' = x => accountLock = x
        BY <3>2, LifecycleAssumption DEF LockOf
      <4> QED
        BY <1>0, <1>4, <2>1, <2>2, <3>2, <4>1 DEF UseInv, OneClient
    <3> QED
      BY <3>1, <3>2
  <2> QED
    BY <2>1, <2>2
<1>10. ReadersFollow'
  <2> SUFFICES ASSUME NEW w \in Users, Reader(w)'
               PROVE  Referencing # {} \/ \E x \in Users : pc'[x] = "stopping"
    BY <1>4 DEF ReadersFollow
  <2>1. w # u /\ Attached(w) /\ instance' = instance
    BY <1>8 DEF Attached
  <2>2. Reader(w)
    <3>1. accountLock' = w <=> accountLock = w
      BY <2>1, LifecycleAssumption DEF LockOf
    <3> QED
      BY <1>4, <2>1, <3>1 DEF Reader
  <2>3. Referencing # {} \/ \E x \in Users : pc[x] = "stopping"
    BY <1>0, <2>2 DEF UseInv, ReadersFollow
  <2> QED
    BY <1>3, <1>4, <2>3
<1> QED
  BY <1>2, <1>3, <1>5, <1>6, <1>9, <1>10 DEF UseInv

-----------------------------------------------------------------------------
(* __aenter__ when the lock of the client is free: if somebody is inside,   *)
(* the client that is entered is theirs.  A run that reads the reply never  *)
(* enters as the first one.                                                 *)
LEMMA EnterBodyKeeps ==
  ASSUME SharingInv, SharingTypeOK', NEW u \in Users, Kind[u] # "status",
         NEW l \in Locks, holder[l] = NoUser, l = lock \/ lock = NoLock,
         pc[u] = "has", EnterBody(u, l),
         accountLock = u \/ Reader(u),
         \/ accountLock' = accountLock
         \/ LongLived(u) /\ accountLock = u /\ accountLock' = NoUser,
         UNCHANGED <<instance, connected, variant, using>>
  PROVE  /\ UseInv' /\ pc'[u] \in {"opening", "inside"}
         /\ Reader(u) => pc'[u] = "inside"
<1>0. TypeOK /\ TypeOK' /\ UseInv /\ RefsInvariant /\ Discipline /\ Calm
  BY DEF SharingInv, SharingTypeOK, UseInv
<1>1. LifecycleOp = {} /\ u \notin Referencing
  BY <1>0, FreeLockNoOperation DEF RefsInvariant, Referencing
<1>2. /\ \A v \in Users \ {u} : pc'[v] = pc[v] /\ using'[v] = using[v]
      /\ using' = using /\ connected' = connected /\ instance' = instance /\ variant' = variant
      /\ pc'[u] \in {"opening", "inside"}
      /\ refs # 0 => pc'[u] = "inside"
      /\ refs = 0 => pc'[u] = "opening"
      /\ Referencing' = Referencing \cup {u}
  BY <1>0 DEF EnterBody, TypeOK, Referencing
<1>3. Reader(u) => Referencing # {} /\ Attached(u)
  BY <1>0, <1>1 DEF UseInv, ReadersFollow, Attached, LifecycleOp
<1>4. \A v \in Users : pc[v] # "closing"
  <2> SUFFICES ASSUME NEW v \in Users, pc[v] = "closing" PROVE FALSE
    OBVIOUS
  <2>1. accountLock = v /\ v # u
    BY <1>0, WhoCloses
  <2>2. Referencing = {}
    BY <1>0 DEF UseInv, QuietCloses
  <2> QED
    BY <1>3, <2>1, <2>2
<1>5. QuietCloses' /\ JustGot'
  BY <1>0, <1>2, <1>4 DEF UseInv, QuietCloses, JustGot, LongLived
<1>6. ASSUME NEW v \in Referencing
      PROVE  /\ pc[v] = "inside" /\ v # u /\ v \in Users
             /\ Attached(u) \/ Attached(v)
  <2>1. pc[v] = "inside" /\ v # u /\ v \in Users
    BY <1>0, <1>1 DEF Referencing, LifecycleOp, Discipline, Disciplined
  <2> QED
    BY <1>3, <2>1 DEF Attached
<1>7. ASSUME NEW v \in Referencing
      PROVE  /\ using[v] = instance /\ using[u] = instance /\ connected[instance]
             /\ instance \in Clients /\ variant[instance] # "noUpdates"
  <2>1. /\ instance \in Clients /\ variant[instance] # "noUpdates" /\ using[v] = instance
        /\ Kind[u] = "sign" /\ accountLock = u => using[u] = instance
    BY <1>0, <1>6 DEF UseInv, OneClient
  <2>2. using[u] = instance
    <3>1. CASE Reader(u)
      BY <3>1 DEF Reader
    <3>2. CASE LongLived(u)
      BY <1>0, <3>2 DEF UseInv, JustGot
    <3>3. CASE accountLock = u /\ ~LongLived(u)
      BY <2>1, <3>3, KindOfUser
    <3> QED
      BY <3>1, <3>2, <3>3
  <2>3. connected[instance]
    BY <1>0, <1>6, <2>1 DEF UseInv, LiveInside
  <2> QED
    BY <2>1, <2>2, <2>3
<1>8. ASSUME NEW w \in Users, Attached(w)'
      PROVE  \/ w # u /\ Attached(w)
             \/ w = u /\ (LongLived(u) \/ Reader(u))
  <2>1. CASE w = u
    <3>1. LongLived(u) \/ accountLock' # u
      BY <1>2, <1>8, <2>1 DEF Attached, Reader, LongLived
    <3> QED
      BY <2>1, <3>1
  <2>2. CASE w # u
    <3>1. accountLock = w => accountLock' = w
      BY <2>2
    <3> QED
      BY <1>2, <1>8, <2>2, <3>1 DEF Attached, Reader, LongLived
  <2> QED
    BY <2>1, <2>2
<1>9. OneClient'
  <2> SUFFICES ASSUME NEW w \in Users, Attached(w)'
               PROVE  /\ instance \in Clients /\ variant[instance] # "noUpdates"
                      /\ \A x \in Users :
                           x \in Referencing' \/ (Kind[x] = "sign" /\ accountLock' = x /\ pc'[x] = "has")
                             => using[x] = instance
    BY <1>2 DEF OneClient
  <2>1. /\ instance \in Clients /\ variant[instance] # "noUpdates"
        /\ using[u] = instance
    <3>1. CASE LongLived(u)
      BY <1>0, <3>1 DEF UseInv, JustGot
    <3>2. CASE Reader(u)
      BY <1>0, <1>3, <3>2 DEF UseInv, OneClient, Reader
    <3>3. CASE ~LongLived(u) /\ ~Reader(u)
      <4>1. Attached(w) /\ Kind[u] = "sign" /\ accountLock = u
        BY <1>8, <3>3, KindOfUser
      <4> QED
        BY <1>0, <4>1 DEF UseInv, OneClient
    <3> QED
      BY <3>1, <3>2, <3>3
  <2>2. ASSUME NEW x \in Users, x \in Referencing' PROVE using[x] = instance
    BY <1>2, <1>7, <2>1, <2>2
  <2>3. ASSUME NEW x \in Users, Kind[x] = "sign", accountLock' = x, pc'[x] = "has"
        PROVE  using[x] = instance
    <3>1. x # u /\ pc[x] = "has" /\ accountLock = x
      BY <1>2, <2>3, KindOfUser
    <3>2. Attached(w) \/ Attached(u)
      BY <1>3, <1>8, <3>1
    <3> QED
      BY <1>0, <2>3, <3>1, <3>2 DEF UseInv, OneClient
  <2> QED
    BY <2>1, <2>2, <2>3
<1>10. ReadersFollow'
  BY <1>2 DEF ReadersFollow
<1>11. LiveInside'
  <2>1. CASE refs = 0
    BY <1>0, <1>2, <2>1 DEF UseInv, LiveInside
  <2>2. CASE refs # 0
    <3>1. connected[using[u]]
      BY <1>0, <1>7, <2>2, NobodyOrCounted
    <3> QED
      BY <1>0, <1>2, <3>1 DEF UseInv, LiveInside
  <2> QED
    BY <2>1, <2>2
<1> QED
  BY <1>0, <1>2, <1>3, <1>5, <1>9, <1>10, <1>11, NobodyOrCounted DEF UseInv

LEMMA EnterKeeps ==
  ASSUME SharingInv, SharingTypeOK', Calm', NEW u \in Users, Kind[u] # "status", Enter(u),
         accountLock = u \/ Reader(u),
         \/ accountLock' = accountLock
         \/ LongLived(u) /\ accountLock = u /\ accountLock' = NoUser
  PROVE  /\ UseInv' /\ pc'[u] \in {"opening", "inside"}
         /\ Reader(u) => pc'[u] = "inside"
<1>0. TypeOK /\ TypeOK' /\ HeldOnlyByLifecycleOp
  BY DEF SharingInv, SharingTypeOK
<1>1. PICK l \in Locks :
        /\ l = lock \/ lock = NoLock
        /\ IF holder[l] = NoUser
             THEN EnterBody(u, l)
             ELSE pc' = [pc EXCEPT ![u] = "entering"]
  BY DEF Enter
<1>2. pc[u] = "has" /\ UNCHANGED <<instance, connected, variant, using>>
  BY DEF Enter
<1>3. CASE holder[l] = NoUser
  BY <1>1, <1>2, <1>3, EnterBodyKeeps
<1>4. CASE holder[l] # NoUser
  <2>1. PICK w \in Users : w \in LifecycleOp
    BY <1>0, <1>4 DEF HeldOnlyByLifecycleOp, LifecycleOp
  <2>2. w # u /\ pc'[w] = pc[w] /\ pc'[u] = "entering"
    BY <1>0, <1>1, <1>2, <1>4, <2>1 DEF LifecycleOp, TypeOK
  <2>3. w \in Moving' /\ u \in Moving'
    BY <2>1, <2>2 DEF Moving, LifecycleOp
  <2> QED
    BY <2>2, <2>3 DEF Calm
<1> QED
  BY <1>3, <1>4

-----------------------------------------------------------------------------
(* Connecting and giving up are done by a coroutine that is alone.          *)
LEMMA OpenKeeps ==
  ASSUME SharingInv, SharingTypeOK', NEW u \in Users, OpenStep(u),
         LongLived(u) => pc'[u] # "has",
         \/ accountLock' = accountLock
         \/ accountLock' = NoUser /\ (LongLived(u) \/ pc'[u] = "idle")
  PROVE  /\ UseInv' /\ pc'[u] \in {"opening", "inside", "aborting", "has", "idle"}
         /\ accountLock = u
<1>0. TypeOK /\ TypeOK' /\ UseInv /\ RefsInvariant /\ Discipline /\ Calm /\ UsesClient
  BY DEF SharingInv, SharingTypeOK, UseInv
<1>1. /\ pc[u] \in {"opening", "aborting"} /\ u \in LifecycleOp /\ Referencing \subseteq {u}
      /\ \A v \in Users \ {u} : pc'[v] = pc[v] /\ using'[v] = using[v]
  <2>1. pc[u] \in {"opening", "aborting"}
    BY DEF OpenStep, Connect, Ready, DatabaseLocked, ConnectFails, Aborted
  <2>2. u \in LifecycleOp /\ UseStep(u)
    BY <2>1 DEF LifecycleOp, UseStep
  <2> QED
    BY <1>0, <2>1, <2>2, UseMoves DEF RefsInvariant, Alone
<1>2. accountLock = u
  BY <1>0, <1>1, KindOfUser DEF Discipline, Disciplined
<1>3. \A v \in Users : pc[v] # "inside" /\ pc[v] # "closing" /\ pc[v] # "stopping"
  <2>1. \A v \in Users : pc[v] = "stopping" => v = u
    BY <1>0, <1>1 DEF Calm, Moving
  <2> QED
    BY <1>0, <1>1, <2>1 DEF Referencing, UseInv, QuietCloses
<1>4. /\ pc'[u] \in {"opening", "inside", "aborting", "has", "idle"}
      /\ Referencing' \subseteq Referencing
      /\ pc[u] = "opening" => using' = using
      /\ Referencing' = Referencing \/ instance' = NoClient
      /\ Referencing' # {} => instance' = instance
      /\ instance' \in {instance, NoClient}
      /\ variant' = variant
      /\ pc'[u] = "inside" => connected'[using'[u]]
  <2>1. CASE Connect(u) \/ DatabaseLocked(u)
    BY <1>0, <2>1 DEF Connect, DatabaseLocked, registry, Referencing, TypeOK
  <2>2. CASE Ready(u)
    BY <1>0, <2>2 DEF Ready, Leave, Release, registry, Referencing, TypeOK
  <2>3. CASE Aborted(u)
    <3>1. pc'[u] \in {"has", "idle"} /\ pc[u] = "aborting"
      BY <1>0, <2>3, PartMoves DEF Aborted
    <3>2. Referencing = {} /\ Referencing' = {}
      BY <1>1, <3>1 DEF Referencing
    <3> QED
      BY <2>3, <3>1, <3>2 DEF Aborted, registry
  <2>4. CASE ConnectFails(u)
    BY <1>0, <2>4, FailingIsLast DEF Referencing, TypeOK
  <2> QED
    BY <2>1, <2>2, <2>3, <2>4 DEF OpenStep
<1>5. QuietCloses' /\ LiveInside'
  BY <1>1, <1>3, <1>4 DEF QuietCloses, LiveInside
<1>6. JustGot'
  <2>1. \A v \in Users : LongLived(v) => pc'[v] # "has"
    BY <1>0, <1>1, <1>2, OthersAreQuiet, KindOfUser
  <2> QED
    BY <2>1 DEF JustGot, LongLived
<1>7. ASSUME NEW w \in Users, Reader(w)'
      PROVE  w # u /\ Reader(w) /\ instance' = instance
  <2>1. w # u
    BY <1>2, <1>7, KindOfUser DEF Reader
  <2>2. pc[w] = "has" /\ using[w] = instance' /\ using[w] \in Clients
    BY <1>0, <1>1, <1>7, <2>1 DEF Reader, UsesClient, Working
  <2>3. instance' = instance
    BY <1>4, <2>2, LifecycleAssumption
  <2> QED
    BY <1>2, <1>7, <2>1, <2>2, <2>3 DEF Reader
<1>8. ReadersFollow'
  <2> SUFFICES ASSUME NEW w \in Users, Reader(w)' PROVE Referencing' # {}
    BY DEF ReadersFollow
  <2>1. Referencing # {}
    BY <1>0, <1>3, <1>7 DEF UseInv, ReadersFollow
  <2>2. instance' # NoClient
    BY <1>0, <1>1, <1>7, LifecycleAssumption DEF Reader, UsesClient, Working
  <2> QED
    BY <1>4, <2>1, <2>2
<1>9. OneClient'
  <2> SUFFICES ASSUME NEW w \in Users, Attached(w)'
               PROVE  /\ instance' \in Clients /\ variant'[instance'] # "noUpdates"
                      /\ \A x \in Users :
                           x \in Referencing' \/ (Kind[x] = "sign" /\ accountLock' = x /\ pc'[x] = "has")
                             => using'[x] = instance'
    BY DEF OneClient
  <2>1. Referencing' = {u} /\ Referencing = {u} /\ instance' = instance
    <3>1. Referencing' # {}
      <4>1. CASE Reader(w)'
        BY <1>3, <1>8, <4>1, <1>1, <1>4 DEF ReadersFollow
      <4>2. CASE w \in Referencing'
        BY <4>2
      <4> QED
        BY <4>1, <4>2 DEF Attached
    <3> QED
      BY <1>1, <1>4, <3>1
  <2>2. Attached(w)
    <3>1. CASE w \in Referencing'
      <4>1. w = u
        BY <2>1, <3>1
      <4>2. LongLived(u)
        <5>1. pc'[u] # "idle"
          BY <2>1 DEF Referencing
        <5> QED
          BY <1>2, <1>7, <4>1, <5>1 DEF Attached, LongLived
      <4> QED
        BY <2>1, <4>1, <4>2 DEF Attached
    <3>2. CASE Reader(w)'
      BY <1>7, <3>2 DEF Attached
    <3> QED
      BY <3>1, <3>2 DEF Attached
  <2>3. /\ instance \in Clients /\ variant[instance] # "noUpdates" /\ using[u] = instance
    BY <1>0, <2>1, <2>2 DEF UseInv, OneClient
  <2>4. using'[u] = using[u]
    <3>1. pc[u] = "opening"
      BY <1>1, <2>1 DEF Referencing
    <3> QED
      BY <1>4, <3>1
  <2>5. ASSUME NEW x \in Users, Kind[x] = "sign", accountLock' = x, pc'[x] = "has"
        PROVE  FALSE
    <3>1. x = u
      BY <1>2, <2>5, KindOfUser
    <3> QED
      BY <2>1, <2>5, <3>1 DEF Referencing
  <2> QED
    BY <1>4, <2>1, <2>3, <2>4, <2>5
<1> QED
  BY <1>2, <1>4, <1>5, <1>6, <1>8, <1>9 DEF UseInv

(* So is the last one out; the others just leave.                           *)
LEMMA LeaveKeeps ==
  ASSUME SharingInv, SharingTypeOK', NEW u \in Users, LeaveStep(u), LockOf(u),
         \A v \in Users \ {u} : ~Unsuspended(v),
         pc'[u] = "has" => Kind[u] = "sign" /\ accountLock = u
  PROVE  /\ UseInv' /\ pc[u] \in {"inside", "stopping"}
         /\ pc[u] = "inside" => pc'[u] \in {"stopping", "idle", "has"}
         /\ pc[u] = "stopping" => pc'[u] \in {"idle", "has"}
<1>0. TypeOK /\ TypeOK' /\ UseInv /\ RefsInvariant /\ Discipline /\ HeldOnlyByLifecycleOp /\ UsesClient
  BY DEF SharingInv, SharingTypeOK, UseInv
<1>1. \A v \in Users \ {u} : pc'[v] = pc[v] /\ using'[v] = using[v]
  BY <1>0, UseMoves DEF UseStep
<1>2. CASE pc[u] = "inside"
  <2>1. u \in Referencing /\ LifecycleOp = {}
    BY <1>0, <1>2 DEF Referencing, LifecycleOp, RefsInvariant, Alone
  <2>2. lock \in Locks /\ holder[lock] = NoUser
    BY <1>0, <1>2, <2>1 DEF RefsInvariant, SingleLock, HeldOnlyByLifecycleOp, TypeOK
  <2>3. Exit(u) /\ ExitBody(u, lock)
    BY <1>2, <2>2, LifecycleAssumption DEF LeaveStep, Exit, ExitUnlocked, ExitResume, Stopped
  <2>4. /\ refs' = 0 => pc'[u] = "stopping"
        /\ refs' # 0 => pc'[u] \in {"idle", "has"}
        /\ pc'[u] # "idle" => using' = using
        /\ Referencing' = Referencing \ {u}
        /\ connected' = connected /\ instance' = instance /\ variant' = variant
    BY <1>0, <1>1, <2>3, ExitMoves DEF Exit, Referencing
  <2>5. refs' # 0 => Referencing' # {}
    <3>1. RefsInvariant'
      BY <1>0, UseKeepsInvariant DEF UseStep
    <3> QED
      BY <3>1, FS_EmptySet DEF RefsInvariant, RefsCountUsers
  <2>6. QuietCloses' /\ LiveInside' /\ JustGot'
    <3>1. \A v \in Users : pc[v] # "closing"
      BY <1>0, <2>1 DEF UseInv, QuietCloses
    <3>2. \A v \in Users : LongLived(v) => pc'[v] # "has"
      BY <1>1, KindOfUser DEF Unsuspended
    <3> QED
      BY <1>0, <1>1, <2>4, <3>1, <3>2 DEF UseInv, QuietCloses, LiveInside, JustGot, LongLived
  <2>7. ASSUME NEW w \in Users, w # u, Attached(w)'
        PROVE  Attached(w) /\ (Reader(w)' => Reader(w))
    <3>1. accountLock' = w <=> accountLock = w
      BY <2>7, LifecycleAssumption DEF LockOf
    <3> QED
      BY <1>1, <2>4, <2>7, <3>1 DEF Attached, Reader, LongLived
  <2>8. ASSUME Attached(u)'
        PROVE  /\ \E w \in Users : w # u /\ Attached(w)
               /\ accountLock = u /\ accountLock' # u /\ pc'[u] = "has"
    <3>1. pc'[u] = "has" /\ accountLock' # u
      BY <2>4, <2>8 DEF Attached, Reader
    <3>2. accountLock = u
      BY <3>1
    <3>3. PICK w \in Referencing' : w # u /\ w \in Referencing /\ w \in Users
      BY <2>4, <2>5, <3>1 DEF Referencing
    <3>4. Attached(w)
      BY <3>2, <3>3 DEF Attached
    <3> QED
      BY <3>1, <3>2, <3>3, <3>4
  <2>9. OneClient'
    <3> SUFFICES ASSUME NEW w \in Users, Attached(w)'
                 PROVE  /\ instance \in Clients /\ variant[instance] # "noUpdates"
                        /\ \A x \in Users :
                             x \in Referencing' \/ (Kind[x] = "sign" /\ accountLock' = x /\ pc'[x] = "has")
                               => using'[x] = instance
      BY <2>4 DEF OneClient
    <3>1. PICK v \in Users : Attached(v)
      BY <2>7, <2>8
    <3>2. /\ instance \in Clients /\ variant[instance] # "noUpdates"
          /\ \A x \in Users :
               x \in Referencing \/ (Kind[x] = "sign" /\ accountLock = x /\ pc[x] = "has")
                 => using[x] = instance
      BY <1>0, <3>1 DEF UseInv, OneClient
    <3>3. ASSUME NEW x \in Users, x \in Referencing' PROVE using'[x] = instance
      BY <1>1, <2>4, <3>2, <3>3
    <3>4. ASSUME NEW x \in Users, Kind[x] = "sign", accountLock' = x, pc'[x] = "has"
          PROVE  using'[x] = instance
      <4>1. CASE x = u
        BY <2>1, <2>4, <3>2, <3>4, <4>1
      <4>2. CASE x # u
        <5>1. accountLock = x
          BY <3>4, <4>2, LifecycleAssumption DEF LockOf
        <5> QED
          BY <1>1, <3>2, <3>4, <4>2, <5>1
      <4> QED
        BY <4>1, <4>2
    <3> QED
      BY <3>2, <3>3, <3>4
  <2>10. ReadersFollow'
    <3> SUFFICES ASSUME NEW w \in Users, Reader(w)'
                 PROVE  Referencing' # {} \/ \E x \in Users : pc'[x] = "stopping"
      BY DEF ReadersFollow
    <3> QED
      BY <2>4, <2>5
  <2> QED
    BY <1>2, <2>4, <2>6, <2>9, <2>10 DEF UseInv
<1>3. CASE pc[u] # "inside"
  <2>1. Stopped(u) /\ pc[u] = "stopping"
    BY <1>0, <1>3
    DEF LeaveStep, Exit, ExitUnlocked, ExitResume, Stopped, Discipline, Disciplined
  <2>2. u \in LifecycleOp /\ Referencing = {}
    BY <1>0, <2>1 DEF LifecycleOp, Referencing, RefsInvariant, Alone
  <2>3. /\ pc'[u] \in {"idle", "has"} /\ instance' = NoClient
        /\ pc'[u] = "has" => using'[u] = using[u]
    BY <1>0, <2>1, PartMoves DEF Stopped
  <2>4. Referencing' = {}
    BY <1>1, <2>2, <2>3 DEF Referencing
  <2>5. \A v \in Users : pc[v] # "closing" /\ pc'[v] # "closing" /\ pc'[v] # "inside"
    BY <1>0, <1>1, <2>2, <2>3, <2>4 DEF UseInv, QuietCloses, Referencing
  <2>6. \A v \in Users : LongLived(v) => pc'[v] # "has"
    BY <1>1, KindOfUser DEF Unsuspended
  <2>7. \A v \in Users : ~Reader(v)'
    <3> SUFFICES ASSUME NEW v \in Users, Reader(v)' PROVE FALSE
      OBVIOUS
    <3>1. pc'[v] = "has" /\ using'[v] = NoClient
      BY <2>3 DEF Reader
    <3>2. using'[v] \in Clients
      BY <1>0, <1>1, <2>1, <2>3, <3>1 DEF UsesClient, Working
    <3> QED
      BY <3>1, <3>2, LifecycleAssumption
  <2>8. UseInv'
    BY <2>4, <2>5, <2>6, <2>7
    DEF UseInv, QuietCloses, LiveInside, JustGot, OneClient, ReadersFollow, Attached, LongLived
  <2> QED
    BY <2>1, <2>3, <2>8
<1> QED
  BY <1>2, <1>3

-----------------------------------------------------------------------------
(* A worker closes the cached client by name only when nobody uses it.      *)
LEMMA NobodyHome ==
  ASSUME SharingInv, NEW u \in Users, LongLived(u), accountLock = u,
         \/ pc[u] = "closing"
         \/ pc[u] = "idle" /\ WithoutUpdates
  PROVE  /\ Referencing = {} /\ LifecycleOp = {}
         /\ \A v \in Users : waitsOn[v] = NoLock
         /\ \A l \in Locks : holder[l] = NoUser
<1>0. TypeOK /\ UseInv /\ Discipline /\ Calm /\ HeldOnlyByLifecycleOp /\ NoStaleLock
  BY DEF SharingInv, SharingTypeOK, UseInv
<1>1. Referencing = {}
  <2>1. CASE pc[u] = "closing"
    BY <1>0, <2>1 DEF UseInv, QuietCloses
  <2>2. CASE pc[u] = "idle" /\ WithoutUpdates
    <3> SUFFICES ASSUME NEW v \in Referencing PROVE FALSE
      OBVIOUS
    <3>1. v # u /\ v \in Users
      BY <2>2 DEF Referencing
    <3>2. Attached(v)
      BY <3>1 DEF Attached
    <3> QED
      BY <1>0, <2>2, <3>1, <3>2 DEF UseInv, OneClient, WithoutUpdates
  <2> QED
    BY <2>1, <2>2
<1>2. LifecycleOp = {}
  BY <1>0, ClientIsFree DEF Moving
<1>3. \A v \in Users : pc[v] \notin Bound
  BY <1>0, <1>1, <1>2, OthersAreQuiet DEF Bound, LifecycleOp
<1> QED
  BY <1>0, <1>1, <1>2, <1>3 DEF NoStaleLock, HeldOnlyByLifecycleOp

LEMMA CloseKeeps ==
  ASSUME SharingInv, SharingTypeOK', NEW u \in Users, LongLived(u), accountLock = u,
         \/ WithoutUpdates /\ Close(u)
         \/ Closed(u),
         \A v \in Users \ {u} : ~Unsuspended(v), accountLock' = accountLock
  PROVE  /\ RefsInvariant' /\ NoStaleLock' /\ UsesClient' /\ UseInv'
         /\ pc'[u] \in {"idle", "closing"} /\ \A v \in Users \ {u} : pc'[v] = pc[v]
<1>0. TypeOK /\ UseInv /\ RefsInvariant /\ UsesClient /\ Discipline /\ Calm
  BY DEF SharingInv, SharingTypeOK, UseInv
<1>1. /\ Referencing = {} /\ LifecycleOp = {}
      /\ \A v \in Users : waitsOn[v] = NoLock
      /\ \A l \in Locks : holder[l] = NoUser
  BY NobodyHome DEF Close, Closed
<1>2. refs = 0
  BY <1>0, <1>1, NobodyOrCounted
<1>3. /\ pc'[u] \in {"idle", "closing"}
      /\ \A v \in Users \ {u} : pc'[v] = pc[v] /\ using'[v] = using[v]
      /\ pc'[u] = "closing" => using'[u] \in Clients
      /\ refs' = 0 /\ waitsOn' = waitsOn /\ lock' \in {lock, NoLock} /\ holder' = holder
      /\ instance' \in {instance, NoClient}
  <2>1. CASE WithoutUpdates /\ Close(u)
    BY <1>0, <1>1, <1>2, <2>1, LifecycleAssumption
    DEF Close, CloseBody, PopEntries, WithoutUpdates, TypeOK
  <2>2. CASE Closed(u)
    BY <1>0, <2>2 DEF Closed, PopEntries, Forget, TypeOK
  <2> QED
    BY <2>1, <2>2
<1>4. \A v \in Users \ {u} : pc[v] \notin Bound \cup {"inside", "closing"}
  BY <1>0, <1>1, OthersAreQuiet DEF Bound, Referencing
<1>5. Referencing' = {} /\ LifecycleOp' = {} /\ \A v \in Users : pc'[v] \notin Bound \cup {"inside"}
  BY <1>3, <1>4 DEF Referencing, LifecycleOp, Bound
<1>6. RefsInvariant'
  <2>1. SingleLock' /\ OperationsHold' /\ Alone'
    BY <1>1, <1>3, <1>5 DEF SingleLock, OperationsHold, Alone
  <2>2. RefsCountUsers'
    BY <1>3, <1>5, FS_EmptySet DEF RefsCountUsers
  <2> QED
    BY <2>1, <2>2 DEF RefsInvariant
<1>7. NoStaleLock' /\ UsesClient'
  BY <1>0, <1>1, <1>3 DEF NoStaleLock, UsesClient, Working
<1>8. \A w \in Users : ~Reader(w)'
  <2> SUFFICES ASSUME NEW w \in Users, Reader(w)' PROVE FALSE
    OBVIOUS
  <2>1. w # u /\ pc[w] = "has" /\ using[w] = instance' /\ using[w] \in Clients
    BY <1>0, <1>3, KindOfUser DEF Reader, UsesClient, Working
  <2>2. Reader(w)
    BY <1>3, <2>1, LifecycleAssumption DEF Reader
  <2> QED
    BY <1>0, <1>1, <2>2 DEF UseInv, ReadersFollow, LifecycleOp
<1>9. \A v \in Users : LongLived(v) => pc'[v] # "has"
  BY <1>3 DEF Unsuspended
<1>10. UseInv'
  BY <1>5, <1>8, <1>9
  DEF UseInv, QuietCloses, LiveInside, JustGot, OneClient, ReadersFollow, Attached, LongLived, Bound
<1> QED
  BY <1>3, <1>6, <1>7, <1>10

-----------------------------------------------------------------------------
(* The discipline of the others does not depend on what one user does with *)
(* the account lock it may take.                                           *)
LEMMA OnlyOwnDiscipline ==
  ASSUME Discipline, NEW u \in Users, Disciplined(u)',
         \A v \in Users \ {u} : pc'[v] = pc[v], LockOf(u)
  PROVE  Discipline'
<1> SUFFICES ASSUME NEW v \in Users, v # u PROVE Disciplined(v)'
  BY DEF Discipline
<1>1. pc'[v] = pc[v] /\ (accountLock' = v <=> accountLock = v) /\ Disciplined(v)
  BY LifecycleAssumption DEF Discipline, LockOf
<1> QED
  BY <1>1 DEF Disciplined, LongLived

(* A service that lets go of an object it has not entered changes nothing   *)
(* for the others.                                                          *)
LEMMA GivesUpKeeps ==
  ASSUME SharingInv, SharingTypeOK', HeldOnlyByLifecycleOp', Calm', NEW u \in Users, GivesUp(u),
         ~LongLived(u), accountLock' = IF accountLock = u THEN NoUser ELSE accountLock
  PROVE  SharingInv'
<1>0. TypeOK /\ UseInv /\ Discipline /\ RefsInvariant /\ accountLock \in Users \cup {NoUser}
  BY DEF SharingInv, SharingTypeOK, UseInv
<1>1. /\ pc[u] = "has" /\ pc' = [pc EXCEPT ![u] = "idle"] /\ using' = [using EXCEPT ![u] = NoClient]
      /\ UNCHANGED <<registry, holder, connected, variant, waitsOn, attempt>>
  BY DEF GivesUp, Forget
<1>2. /\ pc'[u] = "idle" /\ \A v \in Users \ {u} : pc'[v] = pc[v] /\ using'[v] = using[v]
      /\ Referencing' = Referencing /\ LifecycleOp' = LifecycleOp /\ u \notin Referencing
  BY <1>0, <1>1 DEF TypeOK, Referencing, LifecycleOp
<1>3. /\ accountLock' # u
      /\ \A v \in Users \ {u} : accountLock' = v <=> accountLock = v
  BY KindOfUser
<1>4. Discipline'
  <2>1. Disciplined(u)'
    BY <1>2, <1>3, KindOfUser DEF Disciplined, LongLived
  <2> QED
    BY <1>0, <1>2, <2>1, OnlyOwnDiscipline DEF LockOf
<1>5. RefsInvariant'
  <2>1. SingleLock' /\ OperationsHold'
    BY <1>0, <1>1, <1>2 DEF RefsInvariant, SingleLock, OperationsHold, Bound, registry
  <2>2. RefsCountUsers' /\ Alone'
    BY <1>0, <1>1, <1>2 DEF RefsInvariant, RefsCountUsers, Alone, registry
  <2> QED
    BY <2>1, <2>2 DEF RefsInvariant
<1>6. NoStaleLock' /\ UsesClient'
  BY <1>1, <1>2 DEF SharingInv, NoStaleLock, UsesClient, Working, Bound
<1>7. QuietCloses' /\ JustGot' /\ LiveInside'
  BY <1>0, <1>1, <1>2 DEF UseInv, QuietCloses, JustGot, LiveInside, LongLived, registry
<1>8. \A w \in Users : /\ Reader(w)' => w # u /\ Reader(w)
                       /\ Attached(w)' => w # u /\ Attached(w)
  BY <1>1, <1>2, <1>3 DEF Reader, Attached, LongLived, registry
<1>9. ReadersFollow'
  <2> SUFFICES ASSUME NEW w \in Users, Reader(w)'
               PROVE  Referencing' # {} \/ \E x \in Users : pc'[x] = "stopping"
    BY DEF ReadersFollow
  <2>1. Referencing # {} \/ \E x \in Users : pc[x] = "stopping"
    BY <1>0, <1>8 DEF UseInv, ReadersFollow
  <2> QED
    BY <1>1, <1>2, <2>1
<1>10. OneClient'
  <2> SUFFICES ASSUME NEW w \in Users, Attached(w)'
               PROVE  /\ instance \in Clients /\ variant[instance] # "noUpdates"
                      /\ \A x \in Users :
                           x \in Referencing \/ (Kind[x] = "sign" /\ accountLock' = x /\ pc'[x] = "has")
                             => using'[x] = instance
    BY <1>1, <1>2 DEF OneClient, registry
  <2> QED
    BY <1>0, <1>2, <1>3, <1>8 DEF UseInv, OneClient
<1> QED
  BY <1>4, <1>5, <1>6, <1>7, <1>9, <1>10 DEF SharingInv, UseInv

(* What a service may do, in terms of the discipline.                      *)
LEMMA UseKeepsSharing ==
  ASSUME SharingInv, SharingTypeOK', HeldOnlyByLifecycleOp', Calm',
         NEW u \in Users, UseStep(u), UseInv', LockOf(u), Disciplined(u)'
  PROVE  SharingInv'
<1>1. TypeOK /\ TypeOK'
  BY DEF SharingInv, SharingTypeOK
<1>2. RefsInvariant' /\ NoStaleLock' /\ UsesClient'
  BY <1>1, UseKeepsInvariant, UseWaits, UseUses DEF SharingInv
<1>3. Discipline'
  BY <1>1, OnlyOwnDiscipline, UseMoves DEF SharingInv
<1> QED
  BY <1>2, <1>3 DEF SharingInv, UseInv

LEMMA SharingStep ==
  ASSUME SharingInv, Base', Orderly', SharingNext
  PROVE  SharingInv'
<1>0. /\ TypeOK /\ accountLock \in Users \cup {NoUser} /\ Discipline /\ UseInv /\ Calm
      /\ RefsInvariant
  BY DEF SharingInv, SharingTypeOK, UseInv
<1>a. SharingTypeOK' /\ TypeOK' /\ HeldOnlyByLifecycleOp'
  BY DEF Base, SharingTypeOK
<1>b. Calm'
  <2>1. (Base /\ Orderly => Calm)'
    BY CalmWhenOrderly, PTL
  <2> QED
    BY <2>1
<1>1. PICK u \in Users :
        /\ \A v \in Users \ {u} : ~Unsuspended(v)
        /\ \/ SignStart(u) \/ SignEnter(u) \/ SignLeave(u) \/ SignCancelled(u) \/ SignGivesUp(u)
           \/ FetchEnter(u) \/ FetchStep(u) \/ FetchTimeout(u)
           \/ WorkerAcquire(u) \/ WorkerClose(u) \/ WorkerGet(u) \/ WorkerEnter(u)
           \/ MonitorExit(u) \/ MonitorLeaving(u) \/ MangaExit(u)
           \/ StatusGet(u) \/ StatusAcquire(u) \/ StatusConnect(u) \/ StatusDone(u)
  BY DEF SharingNext
<1>k. /\ Kind[u] \in {"sign", "monitor", "manga", "status"} /\ u # NoUser
      /\ LongLived(u) <=> Kind[u] \in {"monitor", "manga"}
      /\ Disciplined(u)
  BY <1>0, KindOfUser DEF Discipline
<1>s. Kind[u] # "status" => u \notin strays'
  BY DEF Orderly
<1>2. CASE SignStart(u)
  <2>1. /\ Kind[u] = "sign" /\ accountLock = NoUser /\ accountLock' = u /\ GetClient(u)
        /\ UseStep(u) /\ LockOf(u)
    BY <1>2, SharingCases DEF SignStart, Take, LockOf
  <2>2. UseInv' /\ pc' = [pc EXCEPT ![u] = "has"]
    BY <1>a, <1>1, <1>k, <2>1, GetKeeps
  <2>3. Disciplined(u)'
    BY <1>0, <1>k, <2>1, <2>2 DEF Disciplined, LongLived, TypeOK
  <2> QED
    BY <1>a, <1>b, <2>1, <2>2, <2>3, UseKeepsSharing
<1>3. CASE SignEnter(u)
  <2>1. /\ Kind[u] = "sign" /\ accountLock = u
        /\ accountLock' = IF pc'[u] = "idle" THEN NoUser ELSE accountLock
        /\ Enter(u) \/ EnterResume(u) \/ OpenStep(u)
        /\ UseStep(u) /\ LockOf(u)
    BY <1>3, SharingCases DEF SignEnter, ReleaseWhen, LockOf
  <2>2. UseInv' /\ pc'[u] \in {"opening", "inside", "aborting", "has", "idle"}
    <3>1. CASE Enter(u)
      <4>1. pc'[u] # "idle"
        BY <1>0, <3>1 DEF Enter, EnterBody, TypeOK
      <4> QED
        BY <1>a, <1>b, <1>k, <2>1, <3>1, <4>1, EnterKeeps
    <3>2. CASE EnterResume(u)
      BY <1>k, <3>2 DEF EnterResume, Disciplined
    <3>3. CASE OpenStep(u)
      BY <1>a, <1>k, <2>1, <3>3, OpenKeeps
    <3> QED
      BY <2>1, <3>1, <3>2, <3>3
  <2>3. Disciplined(u)'
    BY <1>k, <2>1, <2>2 DEF Disciplined, LongLived
  <2> QED
    BY <1>a, <1>b, <2>1, <2>2, <2>3, UseKeepsSharing
<1>4. CASE SignLeave(u)
  <2>1. /\ Kind[u] = "sign" /\ accountLock = u /\ LeaveStep(u) /\ UseStep(u) /\ LockOf(u)
        /\ \/ pc'[u] \in {"idle", "has"} /\ accountLock' = NoUser
           \/ pc'[u] # "idle" /\ accountLock' = u
    BY <1>4, SharingCases DEF SignLeave, LockOf
  <2>2. UseInv' /\ pc'[u] \in {"stopping", "idle", "has"}
    BY <1>a, <1>1, <2>1, LeaveKeeps
  <2>3. Disciplined(u)'
    BY <1>k, <2>1, <2>2 DEF Disciplined, LongLived
  <2> QED
    BY <1>a, <1>b, <2>1, <2>2, <2>3, UseKeepsSharing
<1>5. CASE SignCancelled(u) \/ FetchTimeout(u)
  BY <1>5, <1>s DEF SignCancelled, FetchTimeout, Stray
<1>6. CASE SignGivesUp(u)
  BY <1>6, <1>a, <1>b, <1>k, GivesUpKeeps DEF SignGivesUp, ReleaseWhen
<1>7. CASE FetchEnter(u)
  <2>1. /\ Kind[u] = "sign" /\ accountLock # u /\ accountLock' = accountLock
        /\ pc[u] = "has" /\ Enter(u) /\ UseStep(u) /\ LockOf(u) /\ using[u] = instance
    BY <1>7, <1>s, SharingCases DEF FetchEnter, Stray, LockOf
  <2>2. UseInv' /\ pc'[u] = "inside"
    BY <1>a, <1>b, <2>1, EnterKeeps DEF Reader
  <2>3. Disciplined(u)'
    BY <1>k, <2>1, <2>2 DEF Disciplined, LongLived
  <2> QED
    BY <1>a, <1>b, <2>1, <2>2, <2>3, UseKeepsSharing
<1>8. CASE FetchStep(u)
  <2>1. /\ Kind[u] = "sign" /\ accountLock # u /\ accountLock' = accountLock /\ pc'[u] # "has"
        /\ UseStep(u) /\ LockOf(u)
        /\ EnterResume(u) \/ OpenStep(u) \/ LeaveStep(u)
    BY <1>8, SharingCases DEF FetchStep, LockOf
  <2>2. LeaveStep(u)
    BY <1>k, <2>1
    DEF EnterResume, OpenStep, Connect, Ready, DatabaseLocked, ConnectFails, Aborted, Disciplined
  <2>3. UseInv' /\ pc'[u] \in {"stopping", "idle"}
    BY <1>a, <1>1, <2>1, <2>2, LeaveKeeps
  <2>4. Disciplined(u)'
    BY <1>k, <2>1, <2>3 DEF Disciplined, LongLived
  <2> QED
    BY <1>a, <1>b, <2>1, <2>3, <2>4, UseKeepsSharing
<1>9. CASE WorkerAcquire(u) \/ StatusAcquire(u)
  <2>1. accountLock = NoUser /\ accountLock' = u /\ UNCHANGED vars /\ Kind[u] # "sign"
    BY <1>9, <1>k DEF WorkerAcquire, StatusAcquire, Take
  <2>2. Disciplined(u)'
    BY <1>k, <1>9, <2>1 DEF WorkerAcquire, StatusAcquire, Disciplined, LongLived, vars
  <2>3. Discipline'
    BY <1>0, <2>1, <2>2, OnlyOwnDiscipline DEF vars, LockOf
  <2>4. \A w \in Users : /\ Reader(w)' => Reader(w)
                         /\ Attached(w)' => Attached(w)
    BY <1>k, <2>1, KindOfUser DEF Reader, Attached, LongLived, vars, Referencing
  <2>5. OneClient'
    <3> SUFFICES ASSUME NEW w \in Users, Attached(w)'
                 PROVE  /\ instance \in Clients /\ variant[instance] # "noUpdates"
                        /\ \A x \in Users :
                             x \in Referencing \/ (Kind[x] = "sign" /\ accountLock' = x /\ pc[x] = "has")
                               => using[x] = instance
      BY <2>1 DEF OneClient, vars, Referencing
    <3> QED
      BY <1>0, <2>1, <2>4 DEF UseInv, OneClient
  <2>6. ReadersFollow'
    BY <1>0, <2>1, <2>4 DEF UseInv, ReadersFollow, vars, Referencing
  <2> QED
    BY <1>a, <1>b, <2>1, <2>3, <2>5, <2>6
    DEF SharingInv, vars, RefsInvariant, SingleLock, OperationsHold,
        RefsCountUsers, Alone, Referencing, LifecycleOp, NoStaleLock, QuietCloses, UsesClient,
        Working, JustGot, LiveInside, LongLived
<1>10. CASE WorkerClose(u)
  <2>1. /\ LongLived(u) /\ accountLock = u /\ accountLock' = accountLock
        /\ \/ WithoutUpdates /\ Close(u)
           \/ Closed(u)
    BY <1>k, <1>10 DEF WorkerClose, CloseResume, Disciplined
  <2>2. /\ RefsInvariant' /\ NoStaleLock' /\ UsesClient' /\ UseInv'
        /\ pc'[u] \in {"idle", "closing"} /\ \A v \in Users \ {u} : pc'[v] = pc[v]
    BY <1>a, <1>1, <2>1, CloseKeeps
  <2>3. Disciplined(u)'
    BY <1>k, <2>1, <2>2 DEF Disciplined, LongLived
  <2>4. Discipline'
    BY <1>0, <2>1, <2>2, <2>3, OnlyOwnDiscipline DEF LockOf
  <2> QED
    BY <1>a, <1>b, <2>2, <2>4 DEF SharingInv, UseInv
<1>11. CASE WorkerGet(u)
  <2>1. /\ LongLived(u) /\ accountLock = u /\ accountLock' = u /\ ~WithoutUpdates
        /\ GetCached(u, "updates") \/ GetNew(u, "updates")
        /\ UseStep(u) /\ LockOf(u)
    BY <1>11, SharingCases DEF WorkerGet, LockOf
  <2>2. UseInv' /\ pc' = [pc EXCEPT ![u] = "has"]
    BY <1>a, <1>1, <1>k, <2>1, GetKeeps
  <2>3. Disciplined(u)'
    BY <1>0, <1>k, <2>1, <2>2 DEF Disciplined, LongLived, TypeOK
  <2> QED
    BY <1>a, <1>b, <2>1, <2>2, <2>3, UseKeepsSharing
<1>12. CASE WorkerEnter(u)
  <2>1. /\ LongLived(u) /\ (Enter(u) \/ EnterResume(u) \/ OpenStep(u)) /\ pc'[u] # "has"
        /\ accountLock' = IF pc'[u] \in {"inside", "idle"} THEN NoUser ELSE accountLock
        /\ UseStep(u)
    BY <1>12, SharingCases DEF WorkerEnter, ReleaseWhen
  <2>2. accountLock = u /\ pc[u] # "entering" /\ LockOf(u)
    <3>1. pc[u] \in {"has", "entering", "opening", "aborting"}
      BY <2>1 DEF Enter, EnterResume, OpenStep, Connect, Ready, DatabaseLocked, ConnectFails, Aborted
    <3> QED
      BY <1>k, <2>1, <3>1 DEF Disciplined, LockOf
  <2>3. Enter(u) \/ OpenStep(u)
    BY <2>1, <2>2 DEF EnterResume
  <2>4. UseInv' /\ pc'[u] \in {"opening", "aborting", "inside", "idle"}
    BY <1>a, <1>b, <1>k, <2>1, <2>2, <2>3, EnterKeeps, OpenKeeps
  <2>5. Disciplined(u)'
    BY <1>k, <2>1, <2>2, <2>4 DEF Disciplined, LongLived
  <2> QED
    BY <1>a, <1>b, <2>1, <2>2, <2>4, <2>5, UseKeepsSharing
<1>13. CASE MonitorExit(u)
  <2>1. /\ Kind[u] = "monitor" /\ accountLock = NoUser /\ pc[u] = "inside" /\ pc'[u] # "has"
        /\ accountLock' = IF pc'[u] = "idle" THEN NoUser ELSE u
        /\ LeaveStep(u) /\ UseStep(u) /\ LockOf(u)
    BY <1>13, SharingCases DEF MonitorExit, Exit, LeaveStep, LockOf
  <2>2. UseInv' /\ pc'[u] \in {"stopping", "idle"}
    BY <1>a, <1>1, <2>1, LeaveKeeps
  <2>3. Disciplined(u)'
    BY <1>k, <2>1, <2>2 DEF Disciplined, LongLived
  <2> QED
    BY <1>a, <1>b, <2>1, <2>2, <2>3, UseKeepsSharing
<1>14. CASE MonitorLeaving(u)
  <2>1. /\ Kind[u] = "monitor" /\ Stopped(u) /\ pc[u] = "stopping" /\ accountLock = u /\ pc'[u] # "has"
        /\ accountLock' = IF pc'[u] = "idle" THEN NoUser ELSE accountLock
        /\ LeaveStep(u) /\ UseStep(u) /\ LockOf(u)
    BY <1>k, <1>14, SharingCases
    DEF MonitorLeaving, ReleaseWhen, ExitResume, Stopped, LeaveStep, Disciplined, LockOf
  <2>2. UseInv' /\ pc'[u] = "idle"
    BY <1>a, <1>1, <2>1, LeaveKeeps
  <2>3. Disciplined(u)'
    BY <1>k, <2>1, <2>2 DEF Disciplined, LongLived
  <2> QED
    BY <1>a, <1>b, <2>1, <2>2, <2>3, UseKeepsSharing
<1>15. CASE MangaExit(u)
  <2>1. /\ Kind[u] = "manga" /\ LeaveStep(u) /\ UseStep(u) /\ accountLock' = accountLock
        /\ pc'[u] # "has" /\ LockOf(u)
    BY <1>15, SharingCases DEF MangaExit, LockOf
  <2>2. UseInv' /\ pc'[u] \in {"stopping", "idle"} /\ pc[u] \in {"inside", "stopping"}
    BY <1>a, <1>1, <2>1, LeaveKeeps
  <2>3. Disciplined(u)'
    BY <1>k, <2>1, <2>2 DEF Disciplined, LongLived
  <2> QED
    BY <1>a, <1>b, <2>1, <2>2, <2>3, UseKeepsSharing
<1>16. CASE StatusGet(u)
  <2>1. /\ Kind[u] = "status" /\ accountLock' = accountLock /\ LockOf(u)
        /\ GetClient(u) /\ UseStep(u)
    BY <1>16, SharingAssumption, SharingCases DEF StatusGet, GetClient, LockOf
  <2>2. UseInv' /\ pc[u] = "idle" /\ pc' = [pc EXCEPT ![u] = "has"]
    BY <1>a, <1>1, <1>k, <2>1, GetKeeps
  <2>3. Disciplined(u)'
    BY <1>0, <1>k, <2>1, <2>2 DEF Disciplined, LongLived, TypeOK
  <2> QED
    BY <1>a, <1>b, <2>1, <2>2, <2>3, UseKeepsSharing
<1>17. CASE StatusConnect(u)
  <2>1. /\ connected' = [connected EXCEPT ![using[u]] = TRUE]
        /\ UNCHANGED <<registry, holder, variant, pc, using, waitsOn, attempt, accountLock>>
    BY <1>17 DEF StatusConnect
  <2>2. LiveInside'
    <3> SUFFICES ASSUME NEW v \in Users, pc[v] = "inside" PROVE connected'[using[v]]
      BY <2>1 DEF LiveInside
    <3>1. using[v] \in Clients /\ connected[using[v]]
      BY DEF SharingInv, UsesClient, Working, LiveInside
    <3> QED
      BY <1>0, <2>1, <3>1 DEF TypeOK
  <2> QED
    BY <1>a, <1>b, <2>1, <2>2
    DEF SharingInv, registry, RefsInvariant, SingleLock, OperationsHold,
        RefsCountUsers, Alone, Referencing, LifecycleOp, NoStaleLock, QuietCloses, UsesClient,
        Working, JustGot, OneClient, ReadersFollow, Attached, Reader, LongLived, Discipline,
        Disciplined
<1>18. CASE StatusDone(u)
  BY <1>18, <1>a, <1>b, <1>k, GivesUpKeeps DEF StatusDone
<1> QED
  BY <1>1, <1>2, <1>3, <1>4, <1>5, <1>6, <1>7, <1>8, <1>9, <1>10, <1>11, <1>12, <1>13, <1>14,
     <1>15, <1>16, <1>17, <1>18

LEMMA SharingStarts == SharingInit => Base /\ SharingInv
<1> SUFFICES ASSUME SharingInit PROVE Base /\ SharingInv
  OBVIOUS
<1>1. Init /\ accountLock = NoUser /\ strays = {}
  BY DEF SharingInit
<1>2. /\ \A u \in Users : pc[u] = "idle" /\ waitsOn[u] = NoLock
      /\ Referencing = {} /\ LifecycleOp = {} /\ Moving = {}
  BY <1>1 DEF Init, Referencing, LifecycleOp, Moving
<1>3. SharingTypeOK
  BY <1>1, LifecycleAssumption DEF Init, SharingTypeOK, TypeOK, Phases
<1>4. HeldOnlyByLifecycleOp /\ RefsInvariant
  BY <1>1, RefsInit DEF Init, HeldOnlyByLifecycleOp
<1>5. Discipline
  BY <1>1, <1>2, KindOfUser DEF Discipline, Disciplined
<1>6. Base
  BY <1>2, <1>3, <1>4 DEF Base, ChecksOutside, Colliding
<1> QED
  BY <1>2, <1>3, <1>4, <1>5, <1>6
  DEF SharingInv, Calm, NoStaleLock, QuietCloses, UsesClient, Working, JustGot, ReadersFollow, Reader,
      OneClient, Attached, LiveInside

LEMMA SharingStutters == UNCHANGED allVars => (Base => Base') /\ (SharingInv => SharingInv')
BY DEF allVars, vars, Base, ChecksOutside, Colliding, Moving, Calm, SharingInv, SharingTypeOK, TypeOK,
   HeldOnlyByLifecycleOp, RefsInvariant, SingleLock,
   OperationsHold, RefsCountUsers, Alone, Referencing, LifecycleOp, NoStaleLock, QuietCloses,
   UsesClient, Working, JustGot, OneClient, ReadersFollow, Reader, Attached, LiveInside, LongLived,
   Discipline, Disciplined

(* The history only grows: what is orderly has been orderly before.         *)
LEMMA StraysGrow == [SharingNext]_allVars => strays \subseteq strays'
BY DEF SharingNext, Stray, SignStart, SignEnter, SignLeave, SignCancelled, SignGivesUp, FetchEnter,
   FetchStep, FetchTimeout, WorkerAcquire, WorkerClose, WorkerGet, WorkerEnter, MonitorExit,
   MonitorLeaving, MangaExit, StatusGet, StatusAcquire, StatusConnect, StatusDone, allVars

OrderlyInv == Base /\ (Orderly => SharingInv)

LEMMA OrderlyStep == OrderlyInv /\ [SharingNext]_allVars => OrderlyInv'
<1> SUFFICES ASSUME OrderlyInv, [SharingNext]_allVars PROVE OrderlyInv'
  OBVIOUS
<1>1. Base'
  BY BaseStep, SharingStutters DEF OrderlyInv
<1>2. Orderly' => Orderly
  BY StraysGrow DEF Orderly
<1> QED
  BY <1>1, <1>2, SharingStep, SharingStutters DEF OrderlyInv

LEMMA InsideTogether == SharingInv => SharedClient
<1> SUFFICES ASSUME SharingInv, NEW u \in Users, NEW v \in Users,
                    pc[u] = "inside", pc[v] = "inside"
             PROVE  using[u] = using[v] /\ connected[using[u]]
  BY DEF SharedClient
<1>1. connected[using[u]] /\ OneClient
  BY DEF SharingInv, LiveInside
<1>2. u \in Referencing /\ v \in Referencing
  BY DEF Referencing
<1>3. CASE u # v
  <2>1. Attached(u) \/ Attached(v)
    BY <1>2, <1>3 DEF Attached
  <2> QED
    BY <1>1, <1>2, <2>1 DEF OneClient
<1> QED
  BY <1>1, <1>3

-----------------------------------------------------------------------------
(* Sign runs (with the reply they read once the account lock is free),      *)
(* keyword monitors, manga workers and account checks share one connected   *)
(* client of an account, until one of them starts or stops it without the   *)
(* account lock while another one is at it, enters an object that is no     *)
(* longer cached, or is cut off in the middle.                              *)
THEOREM ClientIsShared == SharingSpec => [](Orderly => SharedClient)
<1>1. SharingInit => OrderlyInv
  BY SharingStarts DEF OrderlyInv
<1>2. OrderlyInv => (Orderly => SharedClient)
  BY InsideTogether DEF OrderlyInv
<1> QED
  BY <1>1, <1>2, OrderlyStep, PTL DEF SharingSpec

(* And none of them stops the client another one is inside of.             *)
THEOREM SharedIsNeverStopped == SharingSpec => [][Orderly' => Undisturbed]_allVars
<1>1. SharingInit => OrderlyInv
  BY SharingStarts DEF OrderlyInv
<1>2. ASSUME OrderlyInv, [SharingNext]_allVars PROVE [Orderly' => Undisturbed]_allVars
  <2> SUFFICES ASSUME Orderly', NEW u \in Users, pc[u] = "inside", pc'[u] = "inside",
                      connected[using[u]], SharingNext
               PROVE  connected'[using[u]]
    BY <1>2 DEF Undisturbed
  <2>0. SharingInv
    BY <1>2, StraysGrow DEF OrderlyInv, Orderly
  <2>1. TypeOK /\ RefsInvariant /\ using[u] \in Clients
    BY <2>0 DEF SharingInv, SharingTypeOK, UsesClient, Working
  <2>2. ASSUME NEW w \in Users, UseStep(w) PROVE connected'[using[u]]
    BY <2>1, <2>2, StopsOnlyUnused
  <2>3. ASSUME NEW w \in Users, WorkerClose(w) PROVE connected'[using[u]]
    <3>1. pc[w] # "closing"
      BY <2>0 DEF SharingInv, QuietCloses, Referencing
    <3> QED
      BY <2>3, <3>1 DEF WorkerClose, Close, CloseResume, Closed
  <2>4. ASSUME NEW w \in Users, StatusConnect(w) PROVE connected'[using[u]]
    BY <2>1, <2>4 DEF StatusConnect, TypeOK
  <2>5. ASSUME NEW w \in Users,
               WorkerAcquire(w) \/ StatusAcquire(w) \/ StatusDone(w) \/ SignGivesUp(w)
        PROVE  connected'[using[u]]
    BY <2>5 DEF WorkerAcquire, StatusAcquire, StatusDone, SignGivesUp, GivesUp, vars
  <2>6. ASSUME NEW w \in Users, SignCancelled(w) \/ FetchTimeout(w) PROVE FALSE
    BY <2>6 DEF SignCancelled, FetchTimeout, Stray, Orderly
  <2> QED
    BY <2>2, <2>3, <2>4, <2>5, <2>6, SharingCases DEF SharingNext
<1> QED
  BY <1>1, <1>2, OrderlyStep, PTL DEF SharingSpec

(* Orderly services share a connected client undisturbed.                  *)
THEOREM OrderlyServices == SharingSpec => OrderlySharing
  BY ClientIsShared, SharedIsNeverStopped DEF OrderlySharing

-----------------------------------------------------------------------------
(* The connection itself, as long as nobody has strayed: the cached client  *)
(* is connected only for somebody who accounts for it, and a failed start   *)
(* leaves its client before the next one can be started.                    *)
InstanceOwned ==
  instance \in Clients /\ connected[instance] => \E u \in Owners : using[u] = instance

AbortedIsDropped == \A u \in Users : pc[u] = "aborting" => using[u] # instance

NobodyClosing == \A u \in Users : pc[u] # "closing"

SessionInv == SharingInv /\ InstanceOwned /\ AbortedIsDropped /\ NobodyClosing

LEMMA OwnersAgree ==
  ASSUME SharingInv, NEW u \in Owners, NEW v \in Owners
  PROVE  using[u] = using[v]
<1>1. /\ StartStopSerialized /\ Alone /\ SharedClient
      /\ \A w \in Users : pc[w] # "leaving"
  BY Serialized, InsideTogether DEF SharingInv, SharingTypeOK, RefsInvariant, Discipline, Disciplined
<1>2. CASE LifecycleOp # {}
  BY <1>1, <1>2 DEF Owners, StartStopSerialized, Alone
<1>3. CASE LifecycleOp = {}
  <2>1. u \in Users /\ v \in Users /\ pc[u] = "inside" /\ pc[v] = "inside"
    BY <1>1, <1>3 DEF Owners, Referencing, LifecycleOp
  <2> QED
    BY <1>1, <2>1 DEF SharedClient
<1> QED
  BY <1>2, <1>3

LEMMA UseKeepsOwned ==
  ASSUME SessionInv, TypeOK', NEW u \in Users, UseStep(u)
  PROVE  InstanceOwned' /\ AbortedIsDropped'
<1>0. TypeOK /\ InstanceOwned /\ AbortedIsDropped /\ RefsInvariant /\ SharingInv /\ UsesClient
  BY DEF SessionInv, SharingInv, SharingTypeOK
<1>1. \A v \in Users \ {u} : pc'[v] = pc[v] /\ using'[v] = using[v]
  BY <1>0, UseMoves
<1>2. ASSUME instance' = instance,
             instance \in Clients /\ connected'[instance] => connected[instance],
             u \in Owners => u \in Owners' /\ using'[u] = using[u],
             pc'[u] # "aborting"
      PROVE  InstanceOwned' /\ AbortedIsDropped'
  <2>1. AbortedIsDropped'
    BY <1>0, <1>1, <1>2 DEF AbortedIsDropped
  <2> SUFFICES ASSUME instance \in Clients, connected'[instance]
               PROVE  \E v \in Owners' : using'[v] = instance
    BY <1>2, <2>1 DEF InstanceOwned
  <2>2. PICK v \in Owners : using[v] = instance
    BY <1>0, <1>2 DEF InstanceOwned
  <2>3. v \in Owners' /\ using'[v] = using[v]
    BY <1>1, <1>2, <2>2 DEF Owners, Referencing, LifecycleOp
  <2> QED
    BY <2>2, <2>3
<1>3. CASE GetClient(u)
  <2>1. PICK x \in Variants : GetCached(u, x) \/ GetNew(u, x)
    BY <1>3 DEF GetClient
  <2>2. CASE GetCached(u, x)
    BY <1>0, <1>2, <2>2 DEF GetCached, Owners, Referencing, LifecycleOp, registry, TypeOK
  <2>3. CASE GetNew(u, x)
    BY <1>0, <1>1, <2>3 DEF GetNew, FreshClient, InstanceOwned, AbortedIsDropped, TypeOK
  <2> QED
    BY <2>1, <2>2, <2>3
<1>4. CASE Enter(u) \/ EnterResume(u)
  <2>1. u \notin Owners /\ pc'[u] # "aborting"
    BY <1>0, <1>4 DEF Enter, EnterResume, EnterBody, Owners, Referencing, LifecycleOp, TypeOK
  <2> QED
    BY <1>2, <1>4, <2>1 DEF Enter, EnterResume
<1>5. CASE Connect(u)
  <2>1. u \in Owners /\ using' = using /\ pc' = pc /\ instance' = instance
        /\ connected' = [connected EXCEPT ![using[u]] = TRUE]
    BY <1>5 DEF Connect, Owners, Referencing, registry
  <2>2. Owners' = Owners
    BY <2>1 DEF Owners, Referencing, LifecycleOp
  <2>3. CASE using[u] = instance
    BY <1>0, <2>1, <2>2, <2>3 DEF InstanceOwned, AbortedIsDropped
  <2>4. CASE using[u] # instance
    <3>1. instance \in Clients /\ connected'[instance] => connected[instance]
      BY <1>0, <2>1, <2>4 DEF TypeOK
    <3> QED
      BY <1>0, <2>1, <2>2, <3>1 DEF InstanceOwned, AbortedIsDropped
  <2> QED
    BY <2>3, <2>4
<1>6. CASE Ready(u)
  BY <1>0, <1>2, <1>6 DEF Ready, Leave, Owners, Referencing, TypeOK, registry
<1>7. CASE ConnectFails(u)
  <2>1. /\ instance' = NoClient /\ pc' = [pc EXCEPT ![u] = "aborting"] /\ using' = using
        /\ pc[u] = "opening"
    BY <1>0, <1>7, FailingIsLast DEF ConnectFails
  <2> QED
    BY <1>0, <2>1, LifecycleAssumption
    DEF InstanceOwned, AbortedIsDropped, UsesClient, Working, TypeOK
<1>8. CASE DatabaseLocked(u)
  <2>1. instance \in Clients /\ connected'[instance] => connected[instance]
    BY <1>0, <1>8 DEF DatabaseLocked, StopClient, TypeOK
  <2> QED
    BY <1>2, <1>8, <2>1 DEF DatabaseLocked, Owners, Referencing, LifecycleOp, registry
<1>9. CASE Aborted(u)
  <2>1. /\ u \in Owners /\ pc[u] = "aborting" /\ instance' = instance /\ pc'[u] # "aborting"
        /\ instance \in Clients /\ connected'[instance] => connected[instance]
    BY <1>0, <1>9, PartMoves DEF Aborted, StopClient, Owners, LifecycleOp, registry, TypeOK
  <2>2. ~(instance \in Clients /\ connected[instance])
    BY <1>0, <2>1, OwnersAgree DEF InstanceOwned, AbortedIsDropped
  <2> QED
    BY <1>0, <1>1, <2>1, <2>2 DEF InstanceOwned, AbortedIsDropped
<1>10. CASE Stopped(u)
  <2>1. instance' = NoClient /\ pc'[u] # "aborting"
    BY <1>0, <1>10, PartMoves DEF Stopped
  <2> QED
    BY <1>0, <1>1, <2>1, LifecycleAssumption
    DEF InstanceOwned, AbortedIsDropped, UsesClient, Working
<1>11. CASE Exit(u) \/ ExitUnlocked(u) \/ ExitResume(u)
  <2>1. /\ connected' = connected /\ instance' = instance
        /\ u \in Referencing /\ LifecycleOp = {} /\ pc[u] = "inside"
    <3>1. connected' = connected /\ instance' = instance /\ u \in Referencing
      BY <1>11 DEF Exit, ExitUnlocked, ExitResume, Referencing, registry
    <3>2. pc[u] = "inside"
      BY <1>0, <1>11 DEF Exit, ExitUnlocked, ExitResume, SharingInv, Discipline, Disciplined
    <3> QED
      BY <1>0, <3>1, <3>2 DEF RefsInvariant, Alone, Referencing, LifecycleOp
  <2>2. lock \in Locks /\ holder[lock] = NoUser
    BY <1>0, <2>1 DEF SharingInv, RefsInvariant, SingleLock, HeldOnlyByLifecycleOp, TypeOK
  <2>3. ExitBody(u, lock)
    BY <1>11, <2>1, <2>2, LifecycleAssumption DEF Exit, ExitUnlocked, ExitResume
  <2>4. CASE refs' = 0
    <3>1. pc'[u] = "stopping" /\ using' = using
      BY <1>0, <2>3, <2>4, ExitMoves
    <3> QED
      BY <1>2, <2>1, <3>1 DEF Owners, LifecycleOp
  <2>5. CASE refs' # 0
    <3>1. RefsInvariant' /\ Referencing' = Referencing \ {u} /\ pc'[u] # "aborting"
      BY <1>0, <1>1, <2>3, <2>5, UseKeepsInvariant, ExitMoves DEF Referencing
    <3>2. PICK w \in Referencing : w # u /\ w \in Referencing'
      <4>1. Referencing' # {}
        BY <2>5, <3>1, FS_EmptySet DEF RefsInvariant, RefsCountUsers
      <4> QED
        BY <3>1, <4>1
    <3>3. using'[w] = using[w] /\ w \in Owners' /\ w \in Owners
      BY <1>1, <3>2 DEF Owners, Referencing
    <3>4. instance \in Clients /\ connected[instance] => using[w] = instance
      BY <1>0, <3>3, OwnersAgree DEF InstanceOwned
    <3> QED
      BY <1>0, <1>1, <2>1, <3>1, <3>3, <3>4 DEF InstanceOwned, AbortedIsDropped
  <2> QED
    BY <2>4, <2>5
<1> QED
  BY <1>3, <1>4, <1>5, <1>6, <1>7, <1>8, <1>9, <1>10, <1>11 DEF UseStep, OpenStep, LeaveStep

(* Nobody closes by name on the way in or out. *)
LEMMA UseNeverCloses ==
  ASSUME TypeOK, NobodyClosing, NEW u \in Users, UseStep(u)
  PROVE  NobodyClosing'
<1> SUFFICES pc'[u] # "closing"
  BY UseMoves DEF NobodyClosing
<1>1. CASE GetClient(u)
  BY <1>1 DEF GetClient, GetCached, GetNew, TypeOK
<1>2. CASE Enter(u) \/ EnterResume(u)
  BY <1>2 DEF Enter, EnterResume, EnterBody, TypeOK
<1>3. CASE OpenStep(u)
  BY <1>3, PartMoves
  DEF OpenStep, Connect, Ready, DatabaseLocked, ConnectFails, Aborted, Leave, NobodyClosing, TypeOK
<1>4. CASE LeaveStep(u)
  <2>1. ASSUME NEW l, ExitBody(u, l) PROVE pc'[u] # "closing"
    BY <2>1, ExitMoves
  <2> QED
    BY <1>4, <2>1, PartMoves
    DEF LeaveStep, Exit, ExitUnlocked, ExitResume, Stopped, NobodyClosing, TypeOK
<1> QED
  BY <1>1, <1>2, <1>3, <1>4 DEF UseStep

(* One step of the services while nobody strays. *)
LEMMA SessionCases ==
  ASSUME SessionInv, strays' = {}, SharingNext
  PROVE  \/ \E u \in Users : UseStep(u)
         \/ \E u \in Users : WorkerClose(u) /\ WithoutUpdates /\ Close(u)
         \/ \E u \in Users : GivesUp(u)
         \/ UNCHANGED vars
<1>1. ASSUME NEW w \in Users, WorkerClose(w) PROVE WithoutUpdates /\ Close(w)
  BY <1>1
  DEF WorkerClose, CloseResume, Closed, SessionInv, SharingInv, NobodyClosing, Discipline, Disciplined
<1>2. ASSUME NEW w \in Users, StatusConnect(w) \/ SignCancelled(w) \/ FetchTimeout(w) PROVE FALSE
  BY <1>2 DEF StatusConnect, SignCancelled, FetchTimeout, Stray
<1>3. ASSUME NEW w \in Users, StatusDone(w) \/ SignGivesUp(w) PROVE GivesUp(w)
  BY <1>3 DEF StatusDone, SignGivesUp
<1>4. ASSUME NEW w \in Users, WorkerAcquire(w) \/ StatusAcquire(w) PROVE UNCHANGED vars
  BY <1>4 DEF WorkerAcquire, StatusAcquire
<1> QED
  BY <1>1, <1>2, <1>3, <1>4, SharingCases DEF SharingNext

(* What a worker closes by name is not connected: it just leaves the        *)
(* registry.                                                                *)
LEMMA ClosesAnIdleClient ==
  ASSUME SessionInv, TypeOK', NEW u \in Users, WorkerClose(u), WithoutUpdates, Close(u)
  PROVE  /\ instance' = NoClient /\ pc' = [pc EXCEPT ![u] = "idle"]
         /\ Referencing = {} /\ LifecycleOp = {} /\ pc[u] = "idle"
<1>1. Referencing = {} /\ LifecycleOp = {} /\ \A l \in Locks : holder[l] = NoUser
  BY NobodyHome DEF SessionInv, WorkerClose, Close
<1>2. instance \in Clients /\ ~connected[instance] /\ lock \in Locks \cup {NoLock}
  BY <1>1 DEF WithoutUpdates, SessionInv, SharingInv, SharingTypeOK, TypeOK, InstanceOwned, Owners
<1> QED
  BY <1>1, <1>2 DEF Close, CloseBody, PopEntries

LEMMA SessionStep ==
  ASSUME SessionInv, Base', strays' = {}, SharingNext
  PROVE  SessionInv'
<1>0. TypeOK /\ TypeOK' /\ SharingInv' /\ UsesClient
  BY SharingStep DEF SessionInv, SharingInv, SharingTypeOK, Orderly
<1>1. ASSUME NEW u \in Users, UseStep(u) PROVE SessionInv'
  BY <1>0, <1>1, UseKeepsOwned, UseNeverCloses DEF SessionInv
<1>2. ASSUME NEW u \in Users, WorkerClose(u), WithoutUpdates, Close(u) PROVE SessionInv'
  <2>1. /\ instance' = NoClient /\ pc' = [pc EXCEPT ![u] = "idle"] /\ LifecycleOp = {}
    BY <1>0, <1>2, ClosesAnIdleClient
  <2>2. NobodyClosing' /\ \A v \in Users : pc'[v] # "aborting"
    BY <1>0, <2>1 DEF SessionInv, NobodyClosing, LifecycleOp, TypeOK
  <2> QED
    BY <1>0, <2>1, <2>2, LifecycleAssumption DEF SessionInv, InstanceOwned, AbortedIsDropped
<1>3. ASSUME NEW u \in Users, GivesUp(u) PROVE SessionInv'
  <2>1. /\ \A v \in Users \ {u} : pc'[v] = pc[v] /\ using'[v] = using[v]
        /\ pc[u] = "has" /\ pc'[u] = "idle" /\ instance' = instance /\ connected' = connected
    BY <1>0, <1>3 DEF GivesUp, Forget, registry, TypeOK
  <2>2. Owners' = Owners /\ u \notin Owners
    BY <2>1 DEF Owners, Referencing, LifecycleOp
  <2>3. \A v \in Owners : using'[v] = using[v]
    BY <2>1, <2>2 DEF Owners, Referencing, LifecycleOp
  <2>4. InstanceOwned'
    BY <2>1, <2>2, <2>3 DEF SessionInv, InstanceOwned
  <2> QED
    BY <1>0, <2>1, <2>4 DEF SessionInv, AbortedIsDropped, NobodyClosing
<1>4. ASSUME UNCHANGED vars PROVE SessionInv'
  BY <1>0, <1>4
  DEF SessionInv, InstanceOwned, AbortedIsDropped, NobodyClosing, Owners, Referencing, LifecycleOp,
      vars
<1> QED
  BY <1>1, <1>2, <1>3, <1>4, SessionCases

LEMMA SessionStutters == SessionInv /\ UNCHANGED allVars => SessionInv'
BY SharingStutters
DEF SessionInv, InstanceOwned, AbortedIsDropped, NobodyClosing, Owners, Referencing, LifecycleOp,
    allVars, vars

LEMMA SessionStarts == SharingInit => SessionInv
BY SharingStarts DEF SharingInit, SessionInv, Init, InstanceOwned, AbortedIsDropped, NobodyClosing

SessionOK == OrderlyInv /\ (strays = {} => SessionInv)

LEMMA SessionOKStep == SessionOK /\ [SharingNext]_allVars => SessionOK'
<1> SUFFICES ASSUME SessionOK, [SharingNext]_allVars PROVE SessionOK'
  OBVIOUS
<1>1. OrderlyInv'
  BY OrderlyStep DEF SessionOK
<1>2. strays' = {} => strays = {}
  BY StraysGrow
<1>3. Base'
  BY <1>1 DEF OrderlyInv
<1> QED
  BY <1>1, <1>2, <1>3, SessionStep, SessionStutters DEF SessionOK

(* The connection is up as long as somebody uses it, and no longer. *)
LEMMA LinkIsPhysical == SessionInv => PhysicalLink = Link
<1> SUFFICES ASSUME SessionInv PROVE PhysicalLink = Link
  OBVIOUS
<1>1. RefsInvariant /\ SharingInv /\ InstanceOwned
  BY DEF SessionInv, SharingInv
<1>2. CASE Link \in {"starting", "stopping"}
  BY <1>2 DEF PhysicalLink
<1>3. CASE Link = "up"
  <2>1. PICK u \in Users : pc[u] = "inside"
    BY <1>1, <1>3, LinkValues DEF Referencing, LifecycleOp, SharingInv, Discipline, Disciplined
  <2>2. using[u] \in Live
    BY <1>1, <2>1 DEF SharingInv, UsesClient, Working, LiveInside, Live, Owners, Referencing
  <2> QED
    BY <1>3, <2>2 DEF PhysicalLink
<1>4. CASE Link = "down"
  <2>1. Live = {}
    BY <1>1, <1>4, LinkValues DEF Live, InstanceOwned, Owners
  <2> QED
    BY <1>4, <2>1 DEF PhysicalLink
<1> QED
  BY <1>2, <1>3, <1>4 DEF Link

LEMMA SessionIsOne == SessionInv => OneSession
<1> SUFFICES ASSUME SessionInv, NEW c \in Live, NEW d \in Live PROVE SharedClient /\ c = d
  BY InsideTogether DEF OneSession, SessionInv
<1>1. SharingInv /\ SharedClient /\ InstanceOwned
  BY InsideTogether DEF SessionInv
<1>2. ASSUME NEW x \in Live PROVE \E u \in Owners : using[u] = x
  BY <1>1, <1>2 DEF Live, InstanceOwned
<1>3. PICK u \in Owners : using[u] = c
  BY <1>2
<1>4. PICK v \in Owners : using[v] = d
  BY <1>2
<1> QED
  BY <1>1, <1>3, <1>4, OwnersAgree

(* Until somebody strays, whatever services share the account and whatever  *)
(* the environment does: the clients the account works with are one         *)
(* connection, everybody inside works on it, and the connection itself, not *)
(* just the reference count, is started by the first and stopped by the     *)
(* last one (client.py:212-310).                                            *)
THEOREM SharingImplements == SharingSpec => ConnectionFollowsUsers
<1>1. SharingInit => SessionOK
  BY SharingStarts, SessionStarts DEF SessionOK, OrderlyInv
<1>2. SharingInit => Physical!Init
  <2> SUFFICES ASSUME SharingInit PROVE Physical!Init
    OBVIOUS
  <2>1. PhysicalLink = Link /\ Referencing = {}
    BY SessionStarts, LinkIsPhysical DEF SharingInit, Init, Referencing
  <2>2. Link = "down"
    BY <2>1 DEF SharingInit, Init, Link
  <2> QED
    BY <2>1, <2>2 DEF Physical!Init
<1>3. SessionOK => (strays = {} => OneSession)
  BY SessionIsOne DEF SessionOK
<1>4. ASSUME SessionOK, SessionOK', [SharingNext]_allVars
      PROVE  [strays' = {} => [Physical!Next]_(Physical!sharedVars)]_allVars
  <2> SUFFICES ASSUME strays' = {}, SharingNext PROVE [Physical!Next]_(Physical!sharedVars)
    BY <1>4
  <2>0. SessionInv /\ SessionInv'
    BY <1>4, StraysGrow DEF SessionOK
  <2>1. PhysicalLink = Link /\ PhysicalLink' = Link'
    <3>1. (PhysicalLink = Link)'
      BY <2>0, LinkIsPhysical, PTL
    <3> QED
      BY <2>0, <3>1, LinkIsPhysical
  <2>2. TypeOK /\ TypeOK' /\ RefsInvariant /\ RefsInvariant'
    BY <2>0 DEF SessionInv, SharingInv, SharingTypeOK
  <2>3. [Shared!Next]_(Shared!sharedVars)
    <3>1. ASSUME NEW u \in Users, UseStep(u) PROVE [Shared!Next]_(Shared!sharedVars)
      BY <2>2, <3>1, UseMaps
    <3>2. ASSUME NEW u \in Users, WorkerClose(u), WithoutUpdates, Close(u)
          PROVE  UNCHANGED <<Referencing, Link>>
      BY <2>0, <2>2, <3>2, ClosesAnIdleClient DEF Referencing, Link, LifecycleOp, TypeOK
    <3>3. ASSUME NEW u \in Users, GivesUp(u) PROVE UNCHANGED <<Referencing, Link>>
      BY <2>2, <3>3 DEF GivesUp, Referencing, Link, TypeOK
    <3>4. ASSUME UNCHANGED vars PROVE UNCHANGED <<Referencing, Link>>
      BY <3>4 DEF vars, Referencing, Link
    <3> QED
      BY <2>0, <3>1, <3>2, <3>3, <3>4, SessionCases DEF Shared!sharedVars
  <2> QED
    BY <2>1, <2>3
    DEF Shared!Next, Shared!sharedVars, Shared!Start, Shared!Join, Shared!Leave, Shared!Started,
        Shared!Failed, Shared!Down, Physical!Next, Physical!sharedVars, Physical!Start,
        Physical!Join, Physical!Leave, Physical!Started, Physical!Failed, Physical!Down
<1> QED
  BY <1>1, <1>2, <1>3, <1>4, SessionOKStep, PTL DEF SharingSpec, ConnectionFollowsUsers
=============================================================================
