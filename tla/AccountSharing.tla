--------------------------- MODULE AccountSharing ---------------------------
(***************************************************************************)
(* The services that share the client of one account, on top of            *)
(* ClientLifecycle: each uses the account lock of                          *)
(* backend/utils/account_locks.py in its own way.                          *)
(*                                                                         *)
(*   sign     sign run: holds the account lock from get_client to the end  *)
(*            of its last __aexit__; after a success it may enter the same *)
(*            object once more, without the lock, to read the reply        *)
(*   monitor  keyword monitor: holds it while it starts and while it       *)
(*            stops, keeps its reference in between                        *)
(*   manga    manga ingest worker: holds it while it starts, stops without *)
(*   status   account check: get_client first, then connects under the     *)
(*            lock, takes no reference                                     *)
(***************************************************************************)
EXTENDS ClientLifecycle

CONSTANT Kind       \* which service each user of the client is

Kinds == {"sign", "monitor", "manga", "status"}

ASSUME SharingAssumption ==
  Kind \in [Users -> Kinds] /\ {"updates", "noUpdates"} \subseteq Variants

VARIABLES
  accountLock,   \* who holds get_account_lock(account_name)
  strays         \* history: who has been outside the protection of that lock

allVars == <<vars, accountLock, strays>>

SharingInit == Init /\ accountLock = NoUser /\ strays = {}

SharingTypeOK ==
  TypeOK /\ accountLock \in Users \cup {NoUser} /\ strays \subseteq Users

LongLived(u) == Kind[u] \in {"monitor", "manga"}

Take(u) == accountLock = NoUser /\ accountLock' = u

(* The account lock is released in the step in which P becomes true. *)
ReleaseWhen(u, P) == accountLock' = IF P THEN NoUser ELSE accountLock

(* Whoever starts, stops or waits for the client without the account lock *)
(* while somebody holds that lock, or starts, stops or waits as well.      *)
Moving ==
  {u \in Users : pc[u] \in {"entering", "opening", "aborting", "leaving", "stopping"}}

Colliding ==
  {u \in Moving :
     accountLock # u /\ (accountLock # NoUser \/ \E v \in Moving : v # u)}

Stray(who) == strays' = strays \cup who \cup Colliding'

(* The service lets go of an object it has not entered. *)
GivesUp(u) ==
  /\ pc[u] = "has"
  /\ pc' = [pc EXCEPT ![u] = "idle"]
  /\ Forget(u)
  /\ UNCHANGED <<registry, holder, connected, variant, waitsOn, attempt>>

-----------------------------------------------------------------------------
(* A sign run builds its signer, and with it gets the client, under the    *)
(* account lock.                                                           *)
SignStart(u) ==
  /\ Kind[u] = "sign"
  /\ Take(u)
  /\ GetClient(u)
  /\ Stray({})

SignEnter(u) ==
  /\ Kind[u] = "sign"
  /\ accountLock = u
  /\ Enter(u) \/ EnterResume(u) \/ OpenStep(u)
  /\ ReleaseWhen(u, pc'[u] = "idle")
  /\ Stray({})

(* Out of the client the run is over, goes on to enter it again (after its *)
(* login), or is over with the reply still to be read.                     *)
SignLeave(u) ==
  /\ Kind[u] = "sign"
  /\ accountLock = u
  /\ LeaveStep(u)
  /\ \/ pc'[u] \in {"idle", "has"} /\ accountLock' = NoUser
     \/ pc'[u] # "idle" /\ UNCHANGED accountLock
  /\ Stray({})

(* The timeout of the run, or a cancellation, cuts it off while it         *)
(* connects or disconnects.                                                *)
SignCancelled(u) ==
  /\ Kind[u] = "sign"
  /\ accountLock = u
  /\ Cancel(u)
  /\ accountLock' = NoUser
  /\ Stray({u})

(* The run fails before it enters; or the client is no longer connected    *)
(* when the reply should be read.                                          *)
SignGivesUp(u) ==
  /\ Kind[u] = "sign"
  /\ GivesUp(u)
  /\ accountLock = u \/ ~connected[using[u]]
  /\ ReleaseWhen(u, accountLock = u)
  /\ Stray({})

(* The account lock is free again, or somebody else's: the run enters the  *)
(* object it used, if it is still connected, to read the last message of   *)
(* the chat, and leaves it.  A timeout may cut that off.                   *)
FetchEnter(u) ==
  /\ Kind[u] = "sign"
  /\ accountLock # u
  /\ pc[u] = "has" /\ connected[using[u]]
  /\ Enter(u)
  /\ UNCHANGED accountLock
  /\ Stray(IF using[u] = instance THEN {} ELSE {u})

FetchStep(u) ==
  /\ Kind[u] = "sign"
  /\ accountLock # u
  /\ EnterResume(u) \/ OpenStep(u) \/ LeaveStep(u)
  /\ pc'[u] # "has"
  /\ UNCHANGED accountLock
  /\ Stray({})

FetchTimeout(u) ==
  /\ Kind[u] = "sign"
  /\ accountLock # u
  /\ CutOff(u)
  /\ UNCHANGED accountLock
  /\ Stray({u})

-----------------------------------------------------------------------------
(* Mutant: whatever is cached is closed first. *)
AnythingCached == instance # NoClient

(* The keyword monitor and the manga worker need updates: a cached client  *)
(* built without them is closed by name before theirs is requested.        *)
WithoutUpdates == instance # NoClient /\ variant[instance] = "noUpdates"

WorkerAcquire(u) ==
  /\ LongLived(u)
  /\ pc[u] = "idle"
  /\ Take(u)
  /\ UNCHANGED vars
  /\ Stray({})

WorkerClose(u) ==
  /\ LongLived(u)
  /\ accountLock = u
  /\ \/ WithoutUpdates /\ Close(u)
     \/ CloseResume(u)
     \/ Closed(u)
  /\ UNCHANGED accountLock
  /\ Stray({})

WorkerGet(u) ==
  /\ LongLived(u)
  /\ accountLock = u
  /\ ~WithoutUpdates
  /\ GetCached(u, "updates") \/ GetNew(u, "updates")
  /\ UNCHANGED accountLock
  /\ Stray({})

WorkerEnter(u) ==
  /\ LongLived(u)
  /\ Enter(u) \/ EnterResume(u) \/ OpenStep(u)
  /\ pc'[u] # "has"
  /\ ReleaseWhen(u, pc'[u] \in {"inside", "idle"})
  /\ Stray({})

(* stop() of the monitor: the exit runs under the account lock. *)
MonitorExit(u) ==
  /\ Kind[u] = "monitor"
  /\ accountLock = NoUser
  /\ Exit(u)
  /\ pc'[u] # "has"
  /\ accountLock' = IF pc'[u] = "idle" THEN NoUser ELSE u
  /\ Stray({})

MonitorLeaving(u) ==
  /\ Kind[u] = "monitor"
  /\ ExitResume(u) \/ Stopped(u)
  /\ pc'[u] # "has"
  /\ ReleaseWhen(u, pc'[u] = "idle")
  /\ Stray({})

(* stop() of the manga worker calls __aexit__ with no lock. *)
MangaExit(u) ==
  /\ Kind[u] = "manga"
  /\ LeaveStep(u)
  /\ pc'[u] # "has"
  /\ UNCHANGED accountLock
  /\ Stray({})

-----------------------------------------------------------------------------
StatusGet(u) ==
  /\ Kind[u] = "status"
  /\ GetCached(u, "noUpdates") \/ GetNew(u, "noUpdates")
  /\ UNCHANGED accountLock
  /\ Stray({})

StatusAcquire(u) ==
  /\ Kind[u] = "status"
  /\ pc[u] = "has"
  /\ Take(u)
  /\ UNCHANGED vars
  /\ Stray({})

(* connect() unless is_connected, then get_me; nothing is disconnected. *)
StatusConnect(u) ==
  /\ Kind[u] = "status"
  /\ accountLock = u
  /\ ~connected[using[u]]
  /\ Spare
  /\ connected' = [connected EXCEPT ![using[u]] = TRUE]
  /\ UNCHANGED <<registry, holder, variant, pc, using, waitsOn, attempt,
                 accountLock>>
  /\ Stray({u})

StatusDone(u) ==
  /\ Kind[u] = "status"
  /\ accountLock = u
  /\ connected[using[u]] \/ "fatal" \in Faults
  /\ GivesUp(u)
  /\ accountLock' = NoUser
  /\ Stray({})

-----------------------------------------------------------------------------
(* Between get_client and __aenter__ the long-lived services do not await. *)
Unsuspended(u) == LongLived(u) /\ pc[u] = "has"

SharingNext ==
  \E u \in Users :
    /\ \A v \in Users \ {u} : ~Unsuspended(v)
    /\ \/ SignStart(u)
       \/ SignEnter(u)
       \/ SignLeave(u)
       \/ SignCancelled(u)
       \/ SignGivesUp(u)
       \/ FetchEnter(u)
       \/ FetchStep(u)
       \/ FetchTimeout(u)
       \/ WorkerAcquire(u)
       \/ WorkerClose(u)
       \/ WorkerGet(u)
       \/ WorkerEnter(u)
       \/ MonitorExit(u)
       \/ MonitorLeaving(u)
       \/ MangaExit(u)
       \/ StatusGet(u)
       \/ StatusAcquire(u)
       \/ StatusConnect(u)
       \/ StatusDone(u)

SharingSpec == SharingInit /\ [][SharingNext]_allVars

-----------------------------------------------------------------------------
(* All the coroutines inside the client of an account work on one object,  *)
(* and it is connected.                                                    *)
SharedClient ==
  \A u, v \in Users :
    pc[u] = "inside" /\ pc[v] = "inside"
      => using[u] = using[v] /\ connected[using[u]]

(* Nobody has met another one who was starting or stopping the client      *)
(* without the account lock, has entered an object that is no longer the   *)
(* cached one, or was cut off while starting or stopping.                  *)
Orderly == \A u \in strays : Kind[u] = "status"

(* No step disconnects a client somebody stays inside of.                  *)
Undisturbed ==
  \A u \in Users :
    pc[u] = "inside" /\ pc'[u] = "inside" /\ connected[using[u]]
      => connected'[using[u]]

(* As long as the services keep to the account lock, they share one        *)
(* connected client, which is not stopped under any of them: the lock      *)
(* closes what the lock of the client leaves open, the client that is      *)
(* replaced or closed by name between get_client and __aenter__            *)
(* (client.py:409-424, 443-487).                                           *)
OrderlySharing ==
  /\ [](Orderly => SharedClient)
  /\ [][Orderly' => Undisturbed]_allVars

(* The coroutines that account for a connection. *)
Owners == Referencing \cup LifecycleOp

(* The connected clients the account works with: the cached one and those  *)
(* somebody uses.  A failed start or stop may leave others behind.         *)
Live ==
  {c \in Clients : connected[c] /\ (c = instance \/ \E u \in Owners : using[u] = c)}

(* The connection itself, not the reference count: up while a client of    *)
(* the account is connected and nobody starts or stops one.                *)
PhysicalLink ==
  IF Link \in {"starting", "stopping"} THEN Link
  ELSE IF Live # {} THEN "up" ELSE "down"

Physical ==
  INSTANCE SharedConnection WITH members <- Referencing, link <- PhysicalLink

(* The clients the account works with are at most one connection, the one  *)
(* everybody who is inside uses.                                           *)
OneSession == SharedClient /\ \A c, d \in Live : c = d

(* As long as the services keep to the account lock and no account check   *)
(* has connected a client behind the reference count, whoever is inside    *)
(* has a live connection, the same as everybody else, and it is up exactly *)
(* as long as somebody is.                                                 *)
ConnectionFollowsUsers ==
  /\ Physical!Init
  /\ [](strays = {} => OneSession)
  /\ [][strays' = {} => [Physical!Next]_(Physical!sharedVars)]_allVars
=============================================================================
