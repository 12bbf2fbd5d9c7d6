--------------------------- MODULE ClientLifecycle ---------------------------
(***************************************************************************)
(* The shared Telegram client of one session key: tg_signer/core/client.py *)
(*                                                                         *)
(* Coroutines obtain the cached Client object of a key with get_client,    *)
(* open it with __aenter__ (the first one connects), close it with         *)
(* __aexit__ (the last one stops it), and administrative code drops it     *)
(* with close_client_by_name.  Three module dictionaries hold the state of *)
(* a key: the instance, its reference count and the asyncio.Lock under     *)
(* which the first enter and the last exit run.  Keys do not interact, so  *)
(* the module is about one of them.                                        *)
(*                                                                         *)
(* An action is the code between two awaits that may really suspend.  An   *)
(* asyncio.Lock that is free is acquired without suspending.               *)
(***************************************************************************)
EXTENDS Integers, FiniteSets

CONSTANTS
  Users,        \* coroutines that use the client of this key
  Clients,      \* Client objects the process may create for it
  Locks,        \* asyncio.Lock objects the process may create for it
  Variants,     \* requested settings (no_updates flag and proxy) of a client
  MaxRetries,   \* attempts of __aenter__ on a locked session database
  Faults,       \* what the environment may do, see FaultKinds
  Reserve,      \* a bound, see Spare
  NoUser, NoClient, NoLock

(* "fatal": connecting may fail for good; "cancel": a coroutine may be     *)
(* cancelled while it is suspended in the lifecycle code; "close":         *)
(* close_client_by_name may be called at any time.                         *)
FaultKinds == {"fatal", "cancel", "close"}

ASSUME LifecycleAssumption ==
  /\ IsFiniteSet(Users)
  /\ NoUser \notin Users
  /\ NoClient \notin Clients
  /\ NoLock \notin Locks
  /\ MaxRetries \in Nat \ {0}
  /\ Faults \subseteq FaultKinds
  /\ Reserve \in Nat

VARIABLES
  instance,   \* _CLIENT_INSTANCES[key]
  refs,       \* _CLIENT_REFS[key]; an absent entry of the defaultdict is 0
  lock,       \* _CLIENT_ASYNC_LOCKS[key]
  holder,     \* which coroutine holds each lock object
  connected,  \* is_connected of each client object
  variant,    \* the settings each client object was built with
  pc,         \* where each coroutine is
  using,      \* the client object a coroutine works on
  waitsOn,    \* the lock object a coroutine has fetched from the dictionary
  attempt     \* failed attempts of the connection in progress

registry == <<instance, refs, lock>>
vars == <<instance, refs, lock, holder, connected, variant, pc, using,
          waitsOn, attempt>>

Phases == {"idle", "has", "entering", "opening", "aborting", "inside",
           "leaving", "stopping", "closeWait", "closing"}

TypeOK ==
  /\ instance \in Clients \cup {NoClient}
  /\ refs \in Nat
  /\ lock \in Locks \cup {NoLock}
  /\ holder \in [Locks -> Users \cup {NoUser}]
  /\ connected \in [Clients -> BOOLEAN]
  /\ variant \in [Clients -> Variants]
  /\ pc \in [Users -> Phases]
  /\ using \in [Users -> Clients \cup {NoClient}]
  /\ waitsOn \in [Users -> Locks \cup {NoLock}]
  /\ attempt \in [Users -> 0 .. MaxRetries - 1]

Init ==
  /\ instance = NoClient
  /\ refs = 0
  /\ lock = NoLock
  /\ holder = [l \in Locks |-> NoUser]
  /\ connected = [c \in Clients |-> FALSE]
  /\ variant \in [Clients -> Variants]
  /\ pc = [u \in Users |-> "idle"]
  /\ using = [u \in Users |-> NoClient]
  /\ waitsOn = [u \in Users |-> NoLock]
  /\ attempt = [u \in Users |-> 0]

(* Objects nothing refers to: allocation takes one of them. *)
FreshClient(c) ==
  /\ c # instance
  /\ ~connected[c]
  /\ \A u \in Users : using[u] # c

FreshLock(l) ==
  /\ l # lock
  /\ holder[l] = NoUser
  /\ \A u \in Users : waitsOn[u] # l

(* A bound: a leaked connection keeps its Client object, so steps that can *)
(* leak one are explored while Reserve unused objects are left.            *)
Spare == Cardinality({c \in Clients : FreshClient(c)}) >= Reserve

(* stop() disconnects, or raises before it does (it refuses a client that  *)
(* was never initialized); every caller swallows the exception.            *)
StopClient(u) ==
  \/ connected' = [connected EXCEPT ![using[u]] = FALSE]
  \/ Spare /\ UNCHANGED connected

(* Mutant: the count is reset instead of decremented. *)
DroppedToZero(n) == 0 * n

Dropped(n) == IF n > 1 THEN n - 1 ELSE 0

-----------------------------------------------------------------------------
(* Mutant: whoever wants other settings gets a new object. *)
ReplaceableAnyway(v) == variant[instance] # v

(* get_client: the cached object, unless its settings differ from the      *)
(* requested ones while it is neither referenced nor connected.            *)
Replaceable(v) ==
  /\ variant[instance] # v
  /\ refs = 0
  /\ ~connected[instance]

GetCached(u, v) ==
  /\ pc[u] = "idle"
  /\ instance # NoClient
  /\ ~Replaceable(v)
  /\ using' = [using EXCEPT ![u] = instance]
  /\ pc' = [pc EXCEPT ![u] = "has"]
  /\ UNCHANGED <<registry, holder, connected, variant, waitsOn, attempt>>

GetNew(u, v) ==
  /\ pc[u] = "idle"
  /\ \/ instance = NoClient
     \/ instance # NoClient /\ Replaceable(v)
  /\ \E c \in Clients :
       /\ FreshClient(c)
       /\ instance' = c
       /\ variant' = [variant EXCEPT ![c] = v]
       /\ using' = [using EXCEPT ![u] = c]
  /\ pc' = [pc EXCEPT ![u] = "has"]
  /\ UNCHANGED <<refs, lock, holder, connected, waitsOn, attempt>>

GetClient(u) == \E v \in Variants : GetCached(u, v) \/ GetNew(u, v)

-----------------------------------------------------------------------------
(* __aenter__.  EnterBody is what runs once lock l is held: the first      *)
(* reference keeps the lock and connects, any other returns at once.       *)
EnterBody(u, l) ==
  /\ refs' = refs + 1
  /\ IF refs = 0
       THEN /\ holder' = [holder EXCEPT ![l] = u]
            /\ waitsOn' = [waitsOn EXCEPT ![u] = l]
            /\ pc' = [pc EXCEPT ![u] = "opening"]
       ELSE /\ waitsOn' = [waitsOn EXCEPT ![u] = NoLock]
            /\ pc' = [pc EXCEPT ![u] = "inside"]
            /\ UNCHANGED holder

Enter(u) ==
  /\ pc[u] = "has"
  /\ \E l \in Locks :
       /\ IF lock = NoLock THEN FreshLock(l) ELSE l = lock
       /\ lock' = l
       /\ IF holder[l] = NoUser
            THEN EnterBody(u, l)
            ELSE /\ pc' = [pc EXCEPT ![u] = "entering"]
                 /\ waitsOn' = [waitsOn EXCEPT ![u] = l]
                 /\ UNCHANGED <<refs, holder>>
  /\ UNCHANGED <<instance, connected, variant, using, attempt>>

EnterResume(u) ==
  /\ pc[u] = "entering"
  /\ holder[waitsOn[u]] = NoUser
  /\ EnterBody(u, waitsOn[u])
  /\ UNCHANGED <<instance, lock, connected, variant, using, attempt>>

(* Mutant: the way out of the critical section forgets the release. *)
ReleaseKeepsLock(u) ==
  /\ waitsOn' = [waitsOn EXCEPT ![u] = NoLock]
  /\ attempt' = [attempt EXCEPT ![u] = 0]
  /\ UNCHANGED holder

(* The end of async with lock. *)
Release(u) ==
  /\ holder' = [l \in Locks |-> IF holder[l] = u THEN NoUser ELSE holder[l]]
  /\ waitsOn' = [waitsOn EXCEPT ![u] = NoLock]
  /\ attempt' = [attempt EXCEPT ![u] = 0]

Leave(u, to) == Release(u) /\ pc' = [pc EXCEPT ![u] = to]

Forget(u) == using' = [using EXCEPT ![u] = NoClient]

(* The caller is done with the object, or keeps it and enters it once more *)
(* (a sign run after its login, after an error it retries, and when it     *)
(* reads the last message of a chat), registered or not.                   *)
Part(u) ==
  \/ pc' = [pc EXCEPT ![u] = "idle"] /\ Forget(u)
  \/ pc' = [pc EXCEPT ![u] = "has"] /\ UNCHANGED using

(* connect() succeeds; get_me, GetState and initialize are still to come.  *)
Connect(u) ==
  /\ pc[u] = "opening"
  /\ ~connected[using[u]]
  /\ connected' = [connected EXCEPT ![using[u]] = TRUE]
  /\ UNCHANGED <<registry, holder, variant, pc, using, waitsOn, attempt>>

Ready(u) ==
  /\ pc[u] = "opening"
  /\ connected[using[u]]
  /\ Leave(u, "inside")
  /\ UNCHANGED <<registry, connected, variant, using>>

(* "database is locked" with attempts left: stop, sleep and try again,     *)
(* still holding the lock.                                                 *)
DatabaseLocked(u) ==
  /\ pc[u] = "opening"
  /\ attempt[u] < MaxRetries - 1
  /\ attempt' = [attempt EXCEPT ![u] = @ + 1]
  /\ StopClient(u)
  /\ UNCHANGED <<registry, holder, variant, pc, using, waitsOn>>

(* Any other error: the reference is given back and, if it was the last,   *)
(* the registry entry is dropped and the client stopped under the lock.    *)
ConnectFails(u) ==
  /\ "fatal" \in Faults
  /\ pc[u] = "opening"
  /\ refs' = Dropped(refs)
  /\ IF refs' = 0
       THEN /\ instance' = NoClient
            /\ pc' = [pc EXCEPT ![u] = "aborting"]
            /\ UNCHANGED <<holder, waitsOn, attempt, using>>
       ELSE /\ Release(u)
            /\ Part(u)
            /\ UNCHANGED instance
  /\ UNCHANGED <<lock, connected, variant>>

(* The caller sees the error. *)
Aborted(u) ==
  /\ pc[u] = "aborting"
  /\ StopClient(u)
  /\ Release(u)
  /\ Part(u)
  /\ UNCHANGED <<registry, variant>>

-----------------------------------------------------------------------------
(* __aexit__.  ExitBody is what runs once lock l is held: the last         *)
(* reference keeps the lock while it stops the client.                     *)
ExitBody(u, l) ==
  /\ refs' = Dropped(refs)
  /\ IF refs' = 0
       THEN /\ holder' = [holder EXCEPT ![l] = u]
            /\ waitsOn' = [waitsOn EXCEPT ![u] = l]
            /\ pc' = [pc EXCEPT ![u] = "stopping"]
            /\ UNCHANGED using
       ELSE /\ waitsOn' = [waitsOn EXCEPT ![u] = NoLock]
            /\ Part(u)
            /\ UNCHANGED holder

Exit(u) ==
  /\ pc[u] = "inside"
  /\ lock # NoLock
  /\ IF holder[lock] = NoUser
       THEN ExitBody(u, lock)
       ELSE /\ pc' = [pc EXCEPT ![u] = "leaving"]
            /\ waitsOn' = [waitsOn EXCEPT ![u] = lock]
            /\ UNCHANGED <<refs, holder, using>>
  /\ UNCHANGED <<instance, lock, connected, variant, attempt>>

(* The lock is gone from the dictionary: __aexit__ returns at once. *)
ExitUnlocked(u) ==
  /\ pc[u] = "inside"
  /\ lock = NoLock
  /\ Part(u)
  /\ UNCHANGED <<registry, holder, connected, variant, waitsOn, attempt>>

ExitResume(u) ==
  /\ pc[u] = "leaving"
  /\ holder[waitsOn[u]] = NoUser
  /\ ExitBody(u, waitsOn[u])
  /\ UNCHANGED <<instance, lock, connected, variant, attempt>>

(* Mutant: the lock is popped with the other entries. *)
StoppedPopsLock(u) ==
  /\ pc[u] = "stopping"
  /\ connected' = [connected EXCEPT ![using[u]] = FALSE]
  /\ instance' = NoClient
  /\ refs' = 0
  /\ lock' = NoLock
  /\ Release(u)
  /\ Part(u)
  /\ UNCHANGED variant

(* stop() is over: the entries of the key are popped, whatever object the  *)
(* registry holds by now.                                                  *)
Stopped(u) ==
  /\ pc[u] = "stopping"
  /\ StopClient(u)
  /\ instance' = NoClient
  /\ refs' = 0
  /\ Release(u)
  /\ Part(u)
  /\ UNCHANGED <<lock, variant>>

-----------------------------------------------------------------------------
(* close_client_by_name.  CloseBody follows the attempt to take the lock,  *)
(* with n the count it leaves: a connected instance is stopped first, then *)
(* every entry is popped.                                                  *)
PopEntries ==
  /\ instance' = NoClient
  /\ lock' = NoLock
  /\ refs' = 0

CloseBody(u, n) ==
  IF instance # NoClient /\ connected[instance]
    THEN /\ pc' = [pc EXCEPT ![u] = "closing"]
         /\ using' = [using EXCEPT ![u] = instance]
         /\ refs' = n
         /\ UNCHANGED <<instance, lock>>
    ELSE /\ pc' = [pc EXCEPT ![u] = "idle"]
         /\ PopEntries
         /\ UNCHANGED using

Close(u) ==
  /\ "close" \in Faults
  /\ pc[u] = "idle"
  /\ IF lock = NoLock
       THEN CloseBody(u, refs) /\ UNCHANGED waitsOn
       ELSE IF holder[lock] = NoUser
       THEN CloseBody(u, 0) /\ UNCHANGED waitsOn
       ELSE /\ pc' = [pc EXCEPT ![u] = "closeWait"]
            /\ waitsOn' = [waitsOn EXCEPT ![u] = lock]
            /\ UNCHANGED <<registry, using>>
  /\ UNCHANGED <<holder, connected, variant, attempt>>

(* The lock was obtained, or five seconds have passed without it: both     *)
(* branches reset the count and go on.                                     *)
CloseResume(u) ==
  /\ pc[u] = "closeWait"
  /\ waitsOn' = [waitsOn EXCEPT ![u] = NoLock]
  /\ CloseBody(u, 0)
  /\ UNCHANGED <<holder, connected, variant, attempt>>

Closed(u) ==
  /\ pc[u] = "closing"
  /\ StopClient(u)
  /\ PopEntries
  /\ pc' = [pc EXCEPT ![u] = "idle"]
  /\ Forget(u)
  /\ UNCHANGED <<holder, variant, waitsOn, attempt>>

-----------------------------------------------------------------------------
(* CancelledError at an await of the lifecycle code.  It is no Exception:  *)
(* no handler runs, only the async-with releases the lock.  An interrupted *)
(* stop() may or may not have disconnected; the finally clause of          *)
(* close_client_by_name still pops the instance.                           *)
CutOff(u) ==
  /\ Spare
  /\ pc[u] \in {"entering", "opening", "aborting", "leaving", "stopping",
                "closeWait", "closing"}
  /\ connected' \in
       IF pc[u] \in {"aborting", "stopping", "closing"}
         THEN {connected, [connected EXCEPT ![using[u]] = FALSE]}
         ELSE {connected}
  /\ instance' = IF pc[u] = "closing" THEN NoClient ELSE instance
  /\ Leave(u, "idle")
  /\ Forget(u)
  /\ UNCHANGED <<refs, lock, variant>>

Cancel(u) == "cancel" \in Faults /\ CutOff(u)

-----------------------------------------------------------------------------
OpenStep(u) ==
  \/ Connect(u)
  \/ Ready(u)
  \/ DatabaseLocked(u)
  \/ ConnectFails(u)
  \/ Aborted(u)

LeaveStep(u) == Exit(u) \/ ExitUnlocked(u) \/ ExitResume(u) \/ Stopped(u)

CloseStep(u) == Close(u) \/ CloseResume(u) \/ Closed(u)

Next ==
  \E u \in Users :
    \/ GetClient(u)
    \/ Enter(u)
    \/ EnterResume(u)
    \/ OpenStep(u)
    \/ LeaveStep(u)
    \/ CloseStep(u)
    \/ Cancel(u)

Spec == Init /\ [][Next]_vars

(* The event loop runs every ready coroutine; connect() and stop() return; *)
(* an asyncio.Lock serves its waiters in order, so a coroutine that waits  *)
(* gets the lock although others take it in between.  Nothing makes a      *)
(* coroutine leave: the keyword monitor stays inside for days.             *)
Fairness ==
  \A u \in Users :
    /\ SF_vars(EnterResume(u))
    /\ SF_vars(ExitResume(u))
    /\ WF_vars(OpenStep(u))
    /\ WF_vars(Stopped(u))
    /\ WF_vars(CloseResume(u) \/ Closed(u))

FairSpec == Spec /\ Fairness

-----------------------------------------------------------------------------
(* Whoever counts as a reference: __aenter__ has incremented, __aexit__    *)
(* has not decremented.                                                    *)
Referencing == {u \in Users : pc[u] \in {"opening", "inside", "leaving"}}

(* The sections that connect or stop a client of the key under its lock.   *)
LifecycleOp == {u \in Users : pc[u] \in {"opening", "aborting", "stopping"}}

(* A lock object, in the dictionary or dropped from it, is held only by a  *)
(* coroutine that is connecting or stopping right now, and it holds the    *)
(* object it fetched: no fault leaves a lock held for ever.                *)
HeldOnlyByLifecycleOp ==
  \A l \in Locks :
    holder[l] # NoUser => holder[l] \in LifecycleOp /\ waitsOn[holder[l]] = l

(* Start and stop are serialized: at most one coroutine connects or stops  *)
(* a client of the key at a time, whichever lock object it fetched.        *)
StartStopSerialized ==
  \A u, v \in LifecycleOp : u = v

(* The reference count equals the number of coroutines between a           *)
(* successful increment of __aenter__ and the decrement of __aexit__.      *)
RefsCountUsers == refs = Cardinality(Referencing)

(* A session is used by one connection at a time: two client objects of    *)
(* the key are never connected together.                                   *)
OneConnection ==
  \A c, d \in Clients : connected[c] /\ connected[d] => c = d

(* No step disconnects a client a coroutine is inside of, unless that      *)
(* coroutine itself is the one that stops it.                              *)
NeverStoppedUnderUser ==
  [][\A u \in Users :
       pc[u] = "inside" /\ pc'[u] = "inside" /\ connected[using[u]]
         => connected'[using[u]]]_vars

(* Every attempt to enter gets in or fails: nobody waits for ever for the *)
(* lock of the key, even for one close_client_by_name has dropped.         *)
EnterCompletes ==
  \A u \in Users :
    pc[u] \in {"entering", "opening"}
      ~> pc[u] \in {"inside", "aborting", "idle", "has"}

(* Every coroutine that starts to leave is out eventually.                 *)
ExitCompletes ==
  \A u \in Users : pc[u] \in {"leaving", "stopping", "aborting"}
                     ~> pc[u] \in {"idle", "has"}

(* No call of the context manager hangs. *)
CallsComplete == EnterCompletes /\ ExitCompletes

-----------------------------------------------------------------------------
(* The registry as a shared connection: the coroutines that hold a         *)
(* reference are its members, the operation in progress its state.         *)
Link ==
  IF \E u \in Users : pc[u] = "opening" THEN "starting"
  ELSE IF \E u \in Users : pc[u] \in {"aborting", "stopping"} THEN "stopping"
  ELSE IF Referencing # {} THEN "up" ELSE "down"

Shared == INSTANCE SharedConnection WITH members <- Referencing, link <- Link

(* The registry implements the shared connection: the first enter starts,  *)
(* the last exit stops, and between the two nobody gets in.                *)
ImplementsSharedConnection == Shared!Spec
=============================================================================
