------------------------- MODULE LoginSessionsProofs -------------------------
(***************************************************************************)
(* Proofs about LoginSessions, for any number of requests and sign runs of *)
(* one account: whatever the logins, their watchers, sweeps and            *)
(* cancellations do to the lock they pass on, one login or run at a time   *)
(* works on the account.                                                   *)
(***************************************************************************)
EXTENDS LoginSessions, FiniteSetTheorems, TLAPS

(* Two logins of different accounts can break off each other's start.      *)
OneAccount == \E a : Accounts = {a}

(* Requests about one phone login come one after the other.                *)
PhoneOneByOne == \A o \in Overlaps : "phone" \notin o

Acct == CHOOSE a \in Accounts : TRUE

-----------------------------------------------------------------------------
(* The types, with those of the requests and runs.                         *)
RequestType ==
  [op : {"none", "phone", "qr", "verify", "poll", "password"},
   pc : {"none", "sweep", "sweeping", "purging", "cleaning", "acquiring", "opening", "verifying",
         "stored", "refused", "asking", "ending", "raised", "done"},
   acct : Accounts \cup {"none"}, sess : Requests \cup {NoSession},
   lock : LockObjects \cup {NoLock},
   rest : SUBSET (Accounts \cup Requests), keys : SUBSET Accounts]

RunType ==
  [pc : {"idle", "acquiring", "working", "done"}, acct : Accounts \cup {"none"},
   lock : LockObjects \cup {NoLock}]

LoginShape ==
  /\ LoginTypeOK
  /\ req \in [Requests -> RequestType]
  /\ run \in [Runs -> RunType]

-----------------------------------------------------------------------------
(* A login that has the lock is in one place: a request opens it, a store  *)
(* keeps it, its watcher takes it down or another request does; or there   *)
(* is no login, because the request that took the lock has raised.         *)
Ending(r, s) == req[r].pc \in {"sweeping", "cleaning", "ending"} /\ req[r].sess = s
Purged(s) == \E r \in Requests : req[r].pc = "purging" /\ req[r].sess = s

Kept(s) ==
  \/ s \in qr \/ watch[s] = "ending"
  \/ phone[Acct] = s
  \/ \E r \in Requests : Ending(r, s)

Owns(s) ==
  \/ req[s].pc \in {"opening", "raised"} \/ s \in qr \/ watch[s] = "ending"
  \/ phone[Acct] = s /\ ~Purged(s)
  \/ \E r \in Requests : Ending(r, s)

Owners == {s \in Requests : Owns(s)} \cup {p \in Runs : run[p].pc = "working"}

Once ==
  \A s \in Requests :
   /\ s \in qr => phone[Acct] # s /\ watch[s] # "ending"
   /\ phone[Acct] = s => watch[s] # "ending"
   /\ \A r \in Requests : Ending(r, s) =>
        /\ s \notin qr /\ phone[Acct] # s /\ watch[s] # "ending"
        /\ \A q \in Requests : Ending(q, s) => q = r

(* Everybody means lock t of the account, and it is locked while somebody   *)
(* has it, by whom it says and by nobody else.                              *)
OneLock(t) ==
  /\ cached[Acct] \in {NoLock, t}
  /\ \A s \in Requests : lockOf[s] \in {NoLock, t} /\ req[s].lock \in {NoLock, t}
  /\ \A p \in Runs :
       /\ run[p].lock \in {NoLock, t}
       /\ run[p].pc \in {"acquiring", "working"} => run[p].lock = t /\ t # NoLock
  /\ \A l \in LockObjects \ {t} : holders[l] = {} /\ ~locked[l]

Accounted(t) ==
  /\ \A p, q \in Owners : p = q
  /\ t = NoLock => Owners = {}
  /\ t # NoLock => holders[t] = Owners /\ (locked[t] <=> Owners # {})

Phoner(r) == r \in Busy /\ req[r].op \in {"phone", "verify"}

(* What a request is in the middle of.                                     *)
Step(r, t) ==
  LET q == req[r] IN
  /\ q.pc = "none" => q.op = "none"
  /\ q.pc = "cleaning" => q.op = "qr"
  /\ Phoner(r) => q.acct = Acct
  /\ q.pc \in {"opening", "acquiring", "purging", "cleaning"} =>
       q.op \in {"phone", "qr"} /\ q.lock = t /\ t # NoLock
  /\ q.pc = "raised" => q.lock = t /\ t # NoLock
  /\ q.pc = "purging" => /\ q.op = "phone" /\ q.sess = phone[Acct] /\ q.sess # NoSession
                         /\ q.rest = {} /\ q.keys = {Acct}
  /\ q.op = "verify" /\ q.pc # "done" =>
       q.pc \in {"verifying", "stored", "refused"} /\ q.sess = phone[Acct] /\ q.sess # NoSession
  /\ q.pc \in {"verifying", "refused"} => q.op = "verify"
  /\ q.pc = "stored" => q.op \in {"verify", "poll", "password"}
  /\ q.pc = "asking" => q.op \in {"poll", "password"}
  /\ q.pc \in {"sweeping", "cleaning", "ending", "asking", "stored"} => q.sess \in Requests
  /\ q.pc \in {"sweep", "sweeping", "cleaning"} => q.op \in {"phone", "qr"} /\ q.acct = Acct

OnePhoner == \A r, q \in Requests : Phoner(r) /\ Phoner(q) => r = q

Sessions(t) ==
  \A s \in Requests : Kept(s) => lockOf[s] = t /\ t # NoLock /\ req[s].pc = "done"

InvAt(t) ==
  /\ OneLock(t) /\ Accounted(t) /\ Sessions(t) /\ Once
  /\ OnePhoner /\ \A r \in Requests : Step(r, t)

LoginInv ==
  /\ LoginShape
  /\ \E t \in LockObjects \cup {NoLock} : t = table[Acct] /\ InvAt(t)

-----------------------------------------------------------------------------
LEMMA TheAccount ==
  ASSUME OneAccount
  PROVE  Accounts = {Acct} /\ Acct \in Accounts /\ <<Acct, Acct>> \in StartsWith
<1>1. PICK a : Accounts = {a}
  BY DEF OneAccount
<1>2. \E b : b \in Accounts /\ TRUE
  BY <1>1
<1>3. Acct \in Accounts
  BY <1>2 DEF Acct
<1> QED
  BY <1>1, <1>3, LoginAssumption

LEMMA Sorts ==
  /\ NoLock \notin LockObjects /\ NoSession \notin Requests /\ Requests \subseteq Nat
  /\ Requests \cap Runs = {} /\ LockObjects # {} /\ MaxLocks \in Nat \ {0}
BY LoginAssumption DEF Requests

LEMMA Alone1 ==
  ASSUME PhoneOneByOne, overlap \in Overlaps
  PROVE  "phone" \notin overlap
BY DEF PhoneOneByOne

(* A lock object for an account that has none, its own otherwise.           *)
LEMMA TableFilled ==
  ASSUME OneAccount, LoginShape, NEW t \in LockObjects \cup {NoLock}, t = table[Acct], InvAt(t)
  PROVE  /\ TableWith(Acct) \in [Accounts -> LockObjects]
         /\ \E n \in LockObjects : n = TableWith(Acct)[Acct] /\ InvAt(n)
<1>0. /\ Accounts = {Acct}
      /\ table \in [Accounts -> LockObjects \cup {NoLock}]
  BY TheAccount DEF LoginShape, LoginTypeOK
<1>1. CASE table[Acct] # NoLock
  BY <1>0, <1>1 DEF TableWith
<1>2. CASE table[Acct] = NoLock
  <2>1. {b \in Accounts : table[b] # NoLock} = {}
    BY <1>0, <1>2
  <2>2. ~(Cardinality({b \in Accounts : table[b] # NoLock}) >= MaxLocks)
    BY <2>1, FS_EmptySet, Sorts
  <2>3. TableWith(Acct) = [table EXCEPT ![Acct] = NewLock]
    BY <1>2, <2>2 DEF TableWith
  <2>4. /\ table[Acct] = NoLock /\ cached[Acct] = NoLock
        /\ \A s \in Requests : lockOf[s] = NoLock /\ req[s].lock = NoLock
        /\ \A p \in Runs : run[p].lock = NoLock
    BY <1>0, <1>2 DEF InvAt, OneLock
  <2>5. \A l \in Referenced : l = NoLock
    BY <1>0, <2>4 DEF Referenced
  <2>6. \E l \in LockObjects : l \notin Referenced
    BY <2>5, Sorts
  <2>7. NewLock \in LockObjects
    BY <2>6 DEF NewLock
  <2>8. /\ TableWith(Acct) \in [Accounts -> LockObjects]
        /\ TableWith(Acct)[Acct] = NewLock /\ NewLock # NoLock
    BY <1>0, <2>3, <2>7, Sorts
  <2>9. InvAt(NewLock)
    <3>1. OneLock(NewLock)
      BY <1>0, <1>2, <2>4, <2>7, Sorts DEF InvAt, OneLock
    <3>2. Owners = {} /\ Accounted(NewLock)
      BY <1>0, <1>2, <2>7, Sorts DEF InvAt, Accounted, OneLock
    <3>3. Sessions(NewLock)
      BY <1>0, <1>2 DEF InvAt, Sessions
    <3>4. \A r \in Requests : Step(r, NewLock)
      BY <1>0, <1>2 DEF InvAt, Step
    <3> QED
      BY <1>0, <3>1, <3>2, <3>3, <3>4 DEF InvAt
  <2> QED
    BY <2>7, <2>8, <2>9
<1> QED
  BY <1>1, <1>2

-----------------------------------------------------------------------------
(* Where everybody else stays put.                                         *)
Frame(r) == \A q \in Requests \ {r} : req'[q] = req[q]

Owning == {"opening", "raised", "sweeping", "cleaning", "ending"}

SameLocks(t) == UNCHANGED <<locked, holders, lockOf, run>> /\ cached'[Acct] \in {NoLock, t}

LEMMA OneOwner ==
  ASSUME NEW t, InvAt(t), NEW o \in Owners
  PROVE  Owners = {o}
BY DEF InvAt, Accounted

(* A request moves that neither had the lock of the account nor gets it.    *)
LEMMA Neutral ==
  ASSUME LoginShape, LoginShape', NEW t \in LockObjects \cup {NoLock}, InvAt(t),
         NEW r \in Requests, Frame(r),
         req[r].pc \notin Owning \cup {"purging", "done"}, req'[r].pc \notin Owning \cup {"purging"},
         SameLocks(t), UNCHANGED <<phone, qr, watch>>, req'[r].lock \in {NoLock, t},
         Step(r, t)', Phoner(r)' => \A q \in Requests \ {r} : ~Phoner(q)
  PROVE  InvAt(t)'
<1>1. \A q, s \in Requests : Ending(q, s)' <=> Ending(q, s)
  BY DEF Ending, Frame, Owning
<1>2. \A s \in Requests : Purged(s)' <=> Purged(s)
  BY DEF Purged, Frame, Owning
<1>3. \A s \in Requests : (req'[s].pc \in {"opening", "raised"} <=> req[s].pc \in {"opening", "raised"})
  BY DEF Frame, Owning
<1>4. \A s \in Requests : (Owns(s)' <=> Owns(s)) /\ (Kept(s)' <=> Kept(s))
  BY <1>1, <1>2, <1>3 DEF Owns, Kept
<1>5. Owners' = Owners
  BY <1>4 DEF Owners, SameLocks
<1>6. OneLock(t)' /\ Accounted(t)'
  BY <1>5 DEF InvAt, OneLock, Accounted, SameLocks, Frame
<1>7. Sessions(t)' /\ Once'
  BY <1>1, <1>4 DEF InvAt, Sessions, Once, SameLocks, Frame
<1>8. \A q \in Requests : Step(q, t)'
  BY DEF InvAt, Step, Phoner, Busy, Frame
<1>9. OnePhoner'
  BY DEF InvAt, OnePhoner, Phoner, Busy, Frame
<1> QED
  BY <1>6, <1>7, <1>8, <1>9 DEF InvAt

(* A request takes a login from the store where it is kept, to end it.      *)
LEMMA Transfer ==
  ASSUME LoginShape, LoginShape', NEW t \in LockObjects \cup {NoLock}, InvAt(t),
         NEW r \in Requests, NEW s \in Requests, Frame(r),
         req[r].pc \notin Owning \cup {"purging", "done"},
         req'[r].pc \in {"sweeping", "cleaning", "ending"}, req'[r].sess = s,
         s \in qr \/ (phone[Acct] = s /\ \A q \in Busy : req[q].sess # s),
         phone'[Acct] = IF phone[Acct] = s THEN NoSession ELSE phone[Acct], qr' = qr \ {s},
         watch' \in {watch, [watch EXCEPT ![s] = "off"]},
         SameLocks(t), req'[r].lock \in {NoLock, t},
         Step(r, t)', Phoner(r)' => \A q \in Requests \ {r} : ~Phoner(q)
  PROVE  InvAt(t)'
<1>0. /\ Once /\ Owns(s) /\ Kept(s)
      /\ s \in qr => phone[Acct] # s
      /\ watch \in [Requests -> {"off", "on", "ending"}]
  BY DEF InvAt, Once, Owns, Kept, Purged, Busy, LoginShape, LoginTypeOK
<1>1. Owners = {s} /\ s \notin Runs
  BY <1>0, OneOwner, Sorts DEF Owners
<1>2. \A x \in Requests \ {s} : ~Owns(x)
  BY <1>1 DEF Owners
<1>3. \A q, x \in Requests : Ending(q, x)' <=> Ending(q, x) \/ (q = r /\ x = s)
  BY DEF Ending, Frame, Owning
<1>4. \A x \in Requests : Purged(x)' <=> Purged(x)
  BY DEF Purged, Frame, Owning
<1>5. \A x \in Requests :
        (req'[x].pc \in {"opening", "raised"} <=> req[x].pc \in {"opening", "raised"})
  BY DEF Frame, Owning
<1>6. \A q \in Requests : ~Ending(q, s)
  BY <1>0 DEF Once
<1>7. /\ watch[s] # "ending" /\ watch'[s] # "ending"
      /\ \A x \in Requests \ {s} : watch'[x] = watch[x]
  BY <1>0 DEF Once
<1>8. \A x \in Requests : Owns(x)' <=> Owns(x)
  BY <1>0, <1>2, <1>3, <1>4, <1>5, <1>7, Sorts DEF Owns
<1>9. Owners' = Owners
  BY <1>8 DEF Owners, SameLocks
<1>10. OneLock(t)' /\ Accounted(t)'
  BY <1>9 DEF InvAt, OneLock, Accounted, SameLocks, Frame
<1>11. \A x \in Requests : Kept(x)' => Kept(x)
  BY <1>0, <1>3, <1>7, Sorts DEF Kept
<1>12. Sessions(t)'
  BY <1>11 DEF InvAt, Sessions, SameLocks, Frame
<1>13. Once'
  <2> SUFFICES ASSUME NEW x \in Requests
               PROVE  /\ x \in qr' => phone'[Acct] # x /\ watch'[x] # "ending"
                      /\ phone'[Acct] = x => watch'[x] # "ending"
                      /\ \A q \in Requests : Ending(q, x)' =>
                           /\ x \notin qr' /\ phone'[Acct] # x /\ watch'[x] # "ending"
                           /\ \A p \in Requests : Ending(p, x)' => p = q
    BY DEF Once
  <2>1. CASE x = s
    BY <1>0, <1>3, <1>5, <1>6, <1>7, <2>1, Sorts
  <2>2. CASE x # s
    BY <1>0, <1>2, <1>3, <1>5, <1>7, <2>2, Sorts DEF Once
  <2> QED BY <2>1, <2>2
<1>14. \A q \in Requests : Step(q, t)'
  BY <1>0 DEF InvAt, Step, Phoner, Busy, Frame
<1>15. OnePhoner'
  BY DEF InvAt, OnePhoner, Phoner, Busy, Frame
<1> QED
  BY <1>10, <1>12, <1>13, <1>14, <1>15 DEF InvAt

(* The lock is free and a request opens a login.                            *)
LEMMA Opens ==
  ASSUME LoginShape, LoginShape', NEW t \in LockObjects, InvAt(t), ~locked[t],
         NEW r \in Requests, Frame(r), req[r].pc \notin Owning \cup {"done"}, req'[r].pc = "opening",
         locked' = [locked EXCEPT ![t] = TRUE], holders' = [holders EXCEPT ![t] = @ \cup {r}],
         cached'[Acct] \in {NoLock, t}, UNCHANGED <<qr, watch, lockOf, run>>,
         \/ phone'[Acct] = phone[Acct] /\ req[r].pc # "purging"
         \/ phone'[Acct] = NoSession /\ \A q \in Requests \ {r} : ~Phoner(q),
         Step(r, t)', Phoner(r)' => \A q \in Requests \ {r} : ~Phoner(q)
  PROVE  InvAt(t)'
<1>1. t # NoLock /\ Owners = {} /\ holders[t] = {}
  BY Sorts DEF InvAt, Accounted
<1>2. \A q, x \in Requests : Ending(q, x)' <=> Ending(q, x)
  BY DEF Ending, Frame, Owning
<1>3. \A x \in Requests : ~Owns(x)
  BY <1>1 DEF Owners
<1>4. req'[r].lock = t
  BY DEF Step
<1>5. \A x \in Requests : phone'[Acct] = x => phone[Acct] = x /\ (Purged(x) => Purged(x)')
  BY Sorts DEF Purged, Frame
<1>6. \A x \in Requests : Owns(x)' <=> x = r
  BY <1>2, <1>3, <1>5 DEF Owns, Frame
<1>7. Owners' = {r}
  BY <1>1, <1>6 DEF Owners
<1>8. OneLock(t)'
  BY <1>4 DEF InvAt, OneLock, Frame, LoginShape, LoginTypeOK
<1>9. Accounted(t)'
  BY <1>1, <1>7 DEF Accounted, LoginShape, LoginTypeOK
<1>10. \A x \in Requests : Kept(x)' => Kept(x)
  BY <1>2, <1>5 DEF Kept
<1>11. Sessions(t)' /\ Once'
  BY <1>2, <1>5, <1>10 DEF InvAt, Sessions, Once, Frame
<1>12. \A q \in Requests : Step(q, t)'
  BY DEF InvAt, Step, Phoner, Busy, Frame
<1>13. OnePhoner'
  BY DEF InvAt, OnePhoner, Phoner, Busy, Frame
<1> QED
  BY <1>8, <1>9, <1>11, <1>12, <1>13 DEF InvAt

(* A login that is ending has the lock, and then nobody does.               *)
LEMMA EndingHasLock ==
  ASSUME LoginShape, NEW t \in LockObjects \cup {NoLock}, InvAt(t),
         NEW s \in Requests, Owns(s), Kept(s)
  PROVE  /\ Owners = {s} /\ lockOf[s] = t /\ t \in LockObjects /\ holders[t] = {s}
         /\ \A x \in Requests \ {s} : ~Owns(x)
         /\ \A p \in Runs : run[p].pc # "working"
         /\ Given(s) = [locked |-> [locked EXCEPT ![t] = FALSE],
                        holders |-> [holders EXCEPT ![t] = {}]]
<1>1. Owners = {s} /\ s \notin Runs
  BY OneOwner, Sorts DEF Owners
<1>2. lockOf[s] = t /\ t # NoLock
  BY DEF InvAt, Sessions
<1>3. holders[t] = {s}
  BY <1>1, <1>2 DEF InvAt, Accounted
<1>4. Given(s) = [locked |-> [locked EXCEPT ![t] = FALSE],
                  holders |-> [holders EXCEPT ![t] = {}]]
  BY <1>2, <1>3 DEF Given, LoginShape, LoginTypeOK
<1> QED
  BY <1>1, <1>2, <1>3, <1>4 DEF Owners

LEMMA GivenBack ==
  ASSUME LoginShape, NEW t \in LockObjects \cup {NoLock}, InvAt(t),
         NEW s \in Requests, Owns(s), Kept(s), Locks(Given(s))
  PROVE  locked' = [locked EXCEPT ![t] = FALSE] /\ holders' = [holders EXCEPT ![t] = {}]
<1>1. Given(s) = [locked |-> [locked EXCEPT ![t] = FALSE],
                  holders |-> [holders EXCEPT ![t] = {}]]
  BY EndingHasLock
<1> QED
  BY <1>1 DEF Locks

(* It gives the lock back, and the request goes on or opens a login itself. *)
LEMMA Ends ==
  ASSUME LoginShape, LoginShape', NEW t \in LockObjects \cup {NoLock}, InvAt(t),
         NEW r \in Requests, NEW s \in Requests, Ending(r, s), Frame(r),
         req'[r].pc \notin {"sweeping", "cleaning", "ending", "purging", "raised"},
         LET to == IF req'[r].pc = "opening" THEN {r} ELSE {} IN
           /\ locked' = [locked EXCEPT ![t] = (to # {})]
           /\ holders' = [holders EXCEPT ![t] = to],
         UNCHANGED <<phone, qr, watch, lockOf, run>>, cached'[Acct] \in {NoLock, t},
         req'[r].lock \in {NoLock, t}, Step(r, t)', Phoner(r)' => \A q \in Requests \ {r} : ~Phoner(q)
  PROVE  InvAt(t)'
<1> DEFINE to == IF req'[r].pc = "opening" THEN {r} ELSE {}
<1>1. Owns(s) /\ Kept(s) /\ req[r].pc # "done"
  BY DEF Owns, Kept, Ending
<1>2. /\ t \in LockObjects /\ t # NoLock
      /\ \A x \in Requests \ {s} : ~Owns(x)
      /\ \A p \in Runs : run[p].pc # "working"
      /\ Once
  BY <1>1, EndingHasLock, Sorts DEF InvAt
<1>3. \A q, x \in Requests : Ending(q, x)' <=> Ending(q, x) /\ q # r
  BY DEF Ending, Frame
<1>4. \A q \in Requests : ~Ending(q, s)'
  BY <1>2, <1>3 DEF Once
<1>5. \A x \in Requests : Purged(x)' <=> Purged(x)
  BY DEF Purged, Frame, Ending
<1>6. req[s].pc = "done" /\ s # r
  BY <1>1 DEF InvAt, Sessions
<1>7. ~Owns(s)'
  BY <1>2, <1>4, <1>6 DEF Owns, Once, Frame
<1>8. \A x \in Requests \ {s, r} : ~Owns(x)'
  BY <1>2, <1>3, <1>5 DEF Owns, Frame
<1>9. Owns(r)' <=> req'[r].pc = "opening"
  BY <1>2, <1>3, <1>5, <1>6 DEF Owns
<1>10. Owners' = to
  BY <1>2, <1>7, <1>8, <1>9 DEF Owners
<1>11. OneLock(t)'
  BY <1>2 DEF InvAt, OneLock, Frame, LoginShape, LoginTypeOK
<1>12. Accounted(t)'
  BY <1>2, <1>10 DEF Accounted, LoginShape, LoginTypeOK
<1>13. \A x \in Requests : Kept(x)' => Kept(x)
  BY <1>3 DEF Kept
<1>14. Sessions(t)' /\ Once'
  BY <1>1, <1>3, <1>13 DEF InvAt, Sessions, Once, Frame
<1>15. \A q \in Requests : Step(q, t)'
  BY DEF InvAt, Step, Phoner, Busy, Frame
<1>16. OnePhoner'
  BY DEF InvAt, OnePhoner, Phoner, Busy, Frame
<1> QED
  BY <1>11, <1>12, <1>14, <1>15, <1>16 DEF InvAt

(* A request that has the lock answers: it failed, or its login is kept.    *)
LEMMA OpenedEnds ==
  ASSUME OneAccount, LoginShape, LoginShape', NEW t \in LockObjects \cup {NoLock}, InvAt(t),
         NEW r \in Requests, req[r].pc = "opening", Answers(r),
         \/ Abandon(r) /\ UNCHANGED sessionVars
         \/ /\ UNCHANGED <<locked, holders>> /\ lockOf' = [lockOf EXCEPT ![r] = req[r].lock]
            /\ \/ phone' = [phone EXCEPT ![req[r].acct] = r] /\ UNCHANGED <<qr, watch>>
                  /\ req[r].op = "phone"
               \/ qr' = qr \cup {r} /\ watch' = [watch EXCEPT ![r] = "on"] /\ UNCHANGED phone,
         UNCHANGED <<cached, run>>
  PROVE  InvAt(t)'
<1>1. /\ Owns(r) /\ t \in LockObjects /\ t # NoLock /\ req[r].lock = t /\ ~Kept(r)
  BY Sorts DEF Owns, InvAt, Step, Sessions
<1>2. Owners = {r} /\ r \notin Runs
  BY <1>1, OneOwner, Sorts DEF Owners
<1>3. /\ \A x \in Requests \ {r} : ~Owns(x)
      /\ \A p \in Runs : run[p].pc # "working"
      /\ holders[t] = {r}
  BY <1>1, <1>2 DEF Owners, InvAt, Accounted
<1>4. Frame(r) /\ req'[r].pc = "done" /\ req'[r].lock = NoLock /\ req'[r].op = req[r].op
  BY DEF Answers, Answered, Frame, LoginShape, RequestType
<1>5. \A q, x \in Requests : Ending(q, x)' <=> Ending(q, x)
  BY <1>4 DEF Ending, Frame
<1>6. \A x \in Requests : Purged(x)' <=> Purged(x)
  BY <1>4 DEF Purged, Frame
<1>7. \A q \in Requests : ~Ending(q, r)
  BY <1>1 DEF Kept
<1>8. CASE Abandon(r) /\ UNCHANGED sessionVars
  <2>1. /\ locked' = [locked EXCEPT ![t] = FALSE] /\ holders' = [holders EXCEPT ![t] = {}]
        /\ UNCHANGED <<phone, qr, watch, lockOf>>
    <3>1. holders[t] \ {r} = {}
      BY <1>3
    <3>2. locked' = [locked EXCEPT ![t] = FALSE] /\ holders' = [holders EXCEPT ![t] = @ \ {r}]
      BY <1>1, <1>8 DEF Abandon
    <3> QED
      BY <1>8, <3>1, <3>2 DEF sessionVars
  <2>2. \A x \in Requests : ~Owns(x)'
    BY <1>1, <1>3, <1>4, <1>5, <1>6, <1>7, <2>1 DEF Owns, Frame, Kept
  <2>3. Owners' = {}
    BY <1>3, <2>2 DEF Owners
  <2>4. OneLock(t)' /\ Accounted(t)'
    BY <1>1, <1>4, <2>1, <2>3 DEF InvAt, OneLock, Accounted, Frame, LoginShape, LoginTypeOK
  <2>5. \A x \in Requests : Kept(x)' => Kept(x)
    BY <1>5, <2>1 DEF Kept
  <2>6. Sessions(t)' /\ Once'
    BY <1>4, <1>5, <2>1, <2>5 DEF InvAt, Sessions, Once, Frame
  <2>7. \A q \in Requests : Step(q, t)'
    BY <1>4, <2>1 DEF InvAt, Step, Phoner, Busy, Frame
  <2>8. OnePhoner'
    BY <1>4 DEF InvAt, OnePhoner, Phoner, Busy, Frame
  <2> QED
    BY <2>4, <2>6, <2>7, <2>8 DEF InvAt
<1>9. CASE /\ UNCHANGED <<locked, holders>> /\ lockOf' = [lockOf EXCEPT ![r] = req[r].lock]
           /\ \/ phone' = [phone EXCEPT ![req[r].acct] = r] /\ UNCHANGED <<qr, watch>>
                 /\ req[r].op = "phone"
              \/ qr' = qr \cup {r} /\ watch' = [watch EXCEPT ![r] = "on"] /\ UNCHANGED phone
  <2>0. /\ \A x \in Requests \ {r} : lockOf'[x] = lockOf[x]
        /\ lockOf'[r] = t
        /\ watch' \in {watch, [watch EXCEPT ![r] = "on"]}
        /\ \A x \in Requests \ {r} : watch'[x] = watch[x]
        /\ watch'[r] # "ending" /\ watch[r] # "ending"
    BY <1>1, <1>9 DEF LoginShape, LoginTypeOK, Kept
  <2>1. \/ phone'[Acct] = r /\ qr' = qr /\ Phoner(r)
        \/ phone'[Acct] = phone[Acct] /\ qr' = qr \cup {r}
    <3>1. CASE phone' = [phone EXCEPT ![req[r].acct] = r] /\ UNCHANGED <<qr, watch>> /\ req[r].op = "phone"
      <4>1. Phoner(r) /\ req[r].acct = Acct
        BY <3>1 DEF InvAt, Step, Phoner, Busy
      <4>2. Acct \in Accounts
        BY TheAccount
      <4> QED
        BY <3>1, <4>1, <4>2 DEF LoginShape, LoginTypeOK
    <3> QED
      BY <1>9, <3>1
  <2>2. ~Purged(r)
    BY <1>1 DEF Purged, InvAt, Step, Kept
  <2>3. \A x \in Requests \ {r} : ~Owns(x)'
    BY <1>3, <1>4, <1>5, <1>6, <2>0, <2>1 DEF Owns, Frame
  <2>4. Owns(r)'
    BY <1>6, <2>1, <2>2 DEF Owns
  <2>5. Owners' = {r}
    BY <1>3, <2>3, <2>4 DEF Owners
  <2>6. OneLock(t)' /\ Accounted(t)'
    BY <1>1, <1>2, <1>4, <1>9, <2>0, <2>5 DEF InvAt, OneLock, Accounted, Frame
  <2>7. \A x \in Requests \ {r} : Kept(x)' => Kept(x)
    BY <1>5, <2>0, <2>1 DEF Kept
  <2>8. Sessions(t)'
    BY <1>1, <1>4, <2>0, <2>7 DEF InvAt, Sessions, Frame
  <2>9. Once'
    BY <1>1, <1>5, <1>7, <2>0, <2>1 DEF InvAt, Once, Kept
  <2>10. \A q \in Requests : Step(q, t)'
    <3> SUFFICES ASSUME NEW q \in Requests PROVE Step(q, t)'
      OBVIOUS
    <3>1. CASE q = r
      BY <1>4, <3>1 DEF InvAt, Step, Phoner, Busy
    <3>2. CASE q # r
      <4>1. Phoner(q) => phone'[Acct] = phone[Acct]
        BY <2>1, <3>2 DEF InvAt, OnePhoner
      <4> QED
        BY <1>4, <3>2, <4>1 DEF InvAt, Step, Phoner, Busy, Frame
    <3> QED BY <3>1, <3>2
  <2>11. OnePhoner'
    BY <1>4 DEF InvAt, OnePhoner, Phoner, Busy, Frame
  <2> QED
    BY <2>6, <2>8, <2>9, <2>10, <2>11 DEF InvAt
<1> QED
  BY <1>8, <1>9

(* A phone login of the account gives up its lock, before it is dropped or  *)
(* at once: there is nobody else who could be at work on it.                *)
LEMMA PhoneEnds ==
  ASSUME LoginShape, LoginShape', NEW t \in LockObjects \cup {NoLock}, InvAt(t),
         NEW r \in Requests, NEW s \in Requests, Frame(r), phone[Acct] = s,
         req[r].pc \notin Owning \cup {"purging", "done"},
         \/ req'[r].pc = "purging" /\ req'[r].sess = s /\ phone' = phone
         \/ req'[r].pc = "done" /\ phone'[Acct] = NoSession,
         \A q \in Requests \ {r} : ~Phoner(q),
         Locks(Given(s)), UNCHANGED <<qr, watch, lockOf, run>>, cached'[Acct] \in {NoLock, t},
         req'[r].lock \in {NoLock, t}, Step(r, t)'
  PROVE  InvAt(t)'
<1>1. ~Purged(s)
  BY DEF Purged, InvAt, Step, Phoner, Busy
<1>2. Owns(s) /\ Kept(s)
  BY <1>1 DEF Owns, Kept
<1>3. /\ t \in LockObjects /\ t # NoLock
      /\ \A x \in Requests \ {s} : ~Owns(x)
      /\ \A p \in Runs : run[p].pc # "working"
      /\ locked' = [locked EXCEPT ![t] = FALSE] /\ holders' = [holders EXCEPT ![t] = {}]
  <2>1. /\ t \in LockObjects
        /\ \A x \in Requests \ {s} : ~Owns(x)
        /\ \A p \in Runs : run[p].pc # "working"
        /\ Given(s) = [locked |-> [locked EXCEPT ![t] = FALSE],
                       holders |-> [holders EXCEPT ![t] = {}]]
    BY <1>2, EndingHasLock
  <2> QED
    BY <2>1, Sorts DEF Locks
<1>4. \A q, x \in Requests : Ending(q, x)' <=> Ending(q, x)
  BY DEF Ending, Frame, Owning
<1>5. /\ s \notin qr /\ watch[s] # "ending" /\ \A q \in Requests : ~Ending(q, s)
      /\ req[s].pc = "done" /\ s # r
  <2>1. s \notin qr /\ watch[s] # "ending" /\ \A q \in Requests : ~Ending(q, s)
    BY DEF InvAt, Once
  <2>2. req[s].pc = "done"
    BY <1>2 DEF InvAt, Sessions
  <2> QED
    BY <2>1, <2>2
<1>6. \A x \in Requests : Purged(x) => Purged(x)'
  BY DEF Purged, Frame
<1>7. phone'[Acct] = s => Purged(s)'
  BY Sorts DEF Purged
<1>8. \A x \in Requests : phone'[Acct] = x => phone[Acct] = x
  BY Sorts
<1>9. \A x \in Requests : ~Owns(x)'
  BY <1>3, <1>4, <1>5, <1>6, <1>7, <1>8 DEF Owns, Frame
<1>10. Owners' = {}
  BY <1>3, <1>9 DEF Owners
<1>11. OneLock(t)' /\ Accounted(t)'
  BY <1>3, <1>10 DEF InvAt, OneLock, Accounted, Frame, LoginShape, LoginTypeOK
<1>12. \A x \in Requests : Kept(x)' => Kept(x)
  BY <1>4, <1>8 DEF Kept
<1>13. Sessions(t)' /\ Once'
  BY <1>4, <1>8, <1>12 DEF InvAt, Sessions, Once, Frame
<1>14. \A q \in Requests : Step(q, t)'
  BY DEF InvAt, Step, Phoner, Busy, Frame
<1>15. OnePhoner'
  BY DEF InvAt, OnePhoner, Phoner, Busy, Frame
<1> QED
  BY <1>11, <1>13, <1>14, <1>15 DEF InvAt

(* The start drops the login whose lock it gave up, and waits.              *)
LEMMA PurgedWaits ==
  ASSUME LoginShape, LoginShape', NEW t \in LockObjects \cup {NoLock}, InvAt(t),
         NEW r \in Requests, Frame(r), req[r].pc = "purging", req'[r].pc = "acquiring",
         phone'[Acct] = NoSession, SameLocks(t), UNCHANGED <<qr, watch>>,
         req'[r].lock \in {NoLock, t}, Step(r, t)', req'[r].op = "phone"
  PROVE  InvAt(t)'
<1>0. Phoner(r) /\ phone[Acct] = req[r].sess /\ \A q \in Requests \ {r} : ~Phoner(q)
  BY DEF InvAt, OnePhoner, Phoner, Busy, Step
<1>1. \A q, s \in Requests : Ending(q, s)' <=> Ending(q, s)
  BY DEF Ending, Frame
<1>2. \A x \in Requests : phone[Acct] = x => Purged(x)
  BY <1>0 DEF Purged
<1>3. \A x \in Requests : (Owns(x)' <=> Owns(x)) /\ (Kept(x)' => Kept(x))
  BY <1>1, <1>2, Sorts DEF Owns, Kept, Frame
<1>4. Owners' = Owners
  BY <1>3 DEF Owners, SameLocks
<1>5. OneLock(t)' /\ Accounted(t)'
  BY <1>4 DEF InvAt, OneLock, Accounted, SameLocks, Frame
<1>6. Sessions(t)' /\ Once'
  BY <1>1, <1>3, Sorts DEF InvAt, Sessions, Once, SameLocks, Frame
<1>7. \A q \in Requests : Step(q, t)'
  BY <1>0 DEF InvAt, Step, Phoner, Busy, Frame
<1>8. OnePhoner'
  BY <1>0 DEF OnePhoner, Phoner, Busy, Frame
<1> QED
  BY <1>5, <1>6, <1>7, <1>8 DEF InvAt

-----------------------------------------------------------------------------
(* The watcher takes its login from the store, and gives its lock back.     *)
LEMMA WatcherTakes ==
  ASSUME LoginShape, LoginShape', NEW t \in LockObjects \cup {NoLock}, InvAt(t),
         NEW s \in Requests, s \in qr, qr' = qr \ {s},
         phone'[Acct] = IF phone[Acct] = s THEN NoSession ELSE phone[Acct],
         watch' = [watch EXCEPT ![s] = "ending"],
         UNCHANGED <<locked, holders, cached, lockOf, req, run>>
  PROVE  InvAt(t)'
<1>0. /\ Once /\ Owns(s) /\ Kept(s) /\ phone[Acct] # s
      /\ watch \in [Requests -> {"off", "on", "ending"}]
      /\ \A q \in Requests : ~Ending(q, s)
  BY DEF InvAt, Once, Owns, Kept, LoginShape, LoginTypeOK
<1>1. /\ phone'[Acct] = phone[Acct] /\ watch'[s] = "ending" /\ s \notin qr'
      /\ \A x \in Requests \ {s} : watch'[x] = watch[x] /\ (x \in qr' <=> x \in qr)
  BY <1>0
<1>2. \A q, x \in Requests : Ending(q, x)' <=> Ending(q, x)
  BY DEF Ending
<1>3. \A x \in Requests : Purged(x)' <=> Purged(x)
  BY DEF Purged
<1>4. \A x \in Requests : (Owns(x)' <=> Owns(x)) /\ (Kept(x)' <=> Kept(x))
  BY <1>0, <1>1, <1>2, <1>3 DEF Owns, Kept
<1>5. Owners' = Owners
  BY <1>4 DEF Owners
<1>6. OneLock(t)' /\ Accounted(t)' /\ Sessions(t)' /\ OnePhoner'
  BY <1>4, <1>5 DEF InvAt, OneLock, Accounted, Sessions, OnePhoner, Phoner, Busy
<1>7. Once'
  BY <1>0, <1>1, <1>2 DEF Once
<1>8. \A q \in Requests : Step(q, t)'
  BY <1>1 DEF InvAt, Step, Phoner, Busy
<1> QED
  BY <1>6, <1>7, <1>8 DEF InvAt

LEMMA WatcherReleases ==
  ASSUME LoginShape, LoginShape', NEW t \in LockObjects \cup {NoLock}, InvAt(t),
         NEW s \in Requests, watch[s] = "ending", watch' = [watch EXCEPT ![s] = "off"],
         Locks(Given(s)), UNCHANGED <<cached, phone, qr, lockOf, req, run>>
  PROVE  InvAt(t)'
<1>0. /\ Once /\ Owns(s) /\ Kept(s)
      /\ watch \in [Requests -> {"off", "on", "ending"}]
  BY DEF InvAt, Owns, Kept, LoginShape, LoginTypeOK
<1>1. /\ t \in LockObjects
      /\ \A x \in Requests \ {s} : ~Owns(x)
      /\ \A p \in Runs : run[p].pc # "working"
      /\ Given(s) = [locked |-> [locked EXCEPT ![t] = FALSE],
                     holders |-> [holders EXCEPT ![t] = {}]]
  BY <1>0, EndingHasLock
<1>2. /\ locked' = [locked EXCEPT ![t] = FALSE] /\ holders' = [holders EXCEPT ![t] = {}]
      /\ watch'[s] = "off" /\ \A x \in Requests \ {s} : watch'[x] = watch[x]
  BY <1>0, <1>1 DEF Locks
<1>3. \A q, x \in Requests : Ending(q, x)' <=> Ending(q, x)
  BY DEF Ending
<1>4. \A x \in Requests : Purged(x)' <=> Purged(x)
  BY DEF Purged
<1>5. /\ s \notin qr /\ phone[Acct] # s /\ req[s].pc = "done"
      /\ \A q \in Requests : ~Ending(q, s)
  BY <1>0 DEF Once, InvAt, Sessions
<1>6. \A x \in Requests : ~Owns(x)'
  BY <1>1, <1>2, <1>3, <1>4, <1>5 DEF Owns
<1>7. Owners' = {}
  BY <1>1, <1>6 DEF Owners
<1>8. OneLock(t)' /\ Accounted(t)'
  BY <1>1, <1>2, <1>7 DEF InvAt, OneLock, Accounted, LoginShape, LoginTypeOK
<1>9. \A x \in Requests : Kept(x)' => Kept(x)
  BY <1>2, <1>3 DEF Kept
<1>10. Sessions(t)' /\ Once' /\ OnePhoner'
  BY <1>0, <1>2, <1>3, <1>9 DEF InvAt, Sessions, Once, OnePhoner, Phoner, Busy
<1>11. \A q \in Requests : Step(q, t)'
  BY DEF InvAt, Step, Phoner, Busy
<1> QED
  BY <1>8, <1>10, <1>11 DEF InvAt

(* The logins stay what they are while a run moves.                         *)
SameLogins == UNCHANGED <<phone, qr, watch, lockOf, req>>

LEMMA RunMoves ==
  ASSUME LoginShape, LoginShape', NEW t \in LockObjects \cup {NoLock}, InvAt(t),
         NEW p \in Runs, SameLogins, cached'[Acct] \in {NoLock, t},
         \A x \in Runs \ {p} : run'[x] = run[x], run'[p].lock \in {NoLock, t},
         run'[p].pc \in {"acquiring", "working"} => run'[p].lock = t /\ t # NoLock,
         \/ /\ UNCHANGED <<locked, holders>>
            /\ run[p].pc # "working" /\ run'[p].pc # "working"
         \/ /\ t \in LockObjects /\ ~locked[t] /\ run'[p].pc = "working"
            /\ locked' = [locked EXCEPT ![t] = TRUE]
            /\ holders' = [holders EXCEPT ![t] = @ \cup {p}]
         \/ /\ run[p].pc = "working" /\ run'[p].pc # "working" /\ t \in LockObjects
            /\ locked' = [locked EXCEPT ![t] = FALSE]
            /\ holders' = [holders EXCEPT ![t] = @ \ {p}]
  PROVE  InvAt(t)'
<1>1. \A q, x \in Requests : Ending(q, x)' <=> Ending(q, x)
  BY DEF Ending, SameLogins
<1>2. \A x \in Requests : Purged(x)' <=> Purged(x)
  BY DEF Purged, SameLogins
<1>3. \A x \in Requests : (Owns(x)' <=> Owns(x)) /\ (Kept(x)' <=> Kept(x))
  BY <1>1, <1>2 DEF Owns, Kept, SameLogins
<1>4. Sessions(t)' /\ Once' /\ OnePhoner' /\ \A q \in Requests : Step(q, t)'
  BY <1>1, <1>3 DEF InvAt, Sessions, Once, OnePhoner, Step, Phoner, Busy, SameLogins
<1>5. CASE /\ UNCHANGED <<locked, holders>>
           /\ run[p].pc # "working" /\ run'[p].pc # "working"
  <2>1. Owners' = Owners
    BY <1>3, <1>5 DEF Owners
  <2>2. OneLock(t)' /\ Accounted(t)'
    BY <1>5, <2>1 DEF InvAt, OneLock, Accounted, SameLogins
  <2> QED
    BY <1>4, <2>2 DEF InvAt
<1>6. CASE /\ t \in LockObjects /\ ~locked[t] /\ run'[p].pc = "working"
           /\ locked' = [locked EXCEPT ![t] = TRUE]
           /\ holders' = [holders EXCEPT ![t] = @ \cup {p}]
  <2>1. Owners = {} /\ t # NoLock /\ holders[t] = {}
    BY <1>6, Sorts DEF InvAt, Accounted
  <2>2. Owners' = {p}
    BY <1>3, <1>6, <2>1 DEF Owners
  <2>3. /\ locked'[t] /\ holders'[t] = {p}
        /\ \A l \in LockObjects \ {t} : locked'[l] = locked[l] /\ holders'[l] = holders[l]
    BY <1>6, <2>1 DEF LoginShape, LoginTypeOK
  <2>4. OneLock(t)' /\ Accounted(t)'
    BY <2>1, <2>2, <2>3 DEF InvAt, OneLock, Accounted, SameLogins
  <2> QED
    BY <1>4, <2>4 DEF InvAt
<1>7. CASE /\ run[p].pc = "working" /\ run'[p].pc # "working" /\ t \in LockObjects
           /\ locked' = [locked EXCEPT ![t] = FALSE]
           /\ holders' = [holders EXCEPT ![t] = @ \ {p}]
  <2>1. Owners = {p} /\ t # NoLock /\ holders[t] = {p}
    <3>1. p \in Owners
      BY <1>7 DEF Owners
    <3> QED
      BY <1>7, <3>1, OneOwner, Sorts DEF InvAt, Accounted
  <2>2. Owners' = {}
    <3>1. \A x \in Requests : ~Owns(x)
      BY <2>1, Sorts DEF Owners
    <3>2. \A x \in Runs \ {p} : run[x].pc # "working"
      BY <2>1 DEF Owners
    <3> QED
      BY <1>3, <1>7, <3>1, <3>2 DEF Owners
  <2>3. /\ ~locked'[t] /\ holders'[t] = {}
        /\ \A l \in LockObjects \ {t} : locked'[l] = locked[l] /\ holders'[l] = holders[l]
    BY <1>7, <2>1 DEF LoginShape, LoginTypeOK
  <2>4. OneLock(t)' /\ Accounted(t)'
    BY <2>1, <2>2, <2>3 DEF InvAt, OneLock, Accounted, SameLogins
  <2> QED
    BY <1>4, <2>4 DEF InvAt
<1> QED
  BY <1>5, <1>6, <1>7

-----------------------------------------------------------------------------
(* Every step keeps the types.                                             *)
LEMMA LocksTyped ==
  ASSUME LoginShape, NEW s
  PROVE  /\ Given(s).locked \in [LockObjects -> BOOLEAN]
         /\ Given(s).holders \in [LockObjects -> SUBSET Parties]
BY DEF Given, LoginShape, LoginTypeOK

LEMMA AcquireTyped ==
  ASSUME NEW r \in Requests, NEW after, NEW party \in Parties, NEW next \in RequestType,
         LoginShape, Acquire(r, after, party, next),
         after.locked \in [LockObjects -> BOOLEAN],
         after.holders \in [LockObjects -> SUBSET Parties]
  PROVE  /\ locked' \in [LockObjects -> BOOLEAN]
         /\ holders' \in [LockObjects -> SUBSET Parties]
         /\ req' \in [Requests -> RequestType]
<1>1. [next EXCEPT !.pc = "acquiring"] \in RequestType
  BY DEF RequestType
<1>2. req \in [Requests -> RequestType]
  BY DEF LoginShape
<1>3. CASE ~after.locked[next.lock] /\ ~Waiting(next.lock)
  <2>1. /\ locked' = [after.locked EXCEPT ![next.lock] = TRUE]
        /\ holders' = [after.holders EXCEPT ![next.lock] = @ \cup {party}]
        /\ req' = [req EXCEPT ![r] = next]
    BY <1>3 DEF Acquire
  <2>2. holders' \in [LockObjects -> SUBSET Parties]
    BY <2>1
  <2>3. locked' \in [LockObjects -> BOOLEAN]
    BY <2>1
  <2> QED
    BY <1>2, <2>1, <2>2, <2>3
<1>4. CASE ~(~after.locked[next.lock] /\ ~Waiting(next.lock))
  <2>1. /\ locked' = after.locked /\ holders' = after.holders
        /\ req' = [req EXCEPT ![r] = [next EXCEPT !.pc = "acquiring"]]
    BY <1>4 DEF Acquire, Locks
  <2> QED
    BY <1>1, <1>2, <2>1
<1> QED
  BY <1>3, <1>4

LEMMA AnswersTyped ==
  ASSUME NEW r \in Requests, LoginShape, Answers(r)
  PROVE  req' \in [Requests -> RequestType]
<1>0. req[r] \in RequestType
  BY DEF LoginShape
<1>1. Answered(r) \in RequestType
  BY <1>0 DEF RequestType, Answered
<1> QED
  BY <1>1 DEF Answers, LoginShape

LEMMA PoppedTyped ==
  ASSUME NEW s, LoginShape, Popped(s)
  PROVE  phone' \in [Accounts -> Requests \cup {NoSession}] /\ qr' \subseteq Requests
BY DEF Popped, LoginShape, LoginTypeOK

LEMMA CleanupTyped ==
  ASSUME NEW r \in Requests, NEW s \in Requests, LoginShape, CleanupQr(r, s)
  PROVE  /\ phone' \in [Accounts -> Requests \cup {NoSession}] /\ qr' \subseteq Requests
         /\ watch' \in [Requests -> {"off", "on", "ending"}]
         /\ req' \in [Requests -> RequestType]
<1>1. CASE s \in qr
  <2>1. req \in [Requests -> RequestType]
    BY DEF LoginShape
  <2>2. req' = [req EXCEPT ![r].pc = "ending", ![r].sess = s]
    BY <1>1 DEF CleanupQr
  <2>3. req' \in [Requests -> RequestType]
    <3>1. /\ DOMAIN req' = Requests /\ req' = [x \in Requests |-> req'[x]]
          /\ \A x \in Requests \ {r} : req'[x] = req[x]
          /\ req'[r] = [req[r] EXCEPT !.pc = "ending", !.sess = s]
      BY <2>1, <2>2
    <3>2. req[r] \in RequestType
      BY <2>1
    <3>3. [req[r] EXCEPT !.pc = "ending", !.sess = s] \in RequestType
      BY <3>2 DEF RequestType
    <3> QED
      BY <2>1, <3>1, <3>3
  <2> QED
    BY <1>1, <2>3, PoppedTyped DEF CleanupQr, LoginShape, LoginTypeOK
<1>2. CASE s \notin qr
  BY <1>2, AnswersTyped DEF CleanupQr, LoginShape, LoginTypeOK
<1> QED
  BY <1>1, <1>2

LEMMA PurgeTyped ==
  ASSUME NEW r \in Requests, NEW q \in RequestType, LoginShape, Purge(r, q),
         q.rest \subseteq Accounts
  PROVE  /\ locked' \in [LockObjects -> BOOLEAN]
         /\ holders' \in [LockObjects -> SUBSET Parties]
         /\ req' \in [Requests -> RequestType]
         /\ phone' \in [Accounts -> Requests \cup {NoSession}]
<1>1. CASE q.rest = {}
  <2>1. [q EXCEPT !.pc = "opening", !.sess = NoSession] \in RequestType
    BY DEF RequestType
  <2>2. Acquire(r, Now, r, [q EXCEPT !.pc = "opening", !.sess = NoSession]) /\ r \in Parties
    BY <1>1 DEF Purge, Parties
  <2>3. Now.locked \in [LockObjects -> BOOLEAN] /\ Now.holders \in [LockObjects -> SUBSET Parties]
    BY DEF Now, LoginShape, LoginTypeOK
  <2>4. phone' \in [Accounts -> Requests \cup {NoSession}]
    BY <1>1 DEF Purge, LoginShape, LoginTypeOK
  <2> QED
    BY <2>1, <2>2, <2>3, <2>4, AcquireTyped
<1>2. CASE q.rest # {}
  <2>1. PICK a \in q.rest :
          /\ Locks(Given(phone[a])) /\ UNCHANGED phone
          /\ req' = [req EXCEPT ![r] = [q EXCEPT !.pc = "purging", !.sess = phone[a],
                                                 !.rest = @ \ {a}]]
    BY <1>2 DEF Purge
  <2>2. [q EXCEPT !.pc = "purging", !.sess = phone[a], !.rest = @ \ {a}] \in RequestType
    BY <2>1 DEF RequestType, LoginShape, LoginTypeOK
  <2> QED
    BY <2>1, <2>2, LocksTyped DEF Locks, LoginShape, LoginTypeOK
<1> QED
  BY <1>1, <1>2

LEMMA CleanTyped ==
  ASSUME NEW r \in Requests, NEW q \in RequestType, LoginShape, NEW after, Clean(r, q, after),
         after.locked \in [LockObjects -> BOOLEAN],
         after.holders \in [LockObjects -> SUBSET Parties]
  PROVE  /\ locked' \in [LockObjects -> BOOLEAN]
         /\ holders' \in [LockObjects -> SUBSET Parties]
         /\ req' \in [Requests -> RequestType]
         /\ phone' \in [Accounts -> Requests \cup {NoSession}] /\ qr' \subseteq Requests
         /\ watch' \in [Requests -> {"off", "on", "ending"}]
<1>1. CASE q.rest \cap qr = {}
  <2>1. [q EXCEPT !.pc = "opening", !.sess = NoSession] \in RequestType
    BY DEF RequestType
  <2>2. /\ Acquire(r, after, r, [q EXCEPT !.pc = "opening", !.sess = NoSession])
        /\ r \in Parties /\ UNCHANGED <<phone, qr, watch>>
    BY <1>1 DEF Clean, Parties
  <2> QED
    BY <2>1, <2>2, AcquireTyped DEF LoginShape, LoginTypeOK
<1>2. CASE q.rest \cap qr # {}
  <2>1. PICK s \in q.rest \cap qr :
          /\ Popped(s) /\ watch' = [watch EXCEPT ![s] = "off"] /\ Locks(after)
          /\ req' = [req EXCEPT ![r] = [q EXCEPT !.pc = "cleaning", !.sess = s,
                                                 !.rest = @ \ {s}]]
    BY <1>2 DEF Clean
  <2>2. s \in Requests
    BY DEF LoginShape, LoginTypeOK
  <2>3. [q EXCEPT !.pc = "cleaning", !.sess = s, !.rest = @ \ {s}] \in RequestType
    BY <2>2 DEF RequestType
  <2> QED
    BY <2>1, <2>3, PoppedTyped DEF Locks, LoginShape, LoginTypeOK
<1> QED
  BY <1>1, <1>2

(* A request changes, by one or several fields, into another of the type.   *)
LEMMA RequestTyped ==
  ASSUME NEW r \in Requests, LoginShape, DOMAIN req' = Requests,
         req' = [x \in Requests |-> req'[x]], Frame(r), req'[r] \in RequestType
  PROVE  req' \in [Requests -> RequestType]
BY DEF Frame, LoginShape

LEMMA Typed ==
  ASSUME LoginShape
  PROVE  /\ req \in [Requests -> RequestType] /\ run \in [Runs -> RunType]
         /\ \A r \in Requests : req[r] \in RequestType
         /\ phone \in [Accounts -> Requests \cup {NoSession}] /\ qr \subseteq Requests
         /\ lockOf \in [Requests -> LockObjects \cup {NoLock}]
         /\ overlap \in Overlaps
BY DEF LoginShape, LoginTypeOK

-----------------------------------------------------------------------------
(* Step by step, the invariant is kept.                                    *)
At(t) == LoginShape /\ t \in LockObjects \cup {NoLock} /\ t = table[Acct] /\ InvAt(t)

LEMMA InvIsAt == LoginInv <=> \E t : At(t)
BY DEF LoginInv, At

LEMMA StartKeeps ==
  ASSUME OneAccount, PhoneOneByOne, NEW t, At(t), NEW r \in Requests, NEW a \in Accounts,
         NEW op \in {"phone", "qr"}, Start(r, op, a)
  PROVE  At(t)'
<1>0. /\ LoginShape /\ t \in LockObjects \cup {NoLock} /\ t = table[Acct] /\ InvAt(t)
      /\ a = Acct /\ req[r] \in RequestType /\ req[r].pc = "none"
      /\ req' = [req EXCEPT ![r].op = op, ![r].acct = a, ![r].pc = "sweep"]
      /\ UNCHANGED <<lockVars, sessionVars, run, overlap>>
  BY TheAccount, Typed DEF At, Start, Arrives
<1>1. /\ DOMAIN req' = Requests /\ req' = [x \in Requests |-> req'[x]] /\ Frame(r)
      /\ req'[r] = [req[r] EXCEPT !.op = op, !.acct = a, !.pc = "sweep"]
  BY <1>0, Typed DEF Frame
<1>2. req'[r] \in RequestType
  BY <1>0, <1>1 DEF RequestType
<1>3. LoginShape'
  BY <1>0, <1>1, <1>2, RequestTyped DEF LoginShape, LoginTypeOK, lockVars, sessionVars
<1>4. /\ req'[r].op = op /\ req'[r].pc = "sweep" /\ req'[r].acct = a
      /\ req'[r].lock = req[r].lock
  BY <1>0, <1>1 DEF RequestType
<1>5. Step(r, t)'
  BY <1>0, <1>4 DEF Step
<1>6. op = "phone" => \A q \in Requests \ {r} : ~Phoner(q)
  BY <1>0, Alone1, Typed DEF Start, Alone, Phoner, InvAt, Step
<1>7. InvAt(t)'
  BY <1>0, <1>1, <1>3, <1>4, <1>5, <1>6, Neutral
     DEF lockVars, sessionVars, SameLocks, Phoner, Owning, InvAt, OneLock
<1> QED
  BY <1>0, <1>3, <1>7 DEF At, lockVars

LEMMA SweepKeeps ==
  ASSUME OneAccount, PhoneOneByOne, NEW t, At(t), NEW r \in Requests, NEW s \in Requests, Sweep(r, s)
  PROVE  At(t)'
<1>0. /\ LoginShape /\ t \in LockObjects \cup {NoLock} /\ t = table[Acct] /\ InvAt(t)
      /\ Accounts = {Acct} /\ req[r] \in RequestType /\ req[r].pc = "sweep"
      /\ req' = [req EXCEPT ![r].pc = "sweeping", ![r].sess = s] /\ Popped(s)
      /\ UNCHANGED <<lockVars, status, lockOf, watch, run, overlap>>
  BY TheAccount, Typed DEF At, Sweep
<1>1. /\ DOMAIN req' = Requests /\ req' = [x \in Requests |-> req'[x]] /\ Frame(r)
      /\ req'[r] = [req[r] EXCEPT !.pc = "sweeping", !.sess = s]
  BY <1>0, Typed DEF Frame
<1>2. req'[r] \in RequestType
  BY <1>0, <1>1 DEF RequestType
<1>3. LoginShape'
  BY <1>0, <1>1, <1>2, RequestTyped, PoppedTyped DEF LoginShape, LoginTypeOK, lockVars
<1>4. /\ req'[r].pc = "sweeping" /\ req'[r].sess = s /\ req'[r].op = req[r].op
      /\ req'[r].acct = req[r].acct /\ req'[r].lock = req[r].lock
  BY <1>0, <1>1 DEF RequestType
<1>5. Step(r, t)'
  BY <1>0, <1>4 DEF Step, InvAt, Phoner, Busy
<1>6. Phoner(r)' => \A q \in Requests \ {r} : ~Phoner(q)
  BY <1>0, <1>4 DEF InvAt, OnePhoner, Phoner, Busy
<1>7. s \in qr \/ (phone[Acct] = s /\ \A q \in Busy : req[q].sess # s)
  BY <1>0, Alone1, Typed DEF Sweep, Live, PhoneSessions, Undisturbed
<1>8. /\ phone'[Acct] = IF phone[Acct] = s THEN NoSession ELSE phone[Acct]
      /\ qr' = qr \ {s}
  BY <1>0, Typed DEF Popped
<1>9. InvAt(t)'
  BY <1>0, <1>1, <1>3, <1>4, <1>5, <1>6, <1>7, <1>8, Transfer
     DEF lockVars, SameLocks, Owning, InvAt, OneLock
<1> QED
  BY <1>0, <1>3, <1>9 DEF At, lockVars

LEMMA SweptKeeps ==
  ASSUME OneAccount, PhoneOneByOne, NEW t, At(t), NEW r \in Requests, Swept(r)
  PROVE  At(t)'
<1> DEFINE s == req[r].sess
<1>0. /\ LoginShape /\ t \in LockObjects \cup {NoLock} /\ t = table[Acct] /\ InvAt(t)
      /\ req[r] \in RequestType /\ req[r].pc = "sweeping"
      /\ req' = [req EXCEPT ![r].pc = "sweep", ![r].sess = NoSession] /\ Locks(Given(s))
      /\ UNCHANGED <<table, cached, sessionVars, run, overlap>>
  BY Typed DEF At, Swept
<1>1. /\ DOMAIN req' = Requests /\ req' = [x \in Requests |-> req'[x]] /\ Frame(r)
      /\ req'[r] = [req[r] EXCEPT !.pc = "sweep", !.sess = NoSession]
  BY <1>0, Typed DEF Frame
<1>2. req'[r] \in RequestType
  BY <1>0, <1>1 DEF RequestType
<1>3. LoginShape'
  BY <1>0, <1>1, <1>2, RequestTyped, LocksTyped DEF LoginShape, LoginTypeOK, sessionVars, Locks
<1>4. /\ req'[r].pc = "sweep" /\ req'[r].op = req[r].op
      /\ req'[r].acct = req[r].acct /\ req'[r].lock = req[r].lock
  BY <1>0, <1>1 DEF RequestType
<1>5. Step(r, t)'
  BY <1>0, <1>4 DEF Step, InvAt, Phoner, Busy
<1>6. Phoner(r)' => \A q \in Requests \ {r} : ~Phoner(q)
  BY <1>0, <1>4 DEF InvAt, OnePhoner, Phoner, Busy
<1>7. s \in Requests /\ Ending(r, s) /\ Owns(s) /\ Kept(s)
  BY <1>0 DEF InvAt, Step, Ending, Owns, Kept
<1>8. locked' = [locked EXCEPT ![t] = FALSE] /\ holders' = [holders EXCEPT ![t] = {}]
  BY <1>0, <1>7, GivenBack
<1>9. /\ cached'[Acct] \in {NoLock, t} /\ UNCHANGED <<phone, qr, watch, lockOf, run>>
      /\ req[r].lock \in {NoLock, t}
  BY <1>0 DEF InvAt, OneLock, sessionVars
<1>10. InvAt(t)'
  BY <1>0, <1>1, <1>3, <1>4, <1>5, <1>6, <1>7, <1>8, <1>9, Ends
<1> QED
  BY <1>0, <1>3, <1>10 DEF At

LEMMA LockIsGot ==
  ASSUME OneAccount, NEW t \in LockObjects, NEW r \in Requests, NEW next \in RequestType,
         LoginShape, InvAt(t), Acquire(r, Now, r, next), next.lock = t, next.pc = "opening"
  PROVE  /\ Frame(r) /\ req'[r].lock = t
         /\ req'[r].op = next.op /\ req'[r].acct = next.acct
         /\ \/ /\ ~locked[t] /\ req'[r].pc = "opening"
               /\ locked' = [locked EXCEPT ![t] = TRUE]
               /\ holders' = [holders EXCEPT ![t] = @ \cup {r}]
            \/ req'[r].pc = "acquiring" /\ UNCHANGED <<locked, holders>>
<1>1. CASE ~locked[t] /\ ~Waiting(t)
  <2>1. /\ locked' = [locked EXCEPT ![t] = TRUE]
        /\ holders' = [holders EXCEPT ![t] = @ \cup {r}]
        /\ req' = [req EXCEPT ![r] = next]
    BY <1>1 DEF Acquire, Now
  <2> QED
    BY <1>1, <2>1, Typed DEF Frame, RequestType
<1>2. CASE ~(~locked[t] /\ ~Waiting(t))
  <2>1. /\ UNCHANGED <<locked, holders>>
        /\ req' = [req EXCEPT ![r] = [next EXCEPT !.pc = "acquiring"]]
    BY <1>2 DEF Acquire, Now, Locks
  <2>2. Frame(r) /\ req'[r] = [next EXCEPT !.pc = "acquiring"]
    BY <2>1, Typed DEF Frame
  <2> QED
    BY <2>1, <2>2 DEF RequestType
<1> QED
  BY <1>1, <1>2

LEMMA PurgeKeeps ==
  ASSUME OneAccount, PhoneOneByOne, LoginShape, LoginShape', NEW t \in LockObjects, InvAt(t),
         NEW r \in Requests, NEW q \in RequestType, Purge(r, q),
         q.op = "phone", q.lock = t, q.acct = Acct, q.keys = LoginKeys,
         \/ req[r].pc = "sweep" /\ q.rest = LoginKeys
         \/ req[r].pc = "purging" /\ q.rest = {} /\ q.keys = {Acct},
         req[r].op = "phone", UNCHANGED <<qr, watch, lockOf, run>>, cached'[Acct] \in {NoLock, t}
  PROVE  InvAt(t)'
<1>0. /\ Accounts = {Acct} /\ <<Acct, Acct>> \in StartsWith /\ t # NoLock
      /\ phone \in [Accounts -> Requests \cup {NoSession}]
      /\ \A p \in Requests \ {r} : ~Phoner(p)
  BY TheAccount, Typed, Sorts DEF InvAt, OnePhoner, Phoner, Busy
<1>1. CASE q.rest = {}
  <2> DEFINE next == [q EXCEPT !.pc = "opening", !.sess = NoSession]
  <2>1. /\ next \in RequestType /\ next.lock = t /\ next.pc = "opening" /\ next.op = "phone"
        /\ next.acct = Acct
    BY DEF RequestType
  <2>2. /\ phone' = [a \in Accounts |->
                      IF <<q.acct, a>> \in StartsWith /\ a \in q.keys
                        THEN NoSession ELSE phone[a]]
        /\ Acquire(r, Now, r, next)
    BY <1>1 DEF Purge
  <2>3. phone'[Acct] = NoSession
    BY <1>0, <2>2 DEF LoginKeys
  <2> HIDE DEF next
  <2>4. /\ Frame(r) /\ req'[r].lock = t /\ req'[r].op = "phone" /\ req'[r].acct = Acct
        /\ \/ /\ ~locked[t] /\ req'[r].pc = "opening"
              /\ locked' = [locked EXCEPT ![t] = TRUE]
              /\ holders' = [holders EXCEPT ![t] = @ \cup {r}]
           \/ req'[r].pc = "acquiring" /\ UNCHANGED <<locked, holders>>
    BY <2>1, <2>2, LockIsGot
  <2>5. Step(r, t)'
    BY <1>0, <2>4 DEF Step
  <2>6. CASE ~locked[t] /\ req'[r].pc = "opening"
    BY <1>0, <2>3, <2>4, <2>5, <2>6, Opens DEF Owning
  <2>7. CASE req'[r].pc = "acquiring"
    <3>1. UNCHANGED <<locked, holders>>
      BY <2>4, <2>7
    <3>2. CASE req[r].pc = "purging"
      BY <2>3, <2>4, <2>5, <2>7, <3>1, <3>2, PurgedWaits DEF SameLocks
    <3>3. CASE req[r].pc = "sweep"
      <4>1. phone[Acct] = NoSession
        BY <1>0, <1>1, <3>3 DEF LoginKeys
      <4>2. phone' = phone
        BY <1>0, <2>2, <2>3, <4>1
      <4> QED
        BY <1>0, <2>4, <2>5, <2>7, <3>1, <3>3, <4>2, Neutral DEF SameLocks, Owning
    <3> QED
      BY <3>2, <3>3
  <2> QED
    BY <2>4, <2>6, <2>7
<1>2. CASE q.rest # {}
  <2>1. req[r].pc = "sweep" /\ q.rest = LoginKeys
    BY <1>2
  <2>2. PICK a \in q.rest :
          /\ Locks(Given(phone[a])) /\ UNCHANGED phone
          /\ req' = [req EXCEPT ![r] = [q EXCEPT !.pc = "purging", !.sess = phone[a],
                                                 !.rest = @ \ {a}]]
    BY <1>2 DEF Purge
  <2>3. a = Acct /\ phone[Acct] \in Requests /\ LoginKeys = {Acct} /\ phone[Acct] # NoSession
    BY <1>0, <2>1, <2>2 DEF LoginKeys
  <2>4. Frame(r) /\ req'[r] = [q EXCEPT !.pc = "purging", !.sess = phone[a], !.rest = @ \ {a}]
    BY <2>2, Typed DEF Frame
  <2>5. /\ req'[r].pc = "purging" /\ req'[r].sess = phone[Acct] /\ req'[r].rest = {}
        /\ req'[r].op = "phone" /\ req'[r].lock = t /\ req'[r].acct = Acct
        /\ req'[r].keys = {Acct}
    BY <2>1, <2>3, <2>4 DEF RequestType
  <2>6. Step(r, t)'
    BY <1>0, <2>2, <2>3, <2>5 DEF Step
  <2> QED
    <3>1. Locks(Given(phone[Acct])) /\ phone' = phone /\ req'[r].pc = "purging"
          /\ req'[r].sess = phone[Acct] /\ req'[r].lock \in {NoLock, t}
      BY <2>2, <2>3, <2>5
    <3>2. req[r].pc \notin Owning \cup {"purging", "done"}
      BY <2>1 DEF Owning
    <3> QED
      BY <1>0, <2>3, <2>4, <2>6, <3>1, <3>2, PhoneEnds
<1> QED
  BY <1>1, <1>2

LEMMA PurgeFirstKeeps ==
  ASSUME OneAccount, PhoneOneByOne, NEW t, At(t), NEW r \in Requests, PurgeFirst(r)
  PROVE  LoginInv'
<1>0. /\ LoginShape /\ t \in LockObjects \cup {NoLock} /\ t = table[Acct] /\ InvAt(t)
      /\ Accounts = {Acct} /\ <<Acct, Acct>> \in StartsWith
      /\ req[r] \in RequestType /\ req[r].pc = "sweep" /\ req[r].op = "phone"
      /\ UNCHANGED <<cached, qr, status, lockOf, watch, run, overlap>>
  BY TheAccount, Typed DEF At, PurgeFirst
<1>1. req[r].acct = Acct
  BY <1>0 DEF InvAt, Step
<1>2. table' = TableWith(Acct) /\ table' \in [Accounts -> LockObjects]
  BY <1>0, <1>1, TableFilled DEF PurgeFirst
<1>3. PICK n \in LockObjects : n = table'[Acct] /\ InvAt(n)
  BY <1>0, <1>2, TableFilled
<1> DEFINE q == [req[r] EXCEPT !.lock = n, !.keys = LoginKeys,
                  !.rest = {a \in LoginKeys : <<req[r].acct, a>> \in StartsWith}]
<1>4. Purge(r, q)
  BY <1>1, <1>3 DEF PurgeFirst
<1>5. {a \in LoginKeys : <<req[r].acct, a>> \in StartsWith} = LoginKeys /\ LoginKeys \subseteq Accounts
  BY <1>0, <1>1 DEF LoginKeys
<1>6. /\ q \in RequestType /\ q.rest = LoginKeys /\ q.keys = LoginKeys /\ q.lock = n
      /\ q.op = "phone" /\ q.acct = Acct
  BY <1>0, <1>1, <1>5 DEF RequestType
<1>7. LoginShape'
  <2>1. q.rest \subseteq Accounts
    BY <1>5, <1>6
  <2> QED
    BY <1>0, <1>2, <1>4, <1>6, <2>1, PurgeTyped DEF LoginShape, LoginTypeOK
<1>8. cached'[Acct] \in {NoLock, n}
  BY <1>0, <1>3 DEF InvAt, OneLock
<1>9. InvAt(n)'
  BY <1>0, <1>3, <1>4, <1>6, <1>7, <1>8, PurgeKeeps
<1> QED
  BY <1>3, <1>7, <1>9 DEF LoginInv

LEMMA PurgeNextKeeps ==
  ASSUME OneAccount, PhoneOneByOne, NEW t, At(t), NEW r \in Requests, PurgeNext(r)
  PROVE  At(t)'
<1>0. /\ LoginShape /\ t \in LockObjects \cup {NoLock} /\ t = table[Acct] /\ InvAt(t)
      /\ Accounts = {Acct} /\ <<Acct, Acct>> \in StartsWith
      /\ req[r] \in RequestType /\ req[r].pc = "purging"
      /\ UNCHANGED <<table, cached, qr, status, lockOf, watch, run, overlap>>
  BY TheAccount, Typed DEF At, PurgeNext
<1>1. /\ t \in LockObjects /\ req[r].op = "phone" /\ req[r].lock = t /\ req[r].acct = Acct
      /\ req[r].rest = {} /\ req[r].keys = {Acct} /\ phone[Acct] # NoSession
  BY <1>0 DEF InvAt, Step, Phoner, Busy
<1>2. LoginKeys = {Acct}
  BY <1>0, <1>1 DEF LoginKeys
<1> DEFINE q == [req[r] EXCEPT !.rest = @ \cap LoginKeys]
<1>3. Purge(r, q)
  BY <1>1, <1>2 DEF PurgeNext
<1>4. /\ q \in RequestType /\ q.rest = {} /\ q.keys = {Acct} /\ q.lock = t
      /\ q.op = "phone" /\ q.acct = Acct
  BY <1>0, <1>1 DEF RequestType
<1>5. LoginShape'
  BY <1>0, <1>3, <1>4, PurgeTyped DEF LoginShape, LoginTypeOK
<1>6. cached'[Acct] \in {NoLock, t}
  BY <1>0 DEF InvAt, OneLock
<1>7. InvAt(t)'
  BY <1>0, <1>1, <1>2, <1>3, <1>4, <1>5, <1>6, PurgeKeeps
<1> QED
  BY <1>0, <1>5, <1>7 DEF At

LEMMA CleanKeeps ==
  ASSUME OneAccount, PhoneOneByOne, LoginShape, LoginShape', NEW t \in LockObjects, InvAt(t),
         NEW r \in Requests, NEW q \in RequestType, NEW after, Clean(r, q, after),
         q.op = "qr", q.lock = t, q.acct = Acct, req[r].op = "qr",
         \/ req[r].pc = "sweep" /\ after = Now
         \/ req[r].pc = "cleaning" /\ after = Given(req[r].sess),
         UNCHANGED <<lockOf, run>>, cached'[Acct] \in {NoLock, t}
  PROVE  InvAt(t)'
<1>0. Accounts = {Acct} /\ t # NoLock /\ ~Phoner(r) /\ qr \subseteq Requests
  BY TheAccount, Typed, Sorts DEF Phoner
<1> DEFINE next == [q EXCEPT !.pc = "opening", !.sess = NoSession]
<1>1. /\ next \in RequestType /\ next.lock = t /\ next.pc = "opening" /\ next.op = "qr"
      /\ next.acct = Acct
  BY DEF RequestType
<1>2. ASSUME NEW s \in q.rest \cap qr, Popped(s), watch' = [watch EXCEPT ![s] = "off"],
             Locks(after),
             req' = [req EXCEPT ![r] = [q EXCEPT !.pc = "cleaning", !.sess = s, !.rest = @ \ {s}]]
      PROVE  InvAt(t)'
  <2>0. s \in Requests /\ s \in qr /\ Owns(s)
    BY <1>0 DEF Owns
  <2>1. CASE req[r].pc = "sweep"
    <3>1. UNCHANGED <<locked, holders>>
      BY <1>2, <2>1 DEF Locks, Now
    <3>2. Frame(r) /\ req'[r] = [q EXCEPT !.pc = "cleaning", !.sess = s, !.rest = @ \ {s}]
      BY <1>2, Typed DEF Frame
    <3>3. /\ req'[r].pc = "cleaning" /\ req'[r].sess = s /\ req'[r].op = "qr"
          /\ req'[r].lock = t /\ req'[r].acct = Acct
      BY <3>2 DEF RequestType
    <3>4. Step(r, t)' /\ ~Phoner(r)'
      BY <1>0, <2>0, <3>3 DEF Step, Phoner
    <3>5. /\ phone'[Acct] = IF phone[Acct] = s THEN NoSession ELSE phone[Acct]
          /\ qr' = qr \ {s}
      BY <1>0, <1>2, Typed DEF Popped
    <3> QED
      BY <1>0, <1>2, <2>0, <2>1, <3>1, <3>2, <3>3, <3>4, <3>5, Transfer DEF SameLocks, Owning
  <2>2. CASE req[r].pc = "cleaning"
    <3>1. req[r].sess \in Requests /\ Ending(r, req[r].sess)
      BY <2>2 DEF InvAt, Step, Ending
    <3>2. Owns(req[r].sess) /\ req[r].sess \notin qr
      BY <3>1 DEF Owns, InvAt, Once
    <3> QED
      BY <2>0, <3>1, <3>2, OneOwner DEF Owners, InvAt, Accounted
  <2> QED
    BY <1>2, <2>1, <2>2
<1>3. ASSUME Acquire(r, after, r, next), UNCHANGED <<phone, qr, watch>>
      PROVE  InvAt(t)'
  <2> HIDE DEF next
  <2>1. CASE req[r].pc = "sweep"
    <3>1. /\ Frame(r) /\ req'[r].lock = t /\ req'[r].op = "qr" /\ req'[r].acct = Acct
          /\ \/ /\ ~locked[t] /\ req'[r].pc = "opening"
                /\ locked' = [locked EXCEPT ![t] = TRUE]
                /\ holders' = [holders EXCEPT ![t] = @ \cup {r}]
             \/ req'[r].pc = "acquiring" /\ UNCHANGED <<locked, holders>>
      BY <1>1, <1>3, <2>1, LockIsGot
    <3>2. Step(r, t)' /\ ~Phoner(r)'
      BY <1>0, <3>1 DEF Step, Phoner
    <3>3. CASE ~locked[t] /\ req'[r].pc = "opening"
      BY <1>0, <1>3, <2>1, <3>1, <3>2, <3>3, Opens DEF Owning
    <3>4. CASE req'[r].pc = "acquiring"
      BY <1>0, <1>3, <2>1, <3>1, <3>2, <3>4, Neutral DEF Owning, SameLocks
    <3> QED
      BY <3>1, <3>3, <3>4
  <2>2. CASE req[r].pc = "cleaning"
    <3> DEFINE s == req[r].sess
    <3>1. s \in Requests /\ Ending(r, s) /\ Owns(s) /\ Kept(s)
      BY <2>2 DEF InvAt, Step, Ending, Owns, Kept
    <3>2. /\ after = [locked |-> [locked EXCEPT ![t] = FALSE],
                      holders |-> [holders EXCEPT ![t] = {}]]
          /\ holders[t] = {s} /\ \A l \in LockObjects \ {t} : holders[l] = {} /\ ~locked[l]
      BY <2>2, <3>1, EndingHasLock DEF InvAt, OneLock
    <3>3. \/ /\ locked' = [after.locked EXCEPT ![next.lock] = TRUE]
             /\ holders' = [after.holders EXCEPT ![next.lock] = @ \cup {r}]
             /\ req' = [req EXCEPT ![r] = next]
          \/ /\ locked' = after.locked /\ holders' = after.holders
             /\ req' = [req EXCEPT ![r] = [next EXCEPT !.pc = "acquiring"]]
      BY <1>3 DEF Acquire, Locks
    <3>4. CASE /\ locked' = [after.locked EXCEPT ![next.lock] = TRUE]
               /\ holders' = [after.holders EXCEPT ![next.lock] = @ \cup {r}]
               /\ req' = [req EXCEPT ![r] = next]
      <4>1. Frame(r) /\ req'[r] = next
        BY <3>4, Typed DEF Frame
      <4>2. Step(r, t)' /\ ~Phoner(r)'
        BY <1>0, <1>1, <4>1 DEF Step, Phoner
      <4>3. locked' = [locked EXCEPT ![t] = TRUE] /\ holders' = [holders EXCEPT ![t] = {r}]
        BY <1>1, <3>2, <3>4 DEF LoginShape, LoginTypeOK
      <4> QED
        BY <1>0, <1>1, <1>3, <3>1, <4>1, <4>2, <4>3, Ends
    <3>5. CASE /\ locked' = after.locked /\ holders' = after.holders
               /\ req' = [req EXCEPT ![r] = [next EXCEPT !.pc = "acquiring"]]
      <4>1. Frame(r) /\ req'[r] = [next EXCEPT !.pc = "acquiring"]
        BY <3>5, Typed DEF Frame
      <4>2. /\ req'[r].pc = "acquiring" /\ req'[r].lock = t /\ req'[r].op = "qr"
            /\ req'[r].acct = Acct
        BY <1>1, <4>1 DEF RequestType
      <4>3. Step(r, t)' /\ ~Phoner(r)'
        BY <1>0, <4>2 DEF Step, Phoner
      <4>4. locked' = [locked EXCEPT ![t] = FALSE] /\ holders' = [holders EXCEPT ![t] = {}]
        BY <3>2, <3>5
      <4> QED
        BY <1>0, <1>3, <3>1, <4>1, <4>2, <4>3, <4>4, Ends
    <3> QED
      BY <3>3, <3>4, <3>5
  <2> QED
    BY <2>1, <2>2
<1> QED
  BY <1>2, <1>3 DEF Clean

LEMMA CleanFirstKeeps ==
  ASSUME OneAccount, PhoneOneByOne, NEW t, At(t), NEW r \in Requests, CleanFirst(r)
  PROVE  LoginInv'
<1>0. /\ LoginShape /\ t \in LockObjects \cup {NoLock} /\ t = table[Acct] /\ InvAt(t)
      /\ Accounts = {Acct} /\ qr \subseteq Requests
      /\ req[r] \in RequestType /\ req[r].pc = "sweep" /\ req[r].op = "qr"
      /\ UNCHANGED <<cached, status, lockOf, run, overlap>>
  BY TheAccount, Typed DEF At, CleanFirst
<1>1. req[r].acct = Acct
  BY <1>0 DEF InvAt, Step
<1>2. table' = TableWith(Acct) /\ table' \in [Accounts -> LockObjects]
  BY <1>0, <1>1, TableFilled DEF CleanFirst
<1>3. PICK n \in LockObjects : n = table'[Acct] /\ InvAt(n)
  BY <1>0, <1>2, TableFilled
<1> DEFINE q == [req[r] EXCEPT !.lock = n, !.rest = {s \in qr : req[s].acct = req[r].acct}]
<1>4. Clean(r, q, Now)
  BY <1>1, <1>3 DEF CleanFirst
<1>5. {s \in qr : req[s].acct = req[r].acct} \subseteq Accounts \cup Requests
  BY <1>0
<1>6. q \in RequestType /\ q.lock = n /\ q.op = "qr" /\ q.acct = Acct
  BY <1>0, <1>1, <1>5 DEF RequestType
<1>7. LoginShape'
  <2>1. Now.locked \in [LockObjects -> BOOLEAN] /\ Now.holders \in [LockObjects -> SUBSET Parties]
    BY <1>0 DEF Now, LoginShape, LoginTypeOK
  <2> QED
    BY <1>0, <1>2, <1>4, <1>6, <2>1, CleanTyped DEF LoginShape, LoginTypeOK
<1>8. cached'[Acct] \in {NoLock, n}
  BY <1>0, <1>3 DEF InvAt, OneLock
<1>9. InvAt(n)'
  BY <1>0, <1>3, <1>4, <1>6, <1>7, <1>8, CleanKeeps
<1> QED
  BY <1>3, <1>7, <1>9 DEF LoginInv

LEMMA CleanNextKeeps ==
  ASSUME OneAccount, PhoneOneByOne, NEW t, At(t), NEW r \in Requests, CleanNext(r)
  PROVE  At(t)'
<1>0. /\ LoginShape /\ t \in LockObjects \cup {NoLock} /\ t = table[Acct] /\ InvAt(t)
      /\ req[r] \in RequestType /\ req[r].pc = "cleaning"
      /\ Clean(r, req[r], Given(req[r].sess))
      /\ UNCHANGED <<table, cached, status, lockOf, run, overlap>>
  BY Typed DEF At, CleanNext
<1>1. t \in LockObjects /\ req[r].op = "qr" /\ req[r].lock = t /\ req[r].acct = Acct
  BY <1>0 DEF InvAt, Step, Phoner, Busy
<1>2. LoginShape'
  BY <1>0, CleanTyped, LocksTyped DEF LoginShape, LoginTypeOK
<1>3. cached'[Acct] \in {NoLock, t}
  BY <1>0 DEF InvAt, OneLock
<1>4. InvAt(t)'
  BY <1>0, <1>1, <1>2, <1>3, CleanKeeps
<1> QED
  BY <1>0, <1>2, <1>4 DEF At

LEMMA GetsLockKeeps ==
  ASSUME OneAccount, PhoneOneByOne, NEW t, At(t), NEW r \in Requests, GetsLock(r)
  PROVE  At(t)'
<1>0. /\ LoginShape /\ t \in LockObjects \cup {NoLock} /\ t = table[Acct] /\ InvAt(t)
      /\ req[r] \in RequestType /\ req[r].pc = "acquiring" /\ Accounts = {Acct}
      /\ UNCHANGED <<table, cached, sessionVars, run, overlap>>
  BY Typed, TheAccount DEF At, GetsLock
<1>1. /\ t \in LockObjects /\ req[r].op \in {"phone", "qr"} /\ req[r].lock = t
      /\ Phoner(r) => req[r].acct = Acct
  BY <1>0 DEF InvAt, Step
<1>2. /\ ~locked[t]
      /\ locked' = [locked EXCEPT ![t] = TRUE] /\ holders' = [holders EXCEPT ![t] = @ \cup {r}]
      /\ req' = [req EXCEPT ![r].pc = "opening"]
  <2>1. CASE req[r].op = "phone"
    BY <1>1, <2>1 DEF GetsLock
  <2>2. CASE req[r].op = "qr"
    BY <1>1, <2>2 DEF GetsLock
  <2> QED
    BY <1>1, <2>1, <2>2
<1>3. Frame(r) /\ req'[r] = [req[r] EXCEPT !.pc = "opening"]
  BY <1>2, Typed, <1>0 DEF Frame
<1>4. /\ req'[r] \in RequestType /\ req'[r].pc = "opening" /\ req'[r].op = req[r].op
      /\ req'[r].lock = t /\ req'[r].acct = req[r].acct
  BY <1>0, <1>1, <1>3 DEF RequestType
<1>5. LoginShape'
  <2>1. req' \in [Requests -> RequestType]
    BY <1>0, <1>2, <1>3, <1>4, RequestTyped, Typed
  <2>2. holders' \in [LockObjects -> SUBSET Parties] /\ locked' \in [LockObjects -> BOOLEAN]
    BY <1>0, <1>2 DEF LoginShape, LoginTypeOK, Parties
  <2> QED
    BY <1>0, <2>1, <2>2 DEF LoginShape, LoginTypeOK, sessionVars
<1>6. Step(r, t)' /\ (Phoner(r)' => Phoner(r))
  BY <1>0, <1>1, <1>4, Sorts DEF Step, Phoner, Busy
<1>7. Phoner(r)' => \A q \in Requests \ {r} : ~Phoner(q)
  BY <1>0, <1>6 DEF InvAt, OnePhoner
<1>8. InvAt(t)'
  <2>1. cached'[Acct] \in {NoLock, t} /\ UNCHANGED <<qr, watch, lockOf, run, phone>>
    BY <1>0 DEF InvAt, OneLock, sessionVars
  <2> QED
    BY <1>0, <1>1, <1>2, <1>3, <1>4, <1>5, <1>6, <1>7, <2>1, Opens DEF Owning
<1> QED
  BY <1>0, <1>5, <1>8 DEF At

LEMMA OpenedKeeps ==
  ASSUME OneAccount, PhoneOneByOne, NEW t, At(t), NEW r \in Requests,
         PhoneFails(r) \/ QrTokenFails(r) \/ CodeSent(r) \/ QrShown(r)
  PROVE  At(t)'
<1>0. /\ LoginShape /\ t \in LockObjects \cup {NoLock} /\ t = table[Acct] /\ InvAt(t)
      /\ Accounts = {Acct} /\ req[r] \in RequestType /\ req[r].pc = "opening" /\ Answers(r)
      /\ UNCHANGED <<table, cached, run, overlap, status>>
  BY Typed, TheAccount DEF At, PhoneFails, QrTokenFails, CodeSent, QrShown, lockVars, sessionVars
<1>1. req' \in [Requests -> RequestType]
  BY <1>0, AnswersTyped
<1>2. CASE PhoneFails(r) \/ QrTokenFails(r)
  <2>1. Abandon(r) /\ UNCHANGED sessionVars
    BY <1>2 DEF PhoneFails, QrTokenFails
  <2>2. holders' \in [LockObjects -> SUBSET Parties] /\ locked' \in [LockObjects -> BOOLEAN]
    BY <1>0, <2>1 DEF LoginShape, LoginTypeOK, Abandon
  <2>3. LoginShape'
    BY <1>0, <1>1, <2>1, <2>2 DEF LoginShape, LoginTypeOK, sessionVars
  <2> QED
    BY <1>0, <2>1, <2>3, OpenedEnds DEF At
<1>3. CASE CodeSent(r)
  <2>1. /\ phone' = [phone EXCEPT ![req[r].acct] = r] /\ req[r].op = "phone"
        /\ lockOf' = [lockOf EXCEPT ![r] = req[r].lock]
        /\ UNCHANGED <<locked, holders, qr, watch>>
    BY <1>3 DEF CodeSent, lockVars
  <2>2. /\ phone' \in [Accounts -> Requests \cup {NoSession}]
        /\ lockOf' \in [Requests -> LockObjects \cup {NoLock}]
    BY <1>0, <2>1, Typed DEF RequestType
  <2>3. LoginShape'
    BY <1>0, <1>1, <2>1, <2>2 DEF LoginShape, LoginTypeOK
  <2> QED
    BY <1>0, <2>1, <2>3, OpenedEnds DEF At
<1>4. CASE QrShown(r)
  <2>1. /\ qr' = qr \cup {r} /\ watch' = [watch EXCEPT ![r] = "on"]
        /\ lockOf' = [lockOf EXCEPT ![r] = req[r].lock]
        /\ UNCHANGED <<locked, holders, phone>>
    BY <1>4 DEF QrShown, lockVars
  <2>2. lockOf' \in [Requests -> LockObjects \cup {NoLock}]
    BY <1>0, <2>1, Typed DEF RequestType
  <2>3. LoginShape'
    BY <1>0, <1>1, <2>1, <2>2 DEF LoginShape, LoginTypeOK
  <2> QED
    BY <1>0, <2>1, <2>3, OpenedEnds DEF At
<1> QED
  BY <1>2, <1>3, <1>4

(* A start raises: nothing changes but that nobody will release the lock.   *)
LEMMA RaisesKeeps ==
  ASSUME NEW t, At(t), NEW r \in Requests, Raises(r)
  PROVE  At(t)'
<1>1. /\ LoginShape /\ t \in LockObjects \cup {NoLock} /\ t = table[Acct] /\ InvAt(t)
      /\ req \in [Requests -> RequestType] /\ req[r] \in RequestType /\ req[r].pc = "opening"
      /\ req' = [req EXCEPT ![r].pc = "raised"]
      /\ UNCHANGED <<table, cached, locked, holders, phone, qr, status, lockOf, watch, run, overlap>>
  BY Typed DEF At, Raises, Goes, lockVars, sessionVars
<1>2. Frame(r) /\ req'[r] = [req[r] EXCEPT !.pc = "raised"]
  BY <1>1 DEF Frame
<1>3. /\ req'[r] \in RequestType /\ req'[r].pc = "raised" /\ req'[r].lock = req[r].lock
      /\ req'[r].op = req[r].op
  BY <1>1, <1>2 DEF RequestType
<1>4. LoginShape'
  BY <1>1, <1>3 DEF LoginShape, LoginTypeOK
<1>5. \A q, x \in Requests : Ending(q, x)' <=> Ending(q, x)
  BY <1>1, <1>2, <1>3 DEF Ending, Frame
<1>6. \A x \in Requests : Purged(x)' <=> Purged(x)
  BY <1>1, <1>2, <1>3 DEF Purged, Frame
<1>7. \A x \in Requests :
        req'[x].pc \in {"opening", "raised"} <=> req[x].pc \in {"opening", "raised"}
  BY <1>1, <1>2, <1>3 DEF Frame
<1>8. \A x \in Requests : (Owns(x)' <=> Owns(x)) /\ (Kept(x)' <=> Kept(x))
  BY <1>1, <1>5, <1>6, <1>7 DEF Owns, Kept
<1>9. Owners' = Owners
  BY <1>1, <1>8 DEF Owners
<1>10. OneLock(t)' /\ Accounted(t)'
  BY <1>1, <1>2, <1>3, <1>9 DEF InvAt, OneLock, Accounted, Frame
<1>11. ~Kept(r)
  BY <1>1 DEF InvAt, Sessions
<1>12. Sessions(t)' /\ Once'
  BY <1>1, <1>2, <1>5, <1>8, <1>11 DEF InvAt, Sessions, Once, Frame
<1>13. \A q \in Requests : Step(q, t)'
  BY <1>1, <1>2, <1>3 DEF InvAt, Step, Phoner, Busy, Frame
<1>14. OnePhoner'
  BY <1>1, <1>2, <1>3 DEF InvAt, OnePhoner, Phoner, Busy, Frame
<1>15. InvAt(t)'
  BY <1>10, <1>12, <1>13, <1>14 DEF InvAt
<1> QED
  BY <1>1, <1>4, <1>15 DEF At

(* A request that neither has the lock nor asks for it moves on.            *)
LEMMA QuietKeeps ==
  ASSUME NEW t, At(t), NEW r \in Requests, Frame(r), req' \in [Requests -> RequestType],
         req[r].pc \notin Owning \cup {"purging", "done"},
         req'[r].pc \notin Owning \cup {"purging"},
         UNCHANGED <<table, cached, locked, holders, phone, qr, lockOf, watch, run, overlap>>,
         status' \in [Requests -> {"waiting_scan", "scanned_wait_confirm", "password_required"}],
         req'[r].lock \in {NoLock, t}, Step(r, t)',
         Phoner(r)' => \A q \in Requests \ {r} : ~Phoner(q)
  PROVE  At(t)'
<1>0. LoginShape /\ t \in LockObjects \cup {NoLock} /\ t = table[Acct] /\ InvAt(t)
  BY DEF At
<1>1. LoginShape'
  BY <1>0 DEF LoginShape, LoginTypeOK
<1>2. SameLocks(t)
  BY <1>0 DEF SameLocks, InvAt, OneLock
<1>3. InvAt(t)'
  BY <1>0, <1>1, <1>2, Neutral
<1> QED
  BY <1>0, <1>1, <1>3 DEF At

LEMMA AnswersKeeps ==
  ASSUME NEW t, At(t), NEW r \in Requests, Answers(r),
         req[r].pc \notin Owning \cup {"purging", "done"},
         UNCHANGED <<table, cached, locked, holders, phone, qr, lockOf, watch, run, overlap>>,
         status' \in [Requests -> {"waiting_scan", "scanned_wait_confirm", "password_required"}]
  PROVE  At(t)'
<1>1. req \in [Requests -> RequestType] /\ req' \in [Requests -> RequestType] /\ req[r] \in RequestType
  BY Typed, AnswersTyped DEF At
<1>2. Frame(r) /\ req'[r] = Answered(r)
  BY <1>1 DEF Answers, Frame
<1>3. req'[r].pc = "done" /\ req'[r].lock = NoLock
  BY <1>1, <1>2 DEF RequestType, Answered
<1>4. Step(r, t)' /\ ~Phoner(r)'
  BY <1>3 DEF Step, Phoner, Busy
<1> QED
  BY <1>1, <1>2, <1>3, <1>4, QuietKeeps DEF Owning

LEMMA GoesKeeps ==
  ASSUME NEW t, At(t), NEW r \in Requests, NEW pc, Goes(r, pc),
         \/ req[r].pc = "verifying" /\ pc \in {"stored", "refused"}
         \/ req[r].pc = "asking" /\ pc = "stored",
         UNCHANGED <<lockVars, sessionVars, run, overlap>>
  PROVE  At(t)'
<1>1. /\ req \in [Requests -> RequestType] /\ req[r] \in RequestType
      /\ LoginShape /\ InvAt(t)
  BY Typed DEF At
<1>2. Frame(r) /\ req'[r] = [req[r] EXCEPT !.pc = pc]
  BY <1>1 DEF Goes, Frame
<1>3. /\ req'[r] \in RequestType /\ req'[r].pc = pc /\ req'[r].lock = req[r].lock
      /\ req'[r].op = req[r].op /\ req'[r].acct = req[r].acct /\ req'[r].sess = req[r].sess
      /\ req[r].sess \in Requests \cup {NoSession}
  BY <1>1, <1>2 DEF RequestType
<1>4. req' \in [Requests -> RequestType]
  BY <1>1, <1>3 DEF Goes
<1>5. phone' = phone /\ Step(r, t) /\ req[r].lock \in {NoLock, t}
  BY <1>1 DEF InvAt, OneLock, sessionVars
<1>6. Step(r, t)' /\ (Phoner(r)' => Phoner(r))
  BY <1>1, <1>3, <1>5 DEF Step, Phoner, Busy
<1>7. Phoner(r)' => \A q \in Requests \ {r} : ~Phoner(q)
  BY <1>1, <1>6 DEF InvAt, OnePhoner
<1>8. /\ UNCHANGED <<table, cached, locked, holders, phone, qr, lockOf, watch, run, overlap>>
      /\ status' \in [Requests -> {"waiting_scan", "scanned_wait_confirm", "password_required"}]
  BY <1>1 DEF lockVars, sessionVars, LoginShape, LoginTypeOK
<1> QED
  BY <1>2, <1>3, <1>4, <1>5, <1>6, <1>7, <1>8, QuietKeeps DEF Owning

LEMMA CleanupKeeps ==
  ASSUME OneAccount, NEW t, At(t), NEW r \in Requests, NEW s \in Requests, CleanupQr(r, s),
         req[r].pc \in {"none", "asking", "stored"}, ~Phoner(r),
         UNCHANGED <<lockVars, status, lockOf, run, overlap>>
  PROVE  At(t)'
<1>0. /\ LoginShape /\ t \in LockObjects \cup {NoLock} /\ t = table[Acct] /\ InvAt(t)
      /\ req \in [Requests -> RequestType] /\ req[r] \in RequestType
      /\ Accounts = {Acct} /\ UNCHANGED <<table, cached, locked, holders>>
  BY Typed, TheAccount DEF At, lockVars
<1>1. CASE s \notin qr
  <2>1. Answers(r) /\ UNCHANGED <<phone, qr, watch>>
    BY <1>1 DEF CleanupQr
  <2>2. status' \in [Requests -> {"waiting_scan", "scanned_wait_confirm", "password_required"}]
    BY <1>0 DEF LoginShape, LoginTypeOK
  <2> QED
    BY <1>0, <2>1, <2>2, AnswersKeeps DEF Owning
<1>2. CASE s \in qr
  <2>1. /\ Popped(s) /\ watch' = [watch EXCEPT ![s] = "off"]
        /\ req' = [req EXCEPT ![r].pc = "ending", ![r].sess = s]
    BY <1>2 DEF CleanupQr
  <2>2. Frame(r) /\ req'[r] = [req[r] EXCEPT !.pc = "ending", !.sess = s]
    BY <1>0, <2>1 DEF Frame
  <2>3. /\ req'[r].pc = "ending" /\ req'[r].sess = s /\ req'[r].op = req[r].op
        /\ req'[r].lock = req[r].lock
    BY <1>0, <2>2 DEF RequestType
  <2>4. Step(r, t) /\ req[r].lock \in {NoLock, t}
    BY <1>0 DEF InvAt, OneLock
  <2>5. Step(r, t)' /\ ~Phoner(r)'
    BY <2>3, <2>4 DEF Step, Phoner, Busy
  <2>6. /\ phone'[Acct] = IF phone[Acct] = s THEN NoSession ELSE phone[Acct]
        /\ qr' = qr \ {s}
    BY <1>0, <2>1, Typed DEF Popped
  <2>7. LoginShape'
    BY <1>0, CleanupTyped DEF LoginShape, LoginTypeOK
  <2>8. SameLocks(t)
    BY <1>0 DEF SameLocks, InvAt, OneLock
  <2>9. InvAt(t)'
    BY <1>0, <1>2, <2>1, <2>2, <2>3, <2>4, <2>5, <2>6, <2>7, <2>8, Transfer DEF Owning
  <2> QED
    BY <1>0, <2>7, <2>9 DEF At
<1> QED
  BY <1>1, <1>2

(* A login that is kept has locked the account's lock.                      *)
LEMMA KeptIsLocked ==
  ASSUME LoginShape, NEW t \in LockObjects \cup {NoLock}, InvAt(t),
         NEW s \in Requests, Owns(s), Kept(s)
  PROVE  lockOf[s] = t /\ locked[t]
<1>1. lockOf[s] = t /\ t # NoLock
  BY DEF InvAt, Sessions
<1>2. s \in Owners
  BY DEF Owners
<1> QED
  BY <1>1, <1>2 DEF InvAt, Accounted

LEMMA VerifyKeeps ==
  ASSUME OneAccount, PhoneOneByOne, NEW t, At(t), NEW r \in Requests, NEW a \in Accounts, Verify(r, a)
  PROVE  At(t)'
<1> DEFINE s == phone[a]
           q == [req[r] EXCEPT !.op = "verify", !.pc = "verifying", !.acct = a,
                               !.sess = s, !.lock = lockOf[s]]
<1>0. /\ LoginShape /\ t \in LockObjects \cup {NoLock} /\ t = table[Acct] /\ InvAt(t)
      /\ a = Acct /\ req \in [Requests -> RequestType] /\ req[r] \in RequestType
      /\ req[r].pc = "none" /\ s \in Requests /\ s # NoSession
      /\ UNCHANGED <<table, cached, sessionVars, run, overlap>>
  BY TheAccount, Typed DEF At, Verify, Arrives
<1>1. /\ \A x \in Requests \ {r} : ~Phoner(x)
      /\ ~Purged(s)
  <2>1. \A x \in Requests \ {r} : ~Phoner(x)
    BY <1>0, Alone1, Typed DEF Verify, Alone, Phoner, InvAt, Step
  <2>2. \A x \in Busy : req[x].sess # s
    BY <1>0, Alone1, Typed DEF Verify, Undisturbed
  <2> QED
    BY <2>1, <2>2 DEF Purged, Busy
<1>2. Owns(s) /\ Kept(s)
  BY <1>0, <1>1 DEF Owns, Kept
<1>3. lockOf[s] = t /\ locked[t]
  BY <1>0, <1>2, KeptIsLocked
<1>4. q \in RequestType /\ q.pc = "verifying" /\ q.op = "verify" /\ q.acct = Acct
      /\ q.sess = phone[Acct] /\ q.lock = t
  BY <1>0, <1>3, Typed DEF RequestType
<1>5. req' = [req EXCEPT ![r] = q] /\ UNCHANGED <<locked, holders>>
  BY <1>3, <1>4 DEF Verify
<1>6. Frame(r) /\ req'[r] = q /\ req' \in [Requests -> RequestType]
  BY <1>0, <1>4, <1>5 DEF Frame
<1>7. Step(r, t)'
  BY <1>0, <1>4, <1>6 DEF Step, sessionVars
<1>8. /\ UNCHANGED <<phone, qr, lockOf, watch>>
      /\ status' \in [Requests -> {"waiting_scan", "scanned_wait_confirm", "password_required"}]
  BY <1>0 DEF sessionVars, LoginShape, LoginTypeOK
<1> QED
  BY <1>0, <1>1, <1>4, <1>5, <1>6, <1>7, <1>8, QuietKeeps DEF Owning

LEMMA VerifyEndsKeeps ==
  ASSUME OneAccount, PhoneOneByOne, NEW t, At(t), NEW r \in Requests, VerifyEnds(r)
  PROVE  At(t)'
<1> DEFINE s == req[r].sess
<1>0. /\ LoginShape /\ t \in LockObjects \cup {NoLock} /\ t = table[Acct] /\ InvAt(t)
      /\ Accounts = {Acct} /\ req \in [Requests -> RequestType] /\ req[r] \in RequestType
      /\ req[r].op = "verify" /\ req[r].pc \in {"stored", "refused"}
      /\ phone' = [phone EXCEPT ![req[r].acct] = NoSession] /\ Locks(Given(s)) /\ Answers(r)
      /\ UNCHANGED <<table, cached, qr, status, lockOf, watch, run, overlap>>
  BY TheAccount, Typed DEF At, VerifyEnds
<1>1. Phoner(r) /\ Step(r, t)
  BY <1>0 DEF Phoner, Busy, InvAt
<1>2. /\ req[r].acct = Acct /\ s = phone[Acct] /\ s # NoSession
      /\ \A x \in Requests \ {r} : ~Phoner(x)
  BY <1>0, <1>1 DEF Step, InvAt, OnePhoner
<1>3. s \in Requests /\ phone'[Acct] = NoSession
      /\ phone' \in [Accounts -> Requests \cup {NoSession}]
  BY <1>0, <1>2, Typed
<1>4. req'[r] = Answered(r) /\ Frame(r) /\ req' \in [Requests -> RequestType]
  BY <1>0, AnswersTyped DEF Answers, Frame
<1>5. req'[r].pc = "done" /\ req'[r].lock = NoLock
  BY <1>0, <1>4 DEF Answered, RequestType
<1>6. Step(r, t)'
  BY <1>5 DEF Step, Phoner, Busy
<1>7. LoginShape'
  BY <1>0, <1>3, <1>4, LocksTyped DEF LoginShape, LoginTypeOK, Locks
<1>8. cached'[Acct] \in {NoLock, t}
  BY <1>0 DEF InvAt, OneLock
<1>9. InvAt(t)'
  BY <1>0, <1>2, <1>3, <1>4, <1>5, <1>6, <1>7, <1>8, PhoneEnds DEF Owning
<1> QED
  BY <1>0, <1>7, <1>9 DEF At

LEMMA EndQrKeeps ==
  ASSUME OneAccount, PhoneOneByOne, NEW t, At(t), NEW r \in Requests, EndQr(r)
  PROVE  At(t)'
<1> DEFINE s == req[r].sess
<1>0. /\ LoginShape /\ t \in LockObjects \cup {NoLock} /\ t = table[Acct] /\ InvAt(t)
      /\ req \in [Requests -> RequestType] /\ req[r] \in RequestType
      /\ req[r].pc = "ending" /\ Locks(Given(s)) /\ Answers(r)
      /\ UNCHANGED <<table, cached, sessionVars, run, overlap>>
  BY Typed DEF At, EndQr
<1>1. s \in Requests /\ Ending(r, s) /\ Owns(s) /\ Kept(s)
  BY <1>0 DEF InvAt, Step, Ending, Owns, Kept
<1>2. locked' = [locked EXCEPT ![t] = FALSE] /\ holders' = [holders EXCEPT ![t] = {}]
  BY <1>0, <1>1, GivenBack
<1>3. req'[r] = Answered(r) /\ Frame(r) /\ req' \in [Requests -> RequestType]
  BY <1>0, AnswersTyped DEF Answers, Frame
<1>4. req'[r].pc = "done" /\ req'[r].lock = NoLock
  BY <1>0, <1>3 DEF Answered, RequestType
<1>5. Step(r, t)' /\ ~Phoner(r)'
  BY <1>4 DEF Step, Phoner, Busy
<1>6. LoginShape'
  BY <1>0, <1>3, LocksTyped DEF LoginShape, LoginTypeOK, Locks, sessionVars
<1>7. cached'[Acct] \in {NoLock, t} /\ UNCHANGED <<phone, qr, watch, lockOf, run>>
  BY <1>0 DEF InvAt, OneLock, sessionVars
<1>8. InvAt(t)'
  BY <1>0, <1>1, <1>2, <1>3, <1>4, <1>5, <1>6, <1>7, Ends
<1> QED
  BY <1>0, <1>6, <1>8 DEF At

LEMMA UnchangedKeeps ==
  ASSUME NEW t, At(t),
         UNCHANGED <<table, cached, locked, holders, phone, qr, lockOf, watch, req, run, overlap>>,
         status' \in [Requests -> {"waiting_scan", "scanned_wait_confirm", "password_required"}]
  PROVE  At(t)'
BY DEF At, LoginShape, LoginTypeOK, InvAt, OneLock, Accounted, Sessions, Once, OnePhoner, Step,
       Owners, Owns, Kept, Ending, Purged, Phoner, Busy

LEMMA WatcherKeeps ==
  ASSUME OneAccount, PhoneOneByOne, NEW t, At(t), NEW s \in Requests,
         Scanned(s) \/ Expire(s) \/ Expired(s)
  PROVE  At(t)'
<1>0. /\ LoginShape /\ t \in LockObjects \cup {NoLock} /\ t = table[Acct] /\ InvAt(t)
      /\ Accounts = {Acct}
  BY TheAccount DEF At
<1>1. CASE Scanned(s)
  <2>1. status' \in [Requests -> {"waiting_scan", "scanned_wait_confirm", "password_required"}]
    BY <1>0, <1>1 DEF Scanned, LoginShape, LoginTypeOK
  <2> QED
    BY <1>1, <2>1, UnchangedKeeps DEF Scanned, lockVars
<1>2. CASE Expire(s)
  <2>1. LoginShape'
    BY <1>0, <1>2, PoppedTyped DEF LoginShape, LoginTypeOK, Expire, lockVars
  <2>2. /\ phone'[Acct] = IF phone[Acct] = s THEN NoSession ELSE phone[Acct]
        /\ qr' = qr \ {s} /\ s \in qr /\ watch' = [watch EXCEPT ![s] = "ending"]
        /\ UNCHANGED <<table, locked, holders, cached, lockOf, req, run>>
    BY <1>0, <1>2, Typed DEF Expire, Popped, lockVars
  <2>3. InvAt(t)'
    BY <1>0, <2>1, <2>2, WatcherTakes
  <2> QED
    BY <1>0, <2>1, <2>2, <2>3 DEF At
<1>3. CASE Expired(s)
  <2>1. LoginShape'
    BY <1>0, <1>3, LocksTyped DEF LoginShape, LoginTypeOK, Expired, Locks
  <2>2. InvAt(t)'
    BY <1>0, <1>3, <2>1, WatcherReleases DEF Expired
  <2> QED
    BY <1>0, <1>3, <2>1, <2>2 DEF At, Expired
<1> QED
  BY <1>1, <1>2, <1>3

LEMMA PollKeeps ==
  ASSUME OneAccount, PhoneOneByOne, NEW t, At(t), NEW r \in Requests, NEW s \in Requests,
         Poll(r, s) \/ Password(r, s)
  PROVE  At(t)'
<1>0. /\ LoginShape /\ t \in LockObjects \cup {NoLock} /\ t = table[Acct] /\ InvAt(t)
      /\ req \in [Requests -> RequestType] /\ req[r] \in RequestType
      /\ req[r].pc = "none" /\ s \in qr
      /\ UNCHANGED <<table, cached, phone, qr, lockOf, watch, run, overlap>>
      /\ status' \in [Requests -> {"waiting_scan", "scanned_wait_confirm", "password_required"}]
  BY Typed DEF At, Poll, Password, About, Arrives, lockVars, sessionVars, LoginShape, LoginTypeOK
<1>1. lockOf[s] = t /\ locked[t] /\ req[r].lock \in {NoLock, t}
  <2>1. Owns(s) /\ Kept(s)
    BY <1>0 DEF Owns, Kept
  <2> QED
    BY <1>0, <2>1, KeptIsLocked DEF InvAt, OneLock
<1>2. ASSUME NEW q \in RequestType, req' = [req EXCEPT ![r] = q], UNCHANGED <<locked, holders>>,
             q.op \in {"poll", "password"}, q.pc = "asking", q.sess = s, q.lock \in {NoLock, t}
      PROVE  At(t)'
  <2>1. Frame(r) /\ req'[r] = q /\ req' \in [Requests -> RequestType]
    BY <1>0, <1>2 DEF Frame
  <2>2. Step(r, t)' /\ ~Phoner(r)'
    BY <1>0, <1>2, <2>1 DEF Step, Phoner
  <2> QED
    BY <1>0, <1>2, <2>1, <2>2, QuietKeeps DEF Owning
<1>3. CASE Poll(r, s)
  <2> DEFINE q == [req[r] EXCEPT !.op = "poll", !.pc = "asking", !.sess = s]
  <2>1. /\ q \in RequestType /\ q.op = "poll" /\ q.pc = "asking" /\ q.sess = s
        /\ q.lock = req[r].lock
    BY <1>0 DEF RequestType
  <2>2. req' = [req EXCEPT ![r] = q] /\ UNCHANGED <<locked, holders>>
    BY <1>0, <1>3 DEF Poll, lockVars
  <2> HIDE DEF q
  <2> QED
    BY <1>1, <1>2, <2>1, <2>2
<1>4. CASE Password(r, s)
  <2> DEFINE q == [req[r] EXCEPT !.op = "password", !.pc = "asking", !.sess = s, !.lock = lockOf[s]]
  <2>1. /\ q \in RequestType /\ q.op = "password" /\ q.pc = "asking" /\ q.sess = s
        /\ q.lock = t
    BY <1>0, <1>1 DEF RequestType
  <2>2. req' = [req EXCEPT ![r] = q] /\ UNCHANGED <<locked, holders>>
    BY <1>1, <1>4, <2>1 DEF Password
  <2> HIDE DEF q
  <2> QED
    BY <1>1, <1>2, <2>1, <2>2
<1> QED
  BY <1>3, <1>4

LEMMA RunTyped ==
  ASSUME LoginShape, NEW p \in Runs, run' = [run EXCEPT ![p] = run'[p]], run'[p] \in RunType
  PROVE  run' \in [Runs -> RunType] /\ \A x \in Runs \ {p} : run'[x] = run[x]
BY Typed

LEMMA RunStartKeeps ==
  ASSUME OneAccount, PhoneOneByOne, NEW t, At(t), NEW p \in Runs, NEW a \in Accounts, RunStart(p, a)
  PROVE  LoginInv'
<1>0. /\ LoginShape /\ t \in LockObjects \cup {NoLock} /\ t = table[Acct] /\ InvAt(t)
      /\ a = Acct /\ Accounts = {Acct} /\ run \in [Runs -> RunType]
      /\ cached \in [Accounts -> LockObjects \cup {NoLock}]
      /\ run[p].pc = "idle" /\ UNCHANGED <<sessionVars, req, overlap>>
  BY TheAccount DEF At, RunStart, LoginShape, LoginTypeOK
<1>1. PICK n \in LockObjects :
        /\ n = table'[Acct] /\ InvAt(n) /\ cached'[Acct] = n
        /\ cached' \in [Accounts -> LockObjects \cup {NoLock}]
        /\ table' \in [Accounts -> LockObjects \cup {NoLock}]
  <2>1. CASE cached[a] = NoLock
    <3>1. table' = TableWith(Acct) /\ cached' = [cached EXCEPT ![Acct] = table'[Acct]]
      BY <1>0, <2>1 DEF RunStart
    <3>2. table' \in [Accounts -> LockObjects]
      BY <1>0, <3>1, TableFilled
    <3>3. PICK n \in LockObjects : n = table'[Acct] /\ InvAt(n)
      BY <1>0, <3>1, TableFilled
    <3> QED
      BY <1>0, <3>1, <3>2, <3>3
  <2>2. CASE cached[a] # NoLock
    <3>1. UNCHANGED <<table, cached>>
      BY <2>2 DEF RunStart
    <3>2. cached[Acct] = t
      BY <1>0, <2>2 DEF InvAt, OneLock
    <3> QED
      BY <1>0, <2>2, <3>1, <3>2 DEF LoginShape, LoginTypeOK
  <2> QED
    BY <2>1, <2>2
<1>2. SameLogins /\ run'[p].lock = n /\ run'[p] \in RunType /\ run' = [run EXCEPT ![p] = run'[p]]
      /\ \/ /\ ~locked[n] /\ run'[p].pc = "working"
            /\ locked' = [locked EXCEPT ![n] = TRUE]
            /\ holders' = [holders EXCEPT ![n] = @ \cup {p}]
         \/ run'[p].pc = "acquiring" /\ UNCHANGED <<locked, holders>>
  <2>1. CASE AtOnce(n)
    <3>1. /\ locked' = [locked EXCEPT ![n] = TRUE]
          /\ holders' = [holders EXCEPT ![n] = @ \cup {p}]
          /\ run' = [run EXCEPT ![p] = [pc |-> "working", acct |-> a, lock |-> n]]
      BY <1>0, <1>1, <2>1 DEF RunStart
    <3>2. run'[p] = [pc |-> "working", acct |-> a, lock |-> n]
      BY <1>0, <3>1
    <3> QED
      BY <1>0, <1>1, <2>1, <3>1, <3>2 DEF AtOnce, SameLogins, sessionVars, RunType
  <2>2. CASE ~AtOnce(n)
    <3>1. /\ run' = [run EXCEPT ![p] = [pc |-> "acquiring", acct |-> a, lock |-> n]]
          /\ UNCHANGED <<locked, holders>>
      BY <1>0, <1>1, <2>2 DEF RunStart
    <3>2. run'[p] = [pc |-> "acquiring", acct |-> a, lock |-> n]
      BY <1>0, <3>1
    <3> QED
      BY <1>0, <1>1, <3>1, <3>2 DEF SameLogins, sessionVars, RunType
  <2> QED
    BY <2>1, <2>2
<1>3. run' \in [Runs -> RunType] /\ \A x \in Runs \ {p} : run'[x] = run[x]
  BY <1>0, <1>2, RunTyped
<1>4. LoginShape'
  <2>1. /\ holders \in [LockObjects -> SUBSET Parties] /\ locked \in [LockObjects -> BOOLEAN]
        /\ p \in Parties
    BY <1>0 DEF LoginShape, LoginTypeOK, Parties
  <2>2. holders' \in [LockObjects -> SUBSET Parties]
    BY <1>2, <2>1
  <2>3. locked' \in [LockObjects -> BOOLEAN]
    BY <1>2, <2>1
  <2> QED
    BY <1>0, <1>1, <1>3, <2>2, <2>3 DEF LoginShape, LoginTypeOK, sessionVars
<1>5. InvAt(n)'
  BY <1>0, <1>1, <1>2, <1>3, <1>4, RunMoves, Sorts
<1> QED
  BY <1>1, <1>4, <1>5 DEF LoginInv

LEMMA RunStepKeeps ==
  ASSUME OneAccount, PhoneOneByOne, NEW t, At(t), NEW p \in Runs, RunStep(p)
  PROVE  At(t)'
<1>0. /\ LoginShape /\ t \in LockObjects \cup {NoLock} /\ t = table[Acct] /\ InvAt(t)
      /\ run \in [Runs -> RunType] /\ run[p] \in RunType /\ run[p].pc \in {"acquiring", "working"}
      /\ UNCHANGED <<table, cached, sessionVars, req, overlap>>
  BY DEF At, LoginShape, RunStep, RunAcquired, RunEnds
<1>1. /\ run[p].lock \in {NoLock, t} /\ cached'[Acct] \in {NoLock, t} /\ SameLogins
  BY <1>0 DEF InvAt, OneLock, SameLogins, sessionVars
<1>2. CASE RunEnds(p)
  <2>1. p \in Owners /\ t \in LockObjects
    BY <1>0, <1>2 DEF RunEnds, Owners, InvAt, Accounted
  <2>2. run[p].pc = "working" /\ run' = [run EXCEPT ![p].pc = "done", ![p].lock = NoLock]
    BY <1>2 DEF RunEnds
  <2>3. /\ run' = [run EXCEPT ![p] = run'[p]]
        /\ run'[p] = [run[p] EXCEPT !.pc = "done", !.lock = NoLock]
    BY <1>0, <2>2
  <2>4. run'[p] \in RunType /\ run'[p].pc = "done" /\ run'[p].lock = NoLock
    BY <1>0, <2>3 DEF RunType
  <2>5. run' \in [Runs -> RunType] /\ \A x \in Runs \ {p} : run'[x] = run[x]
    BY <1>0, <2>3, <2>4, RunTyped
  <2>6. /\ locked' = [locked EXCEPT ![run[p].lock] = FALSE]
        /\ holders' = [holders EXCEPT ![run[p].lock] = @ \ {p}]
    BY <1>2 DEF RunEnds
  <2>7. LoginShape'
    BY <1>0, <2>5, <2>6 DEF LoginShape, LoginTypeOK, sessionVars
  <2>8. run[p].lock = t
    BY <1>0 DEF InvAt, OneLock
  <2>9. InvAt(t)'
    BY <1>0, <1>1, <2>1, <2>2, <2>4, <2>5, <2>6, <2>7, <2>8, RunMoves
  <2> QED
    BY <1>0, <2>7, <2>9 DEF At
<1>3. CASE RunAcquired(p)
  <2>1. run[p].pc = "acquiring" /\ run' = [run EXCEPT ![p].pc = "working"]
    BY <1>3 DEF RunAcquired
  <2>2. /\ run' = [run EXCEPT ![p] = run'[p]]
        /\ run'[p] = [run[p] EXCEPT !.pc = "working"]
    BY <1>0, <2>1
  <2>3. run'[p] \in RunType /\ run'[p].pc = "working" /\ run'[p].lock = run[p].lock
    BY <1>0, <2>2 DEF RunType
  <2>4. run' \in [Runs -> RunType] /\ \A x \in Runs \ {p} : run'[x] = run[x]
    BY <1>0, <2>2, <2>3, RunTyped
  <2>5. /\ ~locked[run[p].lock] /\ locked' = [locked EXCEPT ![run[p].lock] = TRUE]
        /\ holders' = [holders EXCEPT ![run[p].lock] = @ \cup {p}]
    BY <1>3 DEF RunAcquired
  <2>6. LoginShape'
    BY <1>0, <2>4, <2>5 DEF LoginShape, LoginTypeOK, sessionVars, Parties
  <2>8. run[p].lock = t /\ t \in LockObjects /\ t # NoLock
    BY <1>0 DEF InvAt, OneLock
  <2>9. InvAt(t)'
    BY <1>0, <1>1, <2>1, <2>3, <2>4, <2>5, <2>6, <2>8, RunMoves
  <2> QED
    BY <1>0, <2>6, <2>9 DEF At
<1> QED
  BY <1>2, <1>3 DEF RunStep

LEMMA RequestStepKeeps ==
  ASSUME OneAccount, PhoneOneByOne, NEW t, At(t), NEW r \in Requests, RequestStep(r)
  PROVE  LoginInv'
<1>0. /\ LoginShape /\ InvAt(t) /\ Step(r, t) /\ qr \subseteq Requests
      /\ status \in [Requests -> {"waiting_scan", "scanned_wait_confirm", "password_required"}]
  BY DEF At, InvAt, LoginShape, LoginTypeOK
<1>1. CASE Swept(r)
  BY <1>1, SweptKeeps, InvIsAt DEF LoginInv, At
<1>2. CASE PurgeFirst(r) \/ CleanFirst(r)
  BY <1>2, PurgeFirstKeeps, CleanFirstKeeps
<1>3. CASE PurgeNext(r) \/ CleanNext(r) \/ GetsLock(r)
  BY <1>3, PurgeNextKeeps, CleanNextKeeps, GetsLockKeeps DEF LoginInv, At
<1>4. CASE PhoneFails(r) \/ QrTokenFails(r) \/ CodeSent(r) \/ QrShown(r)
  BY <1>4, OpenedKeeps DEF LoginInv, At
<1>5. CASE VerifyAccepted(r) \/ VerifyFails(r)
  <2>1. At(t)'
    BY <1>5, GoesKeeps DEF VerifyAccepted, VerifyFails
  <2> QED
    BY <2>1 DEF LoginInv, At
<1>6. CASE PollAccepted(r) \/ PasswordAccepted(r)
  <2>1. At(t)'
    BY <1>6, GoesKeeps DEF PollAccepted, PasswordAccepted, Asking
  <2> QED
    BY <2>1 DEF LoginInv, At
<1>7. CASE VerifyNeedsPassword(r) \/ PollAnswers(r) \/ PasswordAnswers(r)
  <2>1. /\ Answers(r) /\ req[r].pc \in {"verifying", "asking"}
        /\ UNCHANGED <<table, cached, locked, holders, phone, qr, lockOf, watch, run, overlap>>
    BY <1>7 DEF VerifyNeedsPassword, PollAnswers, PasswordAnswers, Asking, lockVars, sessionVars
  <2>2. status' \in [Requests -> {"waiting_scan", "scanned_wait_confirm", "password_required"}]
    BY <1>0, <1>7 DEF VerifyNeedsPassword, PollAnswers, PasswordAnswers, sessionVars
  <2>3. At(t)'
    BY <2>1, <2>2, AnswersKeeps DEF Owning
  <2> QED
    BY <2>3 DEF LoginInv, At
<1>8. CASE VerifyEnds(r)
  BY <1>8, VerifyEndsKeeps DEF LoginInv, At
<1>9. CASE PollFails(r) \/ PasswordFails(r) \/ QrEnds(r)
  <2>1. /\ CleanupQr(r, req[r].sess) /\ req[r].pc \in {"asking", "stored"}
        /\ req[r].op \in {"poll", "password"}
        /\ UNCHANGED <<lockVars, status, lockOf, run, overlap>>
    BY <1>9 DEF PollFails, PasswordFails, QrEnds, Asking
  <2>2. req[r].sess \in Requests /\ ~Phoner(r)
    BY <1>0, <2>1 DEF Step, Phoner
  <2>3. At(t)'
    BY <2>1, <2>2, CleanupKeeps
  <2> QED
    BY <2>3 DEF LoginInv, At
<1>10. CASE EndQr(r)
  BY <1>10, EndQrKeeps DEF LoginInv, At
<1> QED
  BY <1>1, <1>2, <1>3, <1>4, <1>5, <1>6, <1>7, <1>8, <1>9, <1>10 DEF RequestStep

LEMMA LoginKeeps ==
  ASSUME OneAccount, PhoneOneByOne, LoginInv, [Next]_vars
  PROVE  LoginInv'
<1>0. PICK t : At(t)
  BY InvIsAt
<1>a. ASSUME At(t)' PROVE LoginInv'
  BY <1>a DEF LoginInv, At
<1>1. ASSUME NEW r \in Requests, RequestStep(r)
      PROVE  LoginInv'
  BY <1>0, <1>1, RequestStepKeeps
<1>b. ASSUME NEW r \in Requests, Raises(r)
      PROVE  LoginInv'
  BY <1>0, <1>a, <1>b, RaisesKeeps
<1>2. ASSUME NEW r \in Requests, NEW a \in Accounts,
             Start(r, "phone", a) \/ Start(r, "qr", a) \/ Verify(r, a)
      PROVE  LoginInv'
  <2>1. ASSUME NEW op \in {"phone", "qr"}, Start(r, op, a)
        PROVE  LoginInv'
    BY <1>0, <1>a, <2>1, StartKeeps
  <2> QED
    BY <1>0, <1>2, <1>a, <2>1, VerifyKeeps
<1>3. ASSUME NEW r \in Requests, NEW s \in Requests,
             \/ Sweep(r, s) \/ PollFindsExpired(r, s) \/ Poll(r, s)
             \/ PasswordFindsExpired(r, s)
             \/ Password(r, s) \/ CancelQr(r, s)
      PROVE  LoginInv'
  <2>1. CASE Sweep(r, s)
    BY <1>0, <1>a, <2>1, SweepKeeps
  <2>2. CASE Poll(r, s) \/ Password(r, s)
    BY <1>0, <1>a, <2>2, PollKeeps
  <2>3. CASE PollFindsExpired(r, s) \/ PasswordFindsExpired(r, s) \/ CancelQr(r, s)
    <3>1. /\ req[r].pc = "none" /\ ~Phoner(r) /\ CleanupQr(r, s)
          /\ UNCHANGED <<lockVars, status, lockOf, run, overlap>>
      BY <2>3 DEF PollFindsExpired, PasswordFindsExpired, CancelQr, About, Arrives, Phoner, Busy
    <3> QED
      BY <1>0, <1>a, <3>1, CleanupKeeps
  <2> QED
    BY <1>3, <2>1, <2>2, <2>3
<1>4. ASSUME NEW s \in Requests, Scanned(s) \/ Expire(s) \/ Expired(s)
      PROVE  LoginInv'
  BY <1>0, <1>4, <1>a, WatcherKeeps
<1>5. ASSUME NEW p \in Runs, RunStep(p)
      PROVE  LoginInv'
  BY <1>0, <1>5, <1>a, RunStepKeeps
<1>6. ASSUME NEW p \in Runs, NEW a \in Accounts, RunStart(p, a)
      PROVE  LoginInv'
  BY <1>0, <1>6, RunStartKeeps
<1>7. CASE UNCHANGED vars
  <2>1. /\ UNCHANGED <<table, cached, locked, holders, phone, qr, lockOf, watch, req, run, overlap>>
        /\ status' = status
    BY <1>7 DEF vars, lockVars, sessionVars
  <2>2. status' \in [Requests -> {"waiting_scan", "scanned_wait_confirm", "password_required"}]
    BY <1>0, <2>1 DEF At, LoginShape, LoginTypeOK
  <2> QED
    BY <1>0, <1>a, <2>1, <2>2, UnchangedKeeps
<1> QED
  BY <1>1, <1>2, <1>3, <1>4, <1>5, <1>6, <1>7, <1>b DEF Next

LEMMA LoginStarts ==
  ASSUME OneAccount, Init
  PROVE  LoginInv
<1>1. Accounts = {Acct} /\ NoLock \notin LockObjects /\ NoSession \notin Requests
  BY TheAccount, Sorts
<1>2. NewRequest \in RequestType
  BY DEF NewRequest, RequestType
<1>3. LoginShape
  BY <1>2 DEF Init, LoginShape, LoginTypeOK, RunType, Parties
<1>4. /\ \A r \in Requests : /\ req[r].pc = "none" /\ req[r].op = "none" /\ req[r].lock = NoLock
                             /\ lockOf[r] = NoLock /\ watch[r] = "off"
      /\ \A p \in Runs : run[p].pc = "idle" /\ run[p].lock = NoLock
      /\ phone[Acct] = NoSession /\ qr = {} /\ cached[Acct] = NoLock /\ table[Acct] = NoLock
      /\ \A l \in LockObjects : holders[l] = {} /\ ~locked[l]
  BY <1>1 DEF Init, NewRequest
<1>5. \A r, s \in Requests : ~Ending(r, s) /\ ~Owns(s) /\ ~Kept(s) /\ ~Phoner(r)
  BY <1>1, <1>4 DEF Ending, Owns, Kept, Phoner, Busy
<1>6. Owners = {}
  BY <1>4, <1>5 DEF Owners
<1>7. InvAt(NoLock)
  BY <1>1, <1>4, <1>5, <1>6
     DEF InvAt, OneLock, Accounted, Sessions, Once, OnePhoner, Step
<1> QED
  BY <1>3, <1>4, <1>7 DEF LoginInv

(* Whoever believes to hold a lock owns the login that has it.              *)
LEMMA Exclusive ==
  ASSUME LoginInv
  PROVE  AccountIsExclusive
<1>1. PICK t \in LockObjects \cup {NoLock} : InvAt(t)
  BY DEF LoginInv
<1>2. \A l \in LockObjects : holders[l] \subseteq Owners
  BY <1>1, Sorts DEF InvAt, OneLock, Accounted
<1>3. Believers \subseteq Owners
  BY <1>2 DEF Believers
<1> QED
  BY <1>1, <1>3 DEF AccountIsExclusive, InvAt, Accounted

(* At most one login or sign run works on the account at any time, whatever *)
(* sweeps, cancellations, expiring codes and repeated starts do to the lock *)
(* that has no owner: if the requests about one phone login come one after  *)
(* the other (requests about QR logins may overlap).                        *)
THEOREM LoginsAreExclusive ==
  ASSUME OneAccount, PhoneOneByOne
  PROVE  Spec => []AccountIsExclusive
<1>1. Init => LoginInv
  BY LoginStarts
<1>2. LoginInv /\ [Next]_vars => LoginInv'
  BY LoginKeeps
<1>3. LoginInv => AccountIsExclusive
  BY Exclusive
<1> QED
  BY <1>1, <1>2, <1>3, PTL DEF Spec

-----------------------------------------------------------------------------
(* If nothing overlaps, a QR login that Telegram is asked about, or that    *)
(* is being written, stays in its store, and one request at a time does so. *)
Asked(r) ==
  req[r].pc = "asking" \/ (req[r].pc = "stored" /\ req[r].op \in {"poll", "password"})

QrAlone ==
  overlap = {} =>
    \A r \in Requests : Asked(r) =>
      /\ req[r].sess \in qr
      /\ \A q \in Requests : Asked(q) /\ req[q].sess = req[r].sess => q = r

LEMMA AskedKeeps ==
  ASSUME QrAlone, UNCHANGED overlap, NEW r \in Requests, Frame(r), NEW s, qr \ {s} \subseteq qr',
         overlap = {} => \A q \in Requests \ {r} : Asked(q) => req[q].sess # s,
         overlap = {} /\ Asked(r)' =>
           /\ req'[r].sess \in qr'
           /\ \A q \in Requests \ {r} : Asked(q) => req[q].sess # req'[r].sess
  PROVE  QrAlone'
BY DEF QrAlone, Asked, Frame

LEMMA UndisturbedAlone ==
  ASSUME overlap = {}, NEW s, NEW kind, Undisturbed(s, kind)
  PROVE  \A q \in Requests : Asked(q) => req[q].sess # s
BY DEF Undisturbed, Busy, Asked

(* Steps that are not about a QR login in its store.                        *)
LEMMA AskedElsewhere ==
  ASSUME LoginShape, QrAlone, UNCHANGED overlap, NEW r \in Requests, Frame(r), qr \subseteq qr', ~Asked(r)'
  PROVE  QrAlone'
<1>1. overlap = {} => \A q \in Requests \ {r} : Asked(q) => req[q].sess # NoSession
  BY Typed, Sorts DEF QrAlone
<1> QED
  BY <1>1, AskedKeeps

LEMMA AcquireMoves ==
  ASSUME LoginShape, NEW r \in Requests, NEW after, NEW party, NEW next \in RequestType,
         Acquire(r, after, party, next)
  PROVE  /\ Frame(r) /\ req'[r].pc \in {next.pc, "acquiring"}
         /\ req'[r].op = next.op /\ req'[r].sess = next.sess
<1>1. req' = [req EXCEPT ![r] = next] \/ req' = [req EXCEPT ![r] = [next EXCEPT !.pc = "acquiring"]]
  BY DEF Acquire
<1>2. Frame(r) /\ (req'[r] = next \/ req'[r] = [next EXCEPT !.pc = "acquiring"])
  BY <1>1, Typed DEF Frame
<1> QED
  BY <1>2 DEF RequestType

LEMMA AnswersAsked ==
  ASSUME LoginShape, NEW r \in Requests, Answers(r)
  PROVE  Frame(r) /\ ~Asked(r)'
<1>1. req[r] \in RequestType /\ Frame(r) /\ req'[r] = Answered(r)
  BY Typed DEF Answers, Frame
<1> QED
  BY <1>1 DEF Answered, RequestType, Asked

LEMMA PurgeAsked ==
  ASSUME LoginShape, NEW r \in Requests, NEW q \in RequestType, Purge(r, q)
  PROVE  Frame(r) /\ ~Asked(r)'
<1>1. CASE q.rest = {}
  <2> DEFINE next == [q EXCEPT !.pc = "opening", !.sess = NoSession]
  <2>1. next \in RequestType /\ next.pc = "opening" /\ Acquire(r, Now, r, next)
    BY <1>1 DEF Purge, RequestType
  <2> HIDE DEF next
  <2> QED
    BY <2>1, AcquireMoves DEF Asked
<1>2. CASE q.rest # {}
  <2>1. PICK a \in q.rest :
          req' = [req EXCEPT ![r] = [q EXCEPT !.pc = "purging", !.sess = phone[a], !.rest = @ \ {a}]]
    BY <1>2 DEF Purge
  <2>2. Frame(r) /\ req'[r] = [q EXCEPT !.pc = "purging", !.sess = phone[a], !.rest = @ \ {a}]
    BY <2>1, Typed DEF Frame
  <2> QED
    BY <2>2 DEF Asked, RequestType
<1> QED
  BY <1>1, <1>2

LEMMA CleanAsked ==
  ASSUME LoginShape, QrAlone, UNCHANGED overlap, NEW r \in Requests, NEW q \in RequestType, NEW after,
         Clean(r, q, after)
  PROVE  QrAlone'
<1>1. CASE q.rest \cap qr = {}
  <2> DEFINE next == [q EXCEPT !.pc = "opening", !.sess = NoSession]
  <2>1. next \in RequestType /\ next.pc = "opening" /\ Acquire(r, after, r, next) /\ qr' = qr
    BY <1>1 DEF Clean, RequestType
  <2> HIDE DEF next
  <2>2. Frame(r) /\ ~Asked(r)'
    BY <2>1, AcquireMoves DEF Asked
  <2> QED
    BY <2>1, <2>2, AskedElsewhere
<1>2. CASE q.rest \cap qr # {}
  <2>1. PICK s \in q.rest \cap qr :
          /\ Undisturbed(s, "qr") /\ Popped(s)
          /\ req' = [req EXCEPT ![r] = [q EXCEPT !.pc = "cleaning", !.sess = s, !.rest = @ \ {s}]]
    BY <1>2 DEF Clean
  <2>2. Frame(r) /\ req'[r] = [q EXCEPT !.pc = "cleaning", !.sess = s, !.rest = @ \ {s}]
    BY <2>1, Typed DEF Frame
  <2>3. req'[r].pc = "cleaning"
    BY <2>2 DEF RequestType
  <2>4. ~Asked(r)' /\ qr' = qr \ {s}
    BY <2>1, <2>3 DEF Asked, Popped
  <2> QED
    BY <2>1, <2>2, <2>4, AskedKeeps, UndisturbedAlone
<1> QED
  BY <1>1, <1>2

LEMMA CleanupAsked ==
  ASSUME LoginShape, QrAlone, UNCHANGED overlap, NEW r \in Requests, NEW s \in Requests, CleanupQr(r, s),
         overlap = {} => \A q \in Requests \ {r} : Asked(q) => req[q].sess # s
  PROVE  QrAlone'
<1>1. Frame(r) /\ ~Asked(r)' /\ qr' \in {qr, qr \ {s}}
  <2>1. CASE s \notin qr
    BY <2>1, AnswersAsked DEF CleanupQr
  <2>2. CASE s \in qr
    <3>1. req' = [req EXCEPT ![r].pc = "ending", ![r].sess = s] /\ qr' = qr \ {s}
      BY <2>2 DEF CleanupQr, Popped
    <3>2. req[r] \in RequestType /\ Frame(r) /\ req'[r] = [req[r] EXCEPT !.pc = "ending", !.sess = s]
      BY <3>1, Typed DEF Frame
    <3>3. req'[r].pc = "ending"
      BY <3>2 DEF RequestType
    <3> QED
      BY <3>1, <3>2, <3>3 DEF Asked
  <2> QED
    BY <2>1, <2>2
<1> QED
  BY <1>1, AskedKeeps

LEMMA FetchedTyped ==
  ASSUME OneAccount, LoginInv, NEW r \in Requests, req[r].pc = "sweep",
         table' = TableWith(req[r].acct)
  PROVE  table'[req[r].acct] \in LockObjects
<1>1. PICK t \in LockObjects \cup {NoLock} : LoginShape /\ t = table[Acct] /\ InvAt(t)
  BY DEF LoginInv
<1>2. req[r].acct = Acct
  BY <1>1 DEF InvAt, Step
<1> QED
  BY <1>1, <1>2, TableFilled

LEMMA RequestStepAsked ==
  ASSUME OneAccount, LoginInv, QrAlone, NEW r \in Requests, RequestStep(r)
  PROVE  QrAlone'
<1>0. /\ LoginShape /\ req \in [Requests -> RequestType] /\ req[r] \in RequestType
      /\ UNCHANGED overlap /\ qr \subseteq Requests
  BY Typed DEF LoginInv, RequestStep, Swept, PurgeFirst, PurgeNext, CleanFirst, CleanNext, GetsLock,
     PhoneFails, QrTokenFails, CodeSent, QrShown, VerifyAccepted, VerifyNeedsPassword,
     VerifyFails, VerifyEnds, PollAnswers, PollFails, PollAccepted, PasswordAnswers,
     PasswordFails, PasswordAccepted, QrEnds, EndQr
<1>1. PICK t \in LockObjects \cup {NoLock} : Step(r, t)
  BY DEF LoginInv, InvAt
<1>2. CASE Swept(r)
  <2>1. req' = [req EXCEPT ![r].pc = "sweep", ![r].sess = NoSession] /\ qr' = qr
    BY <1>2 DEF Swept, sessionVars
  <2>2. Frame(r) /\ req'[r] = [req[r] EXCEPT !.pc = "sweep", !.sess = NoSession]
    BY <1>0, <2>1 DEF Frame
  <2> QED
    BY <1>0, <2>1, <2>2, AskedElsewhere DEF Asked, RequestType
<1>3. CASE PurgeFirst(r)
  <2> DEFINE q == [req[r] EXCEPT !.lock = table'[req[r].acct], !.keys = LoginKeys,
                    !.rest = {a \in LoginKeys : <<req[r].acct, a>> \in StartsWith}]
  <2>1. Purge(r, q) /\ qr' = qr /\ table'[req[r].acct] \in LockObjects
    BY <1>3, FetchedTyped DEF PurgeFirst
  <2>2. q \in RequestType
    BY <1>0, <2>1 DEF RequestType, LoginKeys
  <2> HIDE DEF q
  <2> QED
    BY <1>0, <2>1, <2>2, PurgeAsked, AskedElsewhere
<1>4. CASE PurgeNext(r)
  <2>1. qr' = qr
    BY <1>4 DEF PurgeNext
  <2>2. CASE Answers(r)
    BY <1>0, <2>1, <2>2, AnswersAsked, AskedElsewhere
  <2>3. CASE Purge(r, [req[r] EXCEPT !.rest = @ \cap LoginKeys])
    <3>1. [req[r] EXCEPT !.rest = @ \cap LoginKeys] \in RequestType
      BY <1>0 DEF RequestType
    <3> QED
      BY <1>0, <2>1, <2>3, <3>1, PurgeAsked, AskedElsewhere
  <2> QED
    BY <1>4, <2>2, <2>3 DEF PurgeNext
<1>5. CASE CleanFirst(r)
  <2> DEFINE old == {s \in qr : req[s].acct = req[r].acct}
             q == [req[r] EXCEPT !.lock = table'[req[r].acct], !.rest = old]
  <2>1. Clean(r, q, Now) /\ table'[req[r].acct] \in LockObjects
    BY <1>5, FetchedTyped DEF CleanFirst
  <2>2. q \in RequestType
    BY <1>0, <2>1 DEF RequestType
  <2> HIDE DEF q
  <2> QED
    BY <1>0, <2>1, <2>2, CleanAsked
<1>6. CASE CleanNext(r)
  BY <1>0, <1>6, CleanAsked DEF CleanNext
<1>7. CASE GetsLock(r)
  <2>1. req[r].op \in {"phone", "qr"} /\ qr' = qr
    BY <1>1, <1>7 DEF Step, GetsLock, sessionVars
  <2>2. req' = [req EXCEPT ![r].pc = "opening"]
    <3>1. CASE req[r].op = "phone"
      BY <1>7, <3>1 DEF GetsLock
    <3>2. CASE req[r].op = "qr"
      BY <1>7, <3>2 DEF GetsLock
    <3> QED
      BY <2>1, <3>1, <3>2
  <2>3. Frame(r) /\ req'[r].pc = "opening"
    BY <1>0, <2>2 DEF Frame, RequestType
  <2> QED
    BY <1>0, <2>1, <2>3, AskedElsewhere DEF Asked
<1>8. CASE PhoneFails(r) \/ QrTokenFails(r) \/ CodeSent(r) \/ QrShown(r) \/ VerifyNeedsPassword(r)
           \/ VerifyEnds(r) \/ PollAnswers(r) \/ PasswordAnswers(r) \/ EndQr(r)
  <2>1. Answers(r) /\ qr \subseteq qr'
    BY <1>8 DEF PhoneFails, QrTokenFails, CodeSent, QrShown, VerifyNeedsPassword, VerifyEnds,
       PollAnswers, PasswordAnswers, EndQr, sessionVars
  <2> QED
    BY <1>0, <2>1, AnswersAsked, AskedElsewhere
<1>9. CASE VerifyAccepted(r) \/ VerifyFails(r)
  <2>1. qr' = qr /\ req[r].op = "verify" /\ (Goes(r, "stored") \/ Goes(r, "refused"))
    BY <1>1, <1>9 DEF VerifyAccepted, VerifyFails, Step, sessionVars
  <2>2. Frame(r) /\ req'[r].op = "verify" /\ req'[r].pc \in {"stored", "refused"}
    BY <1>0, <2>1 DEF Goes, Frame, RequestType
  <2> QED
    BY <1>0, <2>1, <2>2, AskedElsewhere DEF Asked
<1>10. CASE PollAccepted(r) \/ PasswordAccepted(r)
  <2>1. qr' = qr /\ Asked(r) /\ Goes(r, "stored")
    BY <1>10 DEF PollAccepted, PasswordAccepted, Asking, Asked, sessionVars
  <2>2. Frame(r) /\ req'[r].sess = req[r].sess
    BY <1>0, <2>1 DEF Goes, Frame, RequestType
  <2>3. overlap = {} =>
          /\ req[r].sess \in qr
          /\ \A q \in Requests \ {r} : Asked(q) => req[q].sess # req[r].sess /\ req[q].sess # NoSession
    BY <1>0, <2>1, Sorts DEF QrAlone
  <2> QED
    BY <1>0, <2>1, <2>2, <2>3, AskedKeeps
<1>11. CASE PollFails(r) \/ PasswordFails(r) \/ QrEnds(r)
  <2>1. Asked(r) /\ CleanupQr(r, req[r].sess)
    BY <1>11 DEF PollFails, PasswordFails, QrEnds, Asking, Asked
  <2>2. req[r].sess \in Requests
    BY <1>1, <2>1 DEF Step, Asked
  <2>3. overlap = {} => \A q \in Requests \ {r} : Asked(q) => req[q].sess # req[r].sess
    BY <2>1 DEF QrAlone
  <2> QED
    BY <1>0, <2>1, <2>2, <2>3, CleanupAsked
<1> QED
  BY <1>2, <1>3, <1>4, <1>5, <1>6, <1>7, <1>8, <1>9, <1>10, <1>11 DEF RequestStep

LEMMA QrStaysAlone ==
  ASSUME OneAccount, LoginInv, QrAlone, [Next]_vars
  PROVE  QrAlone'
<1>0. /\ LoginShape /\ req \in [Requests -> RequestType] /\ qr \subseteq Requests
      /\ \A r \in Requests : req[r] \in RequestType
  BY Typed DEF LoginInv
<1>1. ASSUME NEW r \in Requests, RequestStep(r)
      PROVE  QrAlone'
  BY <1>1, RequestStepAsked
<1>a. ASSUME NEW r \in Requests, Raises(r)
      PROVE  QrAlone'
  <2>1. req' = [req EXCEPT ![r].pc = "raised"] /\ qr' = qr /\ UNCHANGED overlap
    BY <1>a DEF Raises, Goes, sessionVars
  <2>2. Frame(r) /\ req'[r] = [req[r] EXCEPT !.pc = "raised"]
    BY <1>0, <2>1 DEF Frame
  <2>3. req'[r].pc = "raised"
    BY <1>0, <2>2 DEF RequestType
  <2> QED
    BY <1>0, <2>1, <2>2, <2>3, AskedElsewhere DEF Asked
<1>2. ASSUME NEW r \in Requests, NEW a \in Accounts, NEW op \in {"phone", "qr"}, Start(r, op, a)
      PROVE  QrAlone'
  <2>1. /\ req' = [req EXCEPT ![r].op = op, ![r].acct = a, ![r].pc = "sweep"]
        /\ qr' = qr /\ UNCHANGED overlap
    BY <1>2 DEF Start, sessionVars
  <2>2. Frame(r) /\ req'[r] = [req[r] EXCEPT !.op = op, !.acct = a, !.pc = "sweep"]
    BY <1>0, <2>1 DEF Frame
  <2>3. req'[r].pc = "sweep"
    BY <1>0, <2>2 DEF RequestType
  <2> QED
    BY <1>0, <2>1, <2>2, <2>3, AskedElsewhere DEF Asked
<1>3. ASSUME NEW r \in Requests, NEW a \in Accounts, Verify(r, a)
      PROVE  QrAlone'
  <2> DEFINE q == [req[r] EXCEPT !.op = "verify", !.pc = "verifying", !.acct = a,
                                 !.sess = phone[a], !.lock = lockOf[phone[a]]]
  <2>1. qr' = qr /\ UNCHANGED overlap /\ phone[a] \in Requests
    BY <1>0, <1>3, Typed DEF Verify, sessionVars
  <2>2. q \in RequestType /\ q.pc = "verifying"
    <3>1. lockOf[phone[a]] \in LockObjects \cup {NoLock} /\ req[r] \in RequestType
      BY <1>0, <2>1, Typed
    <3> QED
      BY <2>1, <3>1 DEF RequestType
  <2>3. req' = [req EXCEPT ![r] = q] \/ Acquire(r, Now, phone[a], q)
    <3>1. q.sess = phone[a]
      BY <1>0 DEF RequestType
    <3> QED
      BY <1>3, <3>1 DEF Verify
  <2> HIDE DEF q
  <2>4. Frame(r) /\ req'[r].pc \in {"verifying", "acquiring"}
    <3>1. CASE req' = [req EXCEPT ![r] = q]
      BY <1>0, <2>2, <3>1 DEF Frame
    <3>2. CASE Acquire(r, Now, phone[a], q)
      BY <1>0, <2>2, <3>2, AcquireMoves
    <3> QED
      BY <2>3, <3>1, <3>2
  <2> QED
    BY <1>0, <2>1, <2>4, AskedElsewhere DEF Asked
<1>4. ASSUME NEW r \in Requests, NEW s \in Requests, Sweep(r, s)
      PROVE  QrAlone'
  <2>1. /\ req' = [req EXCEPT ![r].pc = "sweeping", ![r].sess = s]
        /\ qr' = qr \ {s} /\ UNCHANGED overlap
    BY <1>4 DEF Sweep, Popped
  <2>2. Frame(r) /\ req'[r] = [req[r] EXCEPT !.pc = "sweeping", !.sess = s]
    BY <1>0, <2>1 DEF Frame
  <2>3. req'[r].pc = "sweeping"
    BY <1>0, <2>2 DEF RequestType
  <2>4. overlap = {} => \A q \in Requests : Asked(q) => req[q].sess # s
    BY <1>4, UndisturbedAlone DEF Sweep
  <2>5. ~Asked(r)'
    BY <2>3 DEF Asked
  <2> QED
    BY <2>1, <2>2, <2>4, <2>5, AskedKeeps
<1>5. ASSUME NEW r \in Requests, NEW s \in Requests,
             PollFindsExpired(r, s) \/ PasswordFindsExpired(r, s) \/ CancelQr(r, s)
      PROVE  QrAlone'
  <2>1. CleanupQr(r, s) /\ Undisturbed(s, "qr") /\ UNCHANGED overlap
    BY <1>5 DEF PollFindsExpired, PasswordFindsExpired, CancelQr, About
  <2> QED
    BY <1>0, <2>1, CleanupAsked, UndisturbedAlone
<1>6. ASSUME NEW r \in Requests, NEW s \in Requests, Poll(r, s) \/ Password(r, s)
      PROVE  QrAlone'
  <2>1. s \in qr /\ qr' = qr /\ Undisturbed(s, "qr") /\ UNCHANGED overlap
    BY <1>6 DEF Poll, Password, About, sessionVars
  <2>2. Frame(r) /\ req'[r].sess = s
    <3>1. CASE Poll(r, s)
      <4>1. req' = [req EXCEPT ![r].op = "poll", ![r].pc = "asking", ![r].sess = s]
        BY <3>1 DEF Poll
      <4>2. Frame(r) /\ req'[r] = [req[r] EXCEPT !.op = "poll", !.pc = "asking", !.sess = s]
        BY <1>0, <4>1 DEF Frame
      <4> QED
        BY <1>0, <4>2 DEF RequestType
    <3>2. CASE Password(r, s)
      <4> DEFINE q == [req[r] EXCEPT !.op = "password", !.pc = "asking", !.sess = s,
                                     !.lock = lockOf[s]]
      <4>1. q \in RequestType /\ q.sess = s
        <5>1. lockOf[s] \in LockObjects \cup {NoLock} /\ req[r] \in RequestType
          BY <1>0, Typed
        <5> QED
          BY <5>1 DEF RequestType
      <4>2. req' = [req EXCEPT ![r] = q] \/ Acquire(r, Now, s, q)
        BY <3>2 DEF Password
      <4> HIDE DEF q
      <4>3. CASE req' = [req EXCEPT ![r] = q]
        BY <1>0, <4>1, <4>3 DEF Frame
      <4>4. CASE Acquire(r, Now, s, q)
        BY <1>0, <4>1, <4>4, AcquireMoves
      <4> QED
        BY <4>2, <4>3, <4>4
    <3> QED
      BY <1>6, <3>1, <3>2
  <2>3. overlap = {} => \A q \in Requests : Asked(q) => req[q].sess # s
    BY <2>1, UndisturbedAlone
  <2> QED
    BY <2>1, <2>2, <2>3, AskedKeeps
<1>7. ASSUME NEW s \in Requests, Expire(s)
      PROVE  QrAlone'
  <2>1. req' = req /\ qr' = qr \ {s} /\ UNCHANGED overlap /\ Undisturbed(s, "qr")
    BY <1>7 DEF Expire, Popped
  <2>2. overlap = {} => \A q \in Requests : Asked(q) => req[q].sess # s
    BY <2>1, UndisturbedAlone
  <2> QED
    BY <2>1, <2>2 DEF QrAlone, Asked
<1>8. CASE UNCHANGED <<req, qr, overlap>>
  BY <1>8 DEF QrAlone, Asked
<1>9. ASSUME NEW s \in Requests, Scanned(s) \/ Expired(s)
      PROVE  QrAlone'
  BY <1>8, <1>9 DEF Scanned, Expired
<1>10. ASSUME NEW p \in Runs, RunStep(p) \/ \E a \in Accounts : RunStart(p, a)
       PROVE  QrAlone'
  BY <1>8, <1>10 DEF RunStep, RunAcquired, RunEnds, RunStart, sessionVars
<1>11. CASE UNCHANGED vars
  BY <1>8, <1>11 DEF vars, sessionVars
<1> QED
  BY <1>1, <1>2, <1>3, <1>4, <1>5, <1>6, <1>7, <1>9, <1>10, <1>11, <1>a DEF Next

-----------------------------------------------------------------------------
(* What the invariant says of the locks and the logins.                    *)
LEMMA OwnerHolds ==
  ASSUME NEW t \in LockObjects \cup {NoLock}, InvAt(t), LoginShape,
         NEW s \in Requests, Owns(s), Kept(s)
  PROVE  locked[lockOf[s]] /\ s \in holders[lockOf[s]]
<1>1. lockOf[s] = t /\ locked[t]
  BY KeptIsLocked
<1>2. holders[t] = {s}
  BY EndingHasLock
<1> QED
  BY <1>1, <1>2

LEMMA LiveHolds ==
  ASSUME OneAccount, LoginInv
  PROVE  LiveSessionHoldsLock
<1>1. PICK t \in LockObjects \cup {NoLock} : LoginShape /\ InvAt(t)
  BY DEF LoginInv
<1> SUFFICES ASSUME NEW s \in Live,
                    \A r \in Busy : req[r].pc = "purging" => req[r].sess # s
             PROVE  locked[lockOf[s]] /\ s \in holders[lockOf[s]]
  BY DEF LiveSessionHoldsLock
<1>2. s \in Requests /\ (s \in qr \/ phone[Acct] = s)
  BY <1>1, TheAccount, Typed DEF Live, PhoneSessions
<1>3. ~Purged(s)
  BY DEF Purged, Busy
<1>4. Owns(s) /\ Kept(s)
  BY <1>2, <1>3 DEF Owns, Kept
<1> QED
  BY <1>1, <1>2, <1>4, OwnerHolds

LEMMA NobodyOrphaned ==
  ASSUME OneAccount, LoginInv
  PROVE  NoOrphanLock
<1>1. PICK t \in LockObjects \cup {NoLock} : LoginShape /\ InvAt(t)
  BY DEF LoginInv
<1> SUFFICES ASSUME NEW l \in LockObjects, locked[l]
             PROVE  WillRelease(l) \/ Lost(l)
  BY DEF NoOrphanLock
<1>2. l = t /\ t # NoLock
  BY <1>1, Sorts DEF InvAt, OneLock
<1>3. PICK o : o \in Owners
  BY <1>1, <1>2 DEF InvAt, Accounted
<1>4. CASE o \in Runs /\ run[o].pc = "working"
  BY <1>1, <1>2, <1>4 DEF WillRelease, InvAt, OneLock
<1>5. CASE o \in Requests /\ Owns(o)
  <2>1. CASE req[o].pc = "opening"
    BY <1>1, <1>2, <1>5, <2>1 DEF WillRelease, InvAt, Step, Busy
  <2>3. CASE req[o].pc = "raised"
    BY <1>1, <1>2, <1>5, <2>3 DEF Lost, Raised, InvAt, Step
  <2>2. CASE req[o].pc \notin {"opening", "raised"}
    <3>1. Kept(o)
      BY <1>5, <2>2 DEF Owns, Kept
    <3>2. lockOf[o] = l /\ o # NoSession
      BY <1>1, <1>2, <1>5, <3>1, Sorts DEF InvAt, Sessions
    <3>3. CASE o \in qr \/ phone[Acct] = o
      <4>1. o \in Live
        BY <3>2, <3>3, TheAccount DEF Live, PhoneSessions
      <4> QED
        BY <3>2, <4>1 DEF WillRelease
    <3>4. CASE watch[o] = "ending"
      BY <1>5, <3>2, <3>4 DEF WillRelease
    <3>5. CASE \E r \in Requests : Ending(r, o)
      BY <3>2, <3>5 DEF WillRelease, Ending, Busy
    <3> QED
      BY <3>1, <3>3, <3>4, <3>5 DEF Kept
  <2> QED
    BY <2>1, <2>2, <2>3
<1> QED
  BY <1>3, <1>4, <1>5 DEF Owners

LEMMA WriterHolds ==
  ASSUME LoginInv, QrAlone, NEW r \in Requests, overlap = {}, req[r].pc \in {"verifying", "asking"}
  PROVE  req[r].sess \in holders[lockOf[req[r].sess]]
<1>1. PICK t \in LockObjects \cup {NoLock} : LoginShape /\ InvAt(t)
  BY DEF LoginInv
<1> DEFINE s == req[r].sess
<1>2. CASE req[r].pc = "asking"
  <2>1. s \in qr /\ s \in Requests
    BY <1>1, <1>2, Typed DEF QrAlone, Asked
  <2>2. Owns(s) /\ Kept(s)
    BY <2>1 DEF Owns, Kept
  <2> QED
    BY <1>1, <2>1, <2>2, OwnerHolds
<1>3. CASE req[r].pc = "verifying"
  <2>1. Phoner(r) /\ s = phone[Acct] /\ s # NoSession
    BY <1>1, <1>3 DEF InvAt, Step, Phoner, Busy
  <2>2. req[r] \in RequestType
    BY <1>1, Typed
  <2>3. s \in Requests
    BY <2>1, <2>2 DEF RequestType
  <2>4. ~Purged(s)
    BY <1>1, <1>3, <2>1 DEF Purged, InvAt, OnePhoner, Step, Phoner, Busy
  <2>5. Owns(s) /\ Kept(s)
    BY <2>1, <2>4 DEF Owns, Kept
  <2> QED
    BY <1>1, <2>3, <2>5, OwnerHolds
<1> QED
  BY <1>2, <1>3

(* Locks and logins belong together: a login in a store holds the lock of   *)
(* its account until the next start takes it down, every lock that is       *)
(* locked has somebody who is going to release it or was lost by a start    *)
(* that raised, and a login is written while it holds the lock.             *)
THEOREM LocksFollow ==
  ASSUME OneAccount, PhoneOneByOne
  PROVE  Spec => LocksFollowLogins
<1> DEFINE Inv == LoginInv /\ QrAlone
           Holds == LoginTypeOK /\ LiveSessionHoldsLock /\ NoOrphanLock
           UnderLock == \A r \in Requests :
             (req[r].pc \in {"verifying", "asking"} /\ req'[r].pc = "stored" /\ overlap = {})
               => req[r].sess \in holders[lockOf[req[r].sess]]
<1>1. Init => Inv
  <2>1. ASSUME Init PROVE QrAlone
    <3>1. \A r \in Requests : req[r].pc = "none"
      BY <2>1 DEF Init, NewRequest
    <3> QED
      BY <3>1 DEF QrAlone, Asked
  <2> QED
    BY <2>1, LoginStarts
<1>2. Inv /\ [Next]_vars => Inv'
  BY LoginKeeps, QrStaysAlone
<1>3. Inv => Holds
  BY LiveHolds, NobodyOrphaned DEF LoginInv, LoginShape
<1>4. Inv /\ [Next]_vars => [UnderLock]_vars
  BY WriterHolds
<1>5. Spec => []Holds /\ [][UnderLock]_vars
  <2> HIDE DEF Inv, Holds, UnderLock
  <2> QED
    BY <1>1, <1>2, <1>3, <1>4, PTL DEF Spec
<1> QED
  BY <1>5 DEF LocksFollowLogins, WritesUnderLock
=============================================================================
