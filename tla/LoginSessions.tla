--------------------------- MODULE LoginSessions ---------------------------
(***************************************************************************)
(* Interactive logins by phone code and by QR code                         *)
(* (backend/services/telegram/login_phone.py, login_qr.py, sessions.py)    *)
(* and the sign runs they share the account locks with.  A login takes the *)
(* account lock in one HTTP request and gives it back in another one, or   *)
(* in a cleanup: the lock has no owner, whoever finds it locked can        *)
(* release it.  `holders` records who took each lock and has not given it  *)
(* back.                                                                   *)
(*                                                                         *)
(* A login session is named after the request that started it.            *)
(***************************************************************************)
EXTENDS Naturals, FiniteSets

CONSTANTS
  Accounts,
  N,            \* how many HTTP requests are made
  Runs,         \* sign runs
  LockObjects,
  MaxLocks,     \* _MAX_LOCKS
  StartsWith,   \* pairs <<a, b>>: a login key of b starts with "<a>_"
  Overlaps,     \* which kinds of login may get requests that overlap
  NoLock, NoSession

Requests == 1..N      \* in the order in which they arrive
Parties == Requests \cup Runs

ASSUME LoginAssumption ==
  /\ Requests \cap Runs = {}
  /\ N \in Nat
  /\ NoLock \notin LockObjects /\ LockObjects # {} /\ NoSession \notin Requests
  /\ MaxLocks \in Nat \ {0}
  /\ StartsWith \subseteq Accounts \X Accounts
  /\ \A a \in Accounts : <<a, a>> \in StartsWith
  /\ Overlaps \subseteq SUBSET {"phone", "qr"}

VARIABLES
  table,        \* _ACCOUNT_LOCKS
  cached,       \* SignTaskService._account_locks
  locked,       \* asyncio.Lock._locked of each lock object
  phone,        \* _login_sessions: the session of each account
  qr,           \* _qr_login_sessions
  status,       \* data["status"] of a QR session
  lockOf,       \* value["lock"] of a session
  watch,        \* the expire_task of each QR session
  req,          \* the requests: what each does, for whom and where it is
  run,          \* the sign runs
  holders,      \* who took each lock object and has not given it back (not in the code)
  overlap       \* an element of Overlaps

lockVars == <<table, cached, locked, holders>>
sessionVars == <<phone, qr, status, lockOf, watch>>
vars == <<lockVars, sessionVars, req, run, overlap>>

(* A request: what it does, where it is, for which account, the session it *)
(* works on or ends, the lock it fetched, what is left of a loop over old  *)
(* sessions, and the keys of the dictionary when that loop began.          *)
NewRequest == [op |-> "none", pc |-> "none", acct |-> "none",
               sess |-> NoSession, lock |-> NoLock, rest |-> {}, keys |-> {}]

LoginTypeOK ==
  /\ table \in [Accounts -> LockObjects \cup {NoLock}]
  /\ cached \in [Accounts -> LockObjects \cup {NoLock}]
  /\ locked \in [LockObjects -> BOOLEAN]
  /\ holders \in [LockObjects -> SUBSET Parties]
  /\ phone \in [Accounts -> Requests \cup {NoSession}]
  /\ qr \subseteq Requests
  /\ status \in [Requests -> {"waiting_scan", "scanned_wait_confirm", "password_required"}]
  /\ lockOf \in [Requests -> LockObjects \cup {NoLock}]
  /\ watch \in [Requests -> {"off", "on", "ending"}]
  /\ overlap \in Overlaps

Init ==
  /\ table = [a \in Accounts |-> NoLock]
  /\ cached = [a \in Accounts |-> NoLock]
  /\ locked = [l \in LockObjects |-> FALSE]
  /\ holders = [l \in LockObjects |-> {}]
  /\ phone = [a \in Accounts |-> NoSession]
  /\ qr = {}
  /\ status = [s \in Requests |-> "waiting_scan"]
  /\ lockOf = [s \in Requests |-> NoLock]
  /\ watch = [s \in Requests |-> "off"]
  /\ req = [r \in Requests |-> NewRequest]
  /\ run = [p \in Runs |-> [pc |-> "idle", acct |-> "none", lock |-> NoLock]]
  /\ overlap \in Overlaps

PhoneSessions == {phone[a] : a \in Accounts} \ {NoSession}
Live == PhoneSessions \cup qr
Arrives(r) == req[r].pc = "none" /\ \A q \in 1..(r - 1) : req[q].pc # "none"
Busy == {r \in Requests : req[r].pc \notin {"none", "done", "raised"}}

(* Requests about one login are processed one after the other, unless      *)
(* `overlap` allows otherwise: the end of a session is a request about it, *)
(* and so is the next start of a phone login of its account.               *)
Undisturbed(s, kind) ==
  kind \in overlap \/ \A r \in Busy : req[r].sess # s

Alone(a) ==
  "phone" \in overlap
    \/ \A r \in Busy : req[r].op \in {"phone", "verify"} => req[r].acct # a

-----------------------------------------------------------------------------
(* Locks                                                                   *)
Referenced ==
  {table[a] : a \in Accounts} \cup {cached[a] : a \in Accounts}
    \cup {lockOf[s] : s \in Requests} \cup {req[r].lock : r \in Requests}
    \cup {run[p].lock : p \in Runs}
NewLock == CHOOSE l \in LockObjects : l \notin Referenced

(* _prune_unlocked                                                         *)
Pruned == [a \in Accounts |->
             IF table[a] # NoLock /\ locked[table[a]] THEN table[a] ELSE NoLock]

(* get_account_lock: the lock table after the call.                        *)
TableWith(a) ==
  IF table[a] # NoLock THEN table
  ELSE LET full == Cardinality({b \in Accounts : table[b] # NoLock}) >= MaxLocks
       IN  [(IF full THEN Pruned ELSE table) EXCEPT ![a] = NewLock]

Waiting(l) ==
  \/ \E r \in Requests : req[r].pc = "acquiring" /\ req[r].lock = l
  \/ \E p \in Runs : run[p].pc = "acquiring" /\ run[p].lock = l

AtOnce(l) == ~locked[l] /\ ~Waiting(l)   \* acquire() does not suspend

Now == [locked |-> locked, holders |-> holders]

(* if lock.locked(): lock.release(), on behalf of session s                *)
Given(s) ==
  [locked  |-> [locked EXCEPT ![lockOf[s]] = FALSE],
   holders |-> [holders EXCEPT ![lockOf[s]] = @ \ {s}]]

Locks(after) == locked' = after.locked /\ holders' = after.holders

(* await lock.acquire() by request r for `party`, after a release in the   *)
(* same step; `next` is the request when it has the lock.                  *)
Acquire(r, after, party, next) ==
  IF ~after.locked[next.lock] /\ ~Waiting(next.lock)
    THEN /\ locked' = [after.locked EXCEPT ![next.lock] = TRUE]
         /\ holders' = [after.holders EXCEPT ![next.lock] = @ \cup {party}]
         /\ req' = [req EXCEPT ![r] = next]
    ELSE /\ Locks(after)
         /\ req' = [req EXCEPT ![r] = [next EXCEPT !.pc = "acquiring"]]

(* A waiting request has the lock: a start for itself, verify_login and    *)
(* submit_qr_password for their session, should they have found its lock   *)
(* free.                                                                   *)
GetsLock(r) ==
  LET op == req[r].op
      goesOn == [phone |-> "opening", qr |-> "opening", verify |-> "verifying",
                 password |-> "asking"] IN
  /\ req[r].pc = "acquiring"
  /\ ~locked[req[r].lock]
  /\ locked' = [locked EXCEPT ![req[r].lock] = TRUE]
  /\ holders' = [holders EXCEPT ![req[r].lock] =
                   @ \cup {IF op \in {"phone", "qr"} THEN r ELSE req[r].sess}]
  /\ req' = [req EXCEPT ![r].pc = goesOn[op]]
  /\ UNCHANGED <<table, cached, sessionVars, run, overlap>>

Answered(r) == [req[r] EXCEPT !.pc = "done", !.lock = NoLock, !.sess = NoSession,
                              !.rest = {}, !.keys = {}]
Answers(r) == req' = [req EXCEPT ![r] = Answered(r)]
Goes(r, pc) == req' = [req EXCEPT ![r].pc = pc]

-----------------------------------------------------------------------------
(* start_login and start_qr_login begin with                               *)
(* _cleanup_expired_login_sessions: it takes sessions that are too old, or *)
(* too many, from the store, disconnects each and releases its lock.       *)
Start(r, op, a) ==
  /\ Arrives(r)
  /\ op = "phone" => Alone(a)
  /\ req' = [req EXCEPT ![r].op = op, ![r].acct = a, ![r].pc = "sweep"]
  /\ UNCHANGED <<lockVars, sessionVars, run, overlap>>

Popped(s) ==
  /\ phone' = [a \in Accounts |-> IF phone[a] = s THEN NoSession ELSE phone[a]]
  /\ qr' = qr \ {s}

Sweep(r, s) ==
  /\ req[r].pc = "sweep"
  /\ s \in Live
  /\ Undisturbed(s, IF s \in qr THEN "qr" ELSE "phone")
  /\ Popped(s)
  /\ req' = [req EXCEPT ![r].pc = "sweeping", ![r].sess = s]
  /\ UNCHANGED <<lockVars, status, lockOf, watch, run, overlap>>

Swept(r) ==
  /\ req[r].pc = "sweeping"
  /\ Locks(Given(req[r].sess))
  /\ req' = [req EXCEPT ![r].pc = "sweep", ![r].sess = NoSession]
  /\ UNCHANGED <<table, cached, sessionVars, run, overlap>>

(* start_login: the old phone logins of the account, that is all whose key *)
(* starts with its name, give up their locks and are disconnected one by   *)
(* one, then dropped.  The loop breaks off if the dictionary has grown or  *)
(* shrunk meanwhile.                                                       *)
LoginKeys == {a \in Accounts : phone[a] # NoSession}

Purge(r, q) ==
  IF q.rest = {}
    THEN /\ phone' = [a \in Accounts |->
                        IF <<q.acct, a>> \in StartsWith /\ a \in q.keys
                          THEN NoSession ELSE phone[a]]
         /\ Acquire(r, Now, r, [q EXCEPT !.pc = "opening", !.sess = NoSession])
    ELSE \E a \in q.rest :
           /\ Undisturbed(phone[a], "phone")
           /\ Locks(Given(phone[a]))
           /\ req' = [req EXCEPT ![r] = [q EXCEPT !.pc = "purging", !.sess = phone[a],
                                                  !.rest = @ \ {a}]]
           /\ UNCHANGED phone

PurgeFirst(r) ==
  /\ req[r].pc = "sweep" /\ req[r].op = "phone"
  /\ table' = TableWith(req[r].acct)
  /\ Purge(r, [req[r] EXCEPT !.lock = table'[req[r].acct], !.keys = LoginKeys,
                !.rest = {a \in LoginKeys : <<req[r].acct, a>> \in StartsWith}])
  /\ UNCHANGED <<cached, qr, status, lockOf, watch, run, overlap>>

PurgeNext(r) ==
  /\ req[r].pc = "purging"
  /\ IF Cardinality(LoginKeys) # Cardinality(req[r].keys)
       THEN Answers(r) /\ UNCHANGED <<locked, holders, phone>>
       ELSE Purge(r, [req[r] EXCEPT !.rest = @ \cap LoginKeys])
  /\ UNCHANGED <<table, cached, qr, status, lockOf, watch, run, overlap>>

(* start_qr_login: _cleanup_qr_login of each old QR login of the account.  *)
Clean(r, q, after) ==
  IF q.rest \cap qr = {}
    THEN /\ Acquire(r, after, r, [q EXCEPT !.pc = "opening", !.sess = NoSession])
         /\ UNCHANGED <<phone, qr, watch>>
    ELSE \E s \in q.rest \cap qr :
           /\ Undisturbed(s, "qr")
           /\ Popped(s)
           /\ watch' = [watch EXCEPT ![s] = "off"]
           /\ Locks(after)
           /\ req' = [req EXCEPT ![r] = [q EXCEPT !.pc = "cleaning", !.sess = s,
                                                  !.rest = @ \ {s}]]

CleanFirst(r) ==
  /\ req[r].pc = "sweep" /\ req[r].op = "qr"
  /\ table' = TableWith(req[r].acct)
  /\ Clean(r, [req[r] EXCEPT !.lock = table'[req[r].acct],
                !.rest = {s \in qr : req[s].acct = req[r].acct}], Now)
  /\ UNCHANGED <<cached, status, lockOf, run, overlap>>

CleanNext(r) ==
  /\ req[r].pc = "cleaning"
  /\ Clean(r, req[r], Given(req[r].sess))
  /\ UNCHANGED <<table, cached, status, lockOf, run, overlap>>

(* The old client is closed, an await, and the new one is made: a proxy    *)
(* with an unusable port, the configuration or the constructor may raise   *)
(* here, between acquire() and the try.  The request ends with an error    *)
(* and nobody gives the lock back.                                         *)
Raises(r) ==
  /\ req[r].pc = "opening"
  /\ Goes(r, "raised")
  /\ UNCHANGED <<lockVars, sessionVars, run, overlap>>

(* With the lock it connects a client and asks for a code or a token.  If  *)
(* that fails it disconnects and releases the lock, whoever has it now.    *)
Abandon(r) ==
  /\ locked' = [locked EXCEPT ![req[r].lock] = FALSE]
  /\ holders' = [holders EXCEPT ![req[r].lock] = @ \ {r}]

PhoneFails(r) ==
  /\ req[r].pc = "opening" /\ req[r].op = "phone"
  /\ Answers(r)
  /\ Abandon(r)
  /\ UNCHANGED <<table, cached, sessionVars, run, overlap>>

QrTokenFails(r) ==
  /\ req[r].pc = "opening" /\ req[r].op = "qr"
  /\ Answers(r)
  /\ Abandon(r)
  /\ UNCHANGED <<table, cached, sessionVars, run, overlap>>

CodeSent(r) ==
  /\ req[r].pc = "opening" /\ req[r].op = "phone"
  /\ phone' = [phone EXCEPT ![req[r].acct] = r]
  /\ lockOf' = [lockOf EXCEPT ![r] = req[r].lock]
  /\ Answers(r)
  /\ UNCHANGED <<lockVars, qr, status, watch, run, overlap>>

(* Mutant: no expire_task for the new session. *)
QrShownUnwatched(r) ==
  /\ req[r].pc = "opening" /\ req[r].op = "qr"
  /\ qr' = qr \cup {r}
  /\ lockOf' = [lockOf EXCEPT ![r] = req[r].lock]
  /\ Answers(r)
  /\ UNCHANGED <<lockVars, phone, status, watch, run, overlap>>

QrShown(r) ==
  /\ req[r].pc = "opening" /\ req[r].op = "qr"
  /\ qr' = qr \cup {r}
  /\ watch' = [watch EXCEPT ![r] = "on"]   \* create_logged_task(_expire_qr_login)
  /\ lockOf' = [lockOf EXCEPT ![r] = req[r].lock]
  /\ Answers(r)
  /\ UNCHANGED <<lockVars, phone, status, run, overlap>>

-----------------------------------------------------------------------------
(* verify_login                                                            *)
Verify(r, a) ==
  /\ Arrives(r)
  /\ phone[a] # NoSession
  /\ Alone(a) /\ Undisturbed(phone[a], "phone")
  /\ LET q == [req[r] EXCEPT !.op = "verify", !.pc = "verifying", !.acct = a,
                             !.sess = phone[a], !.lock = lockOf[phone[a]]]
     IN  IF locked[q.lock]
           THEN req' = [req EXCEPT ![r] = q] /\ UNCHANGED <<locked, holders>>
           ELSE Acquire(r, Now, q.sess, q)
  /\ UNCHANGED <<table, cached, sessionVars, run, overlap>>

(* The session is written to the account store, then the client is         *)
(* disconnected.                                                           *)
VerifyAccepted(r) ==
  /\ req[r].pc = "verifying"
  /\ Goes(r, "stored")
  /\ UNCHANGED <<lockVars, sessionVars, run, overlap>>

(* Mutant: the lock is released although the session stays. *)
VerifyNeedsPasswordReleases(r) ==
  /\ req[r].pc = "verifying"
  /\ Locks(Given(req[r].sess))
  /\ Answers(r)
  /\ UNCHANGED <<table, cached, sessionVars, run, overlap>>

(* The 2FA password is missing: the session waits for the next request.    *)
VerifyNeedsPassword(r) ==
  /\ req[r].pc = "verifying"
  /\ Answers(r)
  /\ UNCHANGED <<lockVars, sessionVars, run, overlap>>

VerifyFails(r) ==
  /\ req[r].pc = "verifying"
  /\ Goes(r, "refused")
  /\ UNCHANGED <<lockVars, sessionVars, run, overlap>>

(* Mutant: the session is dropped and its lock kept. *)
VerifyEndsHolding(r) ==
  /\ req[r].op = "verify" /\ req[r].pc \in {"stored", "refused"}
  /\ phone' = [phone EXCEPT ![req[r].acct] = NoSession]
  /\ Answers(r)
  /\ UNCHANGED <<lockVars, qr, status, lockOf, watch, run, overlap>>

VerifyEnds(r) ==
  /\ req[r].op = "verify" /\ req[r].pc \in {"stored", "refused"}
  /\ phone' = [phone EXCEPT ![req[r].acct] = NoSession]   \* pop(session_key)
  /\ Locks(Given(req[r].sess))
  /\ Answers(r)
  /\ UNCHANGED <<table, cached, qr, status, lockOf, watch, run, overlap>>

-----------------------------------------------------------------------------
(* The QR session: the update handler, the status poll, the password, the  *)
(* cancellation and the expiry.  _cleanup_qr_login pops the session, stops *)
(* the client and releases the lock; without the session it does nothing.  *)
(* Mutant: the session is ended although somebody else popped it. *)
CleanupQrAgain(r, s) ==
  /\ Popped(s)
  /\ watch' = [watch EXCEPT ![s] = "off"]
  /\ req' = [req EXCEPT ![r].pc = "ending", ![r].sess = s]

CleanupQr(r, s) ==
  IF s \in qr
    THEN /\ Popped(s)
         /\ watch' = [watch EXCEPT ![s] = "off"]
         /\ req' = [req EXCEPT ![r].pc = "ending", ![r].sess = s]
    ELSE /\ Answers(r)
         /\ UNCHANGED <<phone, qr, watch>>

EndQr(r) ==
  /\ req[r].pc = "ending"
  /\ Locks(Given(req[r].sess))
  /\ Answers(r)
  /\ UNCHANGED <<table, cached, sessionVars, run, overlap>>

(* Mutant: a status nobody asks for. *)
ScannedAs(s) ==
  /\ s \in qr
  /\ status[s] = "waiting_scan"
  /\ status' = [status EXCEPT ![s] = "scanned"]
  /\ UNCHANGED <<lockVars, phone, qr, lockOf, watch, req, run, overlap>>

(* _raw_handler: UpdateLoginToken arrives.                                 *)
Scanned(s) ==
  /\ s \in qr
  /\ status[s] = "waiting_scan"
  /\ status' = [status EXCEPT ![s] = "scanned_wait_confirm"]
  /\ UNCHANGED <<lockVars, phone, qr, lockOf, watch, req, run, overlap>>

(* The token of a session that nobody scanned expires after 30 seconds;    *)
(* for the other ones the watcher goes on waiting.                         *)
Expire(s) ==
  /\ watch[s] = "on" /\ s \in qr
  /\ status[s] = "waiting_scan"
  /\ Undisturbed(s, "qr")
  /\ Popped(s)
  /\ watch' = [watch EXCEPT ![s] = "ending"]
  /\ UNCHANGED <<lockVars, status, lockOf, req, run, overlap>>

Expired(s) ==
  /\ watch[s] = "ending"
  /\ watch' = [watch EXCEPT ![s] = "off"]
  /\ Locks(Given(s))
  /\ UNCHANGED <<table, cached, phone, qr, status, lockOf, req, run, overlap>>

About(r, s) ==
  /\ Arrives(r)
  /\ s \in qr
  /\ Undisturbed(s, "qr")

(* get_qr_login_status: the token has expired, or the phone confirmed the  *)
(* scan, or it is not known yet and Telegram is asked again.               *)
PollFindsExpired(r, s) ==
  /\ About(r, s)
  /\ status[s] = "waiting_scan"
  /\ CleanupQr(r, s)
  /\ UNCHANGED <<lockVars, status, lockOf, run, overlap>>

Poll(r, s) ==
  /\ About(r, s)
  /\ status[s] = "scanned_wait_confirm"
  /\ req' = [req EXCEPT ![r].op = "poll", ![r].pc = "asking", ![r].sess = s]
  /\ UNCHANGED <<lockVars, sessionVars, run, overlap>>

Asking(r, op) == req[r].op = op /\ req[r].pc = "asking"

(* Not confirmed yet, or confirmed and a password is needed; the data is   *)
(* changed although the session may be gone from the store.                *)
PollAnswers(r) ==
  /\ Asking(r, "poll")
  /\ \/ UNCHANGED status
     \/ status' = [status EXCEPT ![req[r].sess] = "password_required"]
  /\ Answers(r)
  /\ UNCHANGED <<lockVars, phone, qr, lockOf, watch, run, overlap>>

PollFails(r) ==
  /\ Asking(r, "poll")
  /\ CleanupQr(r, req[r].sess)
  /\ UNCHANGED <<lockVars, status, lockOf, run, overlap>>

(* _finalize_qr_login: the session is written, then cleaned up.            *)
PollAccepted(r) ==
  /\ Asking(r, "poll")
  /\ Goes(r, "stored")
  /\ UNCHANGED <<lockVars, sessionVars, run, overlap>>

(* _finalize_qr_login_success                                              *)
QrEnds(r) ==
  /\ req[r].op \in {"poll", "password"} /\ req[r].pc = "stored"
  /\ CleanupQr(r, req[r].sess)
  /\ UNCHANGED <<lockVars, status, lockOf, run, overlap>>

(* submit_qr_password                                                      *)
PasswordFindsExpired(r, s) ==
  /\ About(r, s)
  /\ status[s] # "password_required"
  /\ CleanupQr(r, s)
  /\ UNCHANGED <<lockVars, status, lockOf, run, overlap>>

Password(r, s) ==
  /\ About(r, s)
  /\ LET q == [req[r] EXCEPT !.op = "password", !.pc = "asking", !.sess = s,
                             !.lock = lockOf[s]]
     IN  IF locked[q.lock]
           THEN req' = [req EXCEPT ![r] = q] /\ UNCHANGED <<locked, holders>>
           ELSE Acquire(r, Now, s, q)
  /\ UNCHANGED <<table, cached, sessionVars, run, overlap>>

(* The scan is not confirmed, or Telegram does not answer.                 *)
PasswordAnswers(r) ==
  /\ Asking(r, "password")
  /\ \/ UNCHANGED status
     \/ status' = [status EXCEPT ![req[r].sess] = "password_required"]
  /\ Answers(r)
  /\ UNCHANGED <<lockVars, phone, qr, lockOf, watch, run, overlap>>

(* A wrong password or a flood wait ends the session.                      *)
PasswordFails(r) ==
  /\ Asking(r, "password")
  /\ CleanupQr(r, req[r].sess)
  /\ UNCHANGED <<lockVars, status, lockOf, run, overlap>>

(* _finalize_qr_password_login, or ImportLoginToken found the login        *)
(* confirmed: the session is written, then cleaned up.                     *)
PasswordAccepted(r) ==
  /\ Asking(r, "password")
  /\ Goes(r, "stored")
  /\ UNCHANGED <<lockVars, sessionVars, run, overlap>>

CancelQr(r, s) ==
  /\ About(r, s)
  /\ CleanupQr(r, s)
  /\ UNCHANGED <<lockVars, status, lockOf, run, overlap>>

-----------------------------------------------------------------------------
(* A sign run keeps the lock object it once fetched for the account, and   *)
(* uses it in an `async with`.                                             *)
RunStart(p, a) ==
  /\ run[p].pc = "idle"
  /\ IF cached[a] = NoLock
       THEN /\ table' = TableWith(a)
            /\ cached' = [cached EXCEPT ![a] = table'[a]]
       ELSE UNCHANGED <<table, cached>>
  /\ LET l == cached'[a]
     IN  IF AtOnce(l)
           THEN /\ locked' = [locked EXCEPT ![l] = TRUE]
                /\ holders' = [holders EXCEPT ![l] = @ \cup {p}]
                /\ run' = [run EXCEPT ![p] = [pc |-> "working", acct |-> a, lock |-> l]]
           ELSE /\ run' = [run EXCEPT ![p] = [pc |-> "acquiring", acct |-> a, lock |-> l]]
                /\ UNCHANGED <<locked, holders>>
  /\ UNCHANGED <<sessionVars, req, overlap>>

RunAcquired(p) ==
  /\ run[p].pc = "acquiring"
  /\ ~locked[run[p].lock]
  /\ locked' = [locked EXCEPT ![run[p].lock] = TRUE]
  /\ holders' = [holders EXCEPT ![run[p].lock] = @ \cup {p}]
  /\ run' = [run EXCEPT ![p].pc = "working"]
  /\ UNCHANGED <<table, cached, sessionVars, req, overlap>>

RunEnds(p) ==
  /\ run[p].pc = "working"
  /\ locked' = [locked EXCEPT ![run[p].lock] = FALSE]
  /\ holders' = [holders EXCEPT ![run[p].lock] = @ \ {p}]
  /\ run' = [run EXCEPT ![p].pc = "done", ![p].lock = NoLock]
  /\ UNCHANGED <<table, cached, sessionVars, req, overlap>>

-----------------------------------------------------------------------------
RequestStep(r) ==
  \/ Swept(r) \/ PurgeFirst(r) \/ PurgeNext(r) \/ CleanFirst(r) \/ CleanNext(r)
  \/ GetsLock(r) \/ PhoneFails(r) \/ QrTokenFails(r)
  \/ CodeSent(r) \/ QrShown(r)
  \/ VerifyAccepted(r) \/ VerifyNeedsPassword(r)
  \/ VerifyFails(r) \/ VerifyEnds(r)
  \/ PollAnswers(r) \/ PollFails(r) \/ PollAccepted(r)
  \/ PasswordAnswers(r) \/ PasswordFails(r)
  \/ PasswordAccepted(r) \/ QrEnds(r) \/ EndQr(r)

RunStep(p) == RunAcquired(p) \/ RunEnds(p)

Next ==
  \/ \E r \in Requests :
       \/ RequestStep(r) \/ Raises(r)
       \/ \E a \in Accounts : Start(r, "phone", a) \/ Start(r, "qr", a) \/ Verify(r, a)
       \/ \E s \in Requests :
            \/ Sweep(r, s) \/ PollFindsExpired(r, s) \/ Poll(r, s)
            \/ PasswordFindsExpired(r, s)
            \/ Password(r, s) \/ CancelQr(r, s)
  \/ \E s \in Requests : Scanned(s) \/ Expire(s) \/ Expired(s)
  \/ \E p \in Runs : RunStep(p) \/ \E a \in Accounts : RunStart(p, a)

(* Handlers and watchers go on, asyncio locks wake their waiters in order. *)
Fairness ==
  /\ \A r \in Requests :
       /\ WF_vars(RequestStep(r))
       /\ SF_vars(GetsLock(r))
       /\ WF_vars(Expire(r) \/ Expired(r))
  /\ \A p \in Runs : SF_vars(RunAcquired(p)) /\ WF_vars(RunEnds(p))

Spec == Init /\ [][Next]_vars
FairSpec == Spec /\ Fairness
-----------------------------------------------------------------------------
AcctOf(p) == IF p \in Runs THEN run[p].acct ELSE req[p].acct
Raised == {r \in Requests : req[r].pc = "raised"}
Believers == UNION {holders[l] : l \in LockObjects} \ Raised

(* The code loses a lock when a start raises before its try.               *)
Lost(l) == \E r \in Raised : req[r].lock = l

(* At most one login or run works on an account at any time.               *)
AccountIsExclusive ==
  \A p, q \in Believers : AcctOf(p) = AcctOf(q) => p = q

(* A session in a store holds the lock of its account, up to the moment    *)
(* when the next start of the account takes it down.                       *)
LiveSessionHoldsLock ==
  \A s \in Live :
    (\A r \in Busy : req[r].pc = "purging" => req[r].sess # s)
      => locked[lockOf[s]] /\ s \in holders[lockOf[s]]

(* A lock that is locked has somebody who is going to release it, but for  *)
(* one that a start has lost.                                              *)
WillRelease(l) ==
  \/ \E s \in Live : lockOf[s] = l
  \/ \E s \in Requests : watch[s] = "ending" /\ lockOf[s] = l
  \/ \E r \in Busy : req[r].pc = "opening" /\ req[r].lock = l
  \/ \E r \in Busy :
       /\ req[r].pc \in {"sweeping", "cleaning", "ending", "stored", "refused", "verifying"}
       /\ req[r].sess # NoSession /\ lockOf[req[r].sess] = l
  \/ \E p \in Runs : run[p].pc = "working" /\ run[p].lock = l

NoOrphanLock == \A l \in LockObjects : locked[l] => WillRelease(l) \/ Lost(l)

(* A login writes the account, in store or session file, only while it     *)
(* holds the account's lock, if nobody interferes with it.                 *)
WritesUnderLock ==
  [][\A r \in Requests :
       (req[r].pc \in {"verifying", "asking"} /\ req'[r].pc = "stored" /\ overlap = {})
         => req[r].sess \in holders[lockOf[req[r].sess]]]_vars

(* Whoever waits for an account gets it, unless from some time on there is *)
(* always a login that waits for its user: for a code, or for the phone    *)
(* to confirm a scan, or a start has lost the lock.  An unscanned QR code  *)
(* never keeps an account.                                                 *)
AwaitsUser ==
  PhoneSessions # {} \/ \E s \in qr : status[s] # "waiting_scan"

AccountBecomesFree ==
  /\ \A p \in Runs :
       run[p].pc = "acquiring" ~>
         (run[p].pc # "acquiring" \/ []AwaitsUser \/ Lost(run[p].lock))
  /\ \A r \in Requests :
       req[r].pc = "acquiring" ~>
         (req[r].pc # "acquiring" \/ []AwaitsUser \/ Lost(req[r].lock))

(* Locks and logins belong together: no login without the lock of its      *)
(* account, no write without it, and no lock that nobody will release but  *)
(* one that a start has lost by raising.                                   *)
LocksFollowLogins ==
  [](LoginTypeOK /\ LiveSessionHoldsLock /\ NoOrphanLock) /\ WritesUnderLock
===========================================================================
