--------------------------- MODULE AlertDelivery ---------------------------
(***************************************************************************)
(* fire_alert of backend/services/alerts/dispatcher.py, called from many   *)
(* threads: a transaction on the persisted alerts state reserves the       *)
(* channels over which an event may be delivered, the channels are tried   *)
(* one after the other, and a second transaction records the outcome.      *)
(*                                                                         *)
(* Time is counted in ticks.  The clock is read before the lock of a       *)
(* transaction is taken, so a transaction may work with an old time, and a *)
(* call may outlive its own reservation: nothing bounds a wait or a send.  *)
(***************************************************************************)
EXTENDS Naturals, FiniteSets

CONSTANTS
  Events,     \* the calls of fire_alert
  Keys,       \* the rule and fingerprint an event can have
  About,      \* the key of each event
  Allowed,    \* the sets of channels that rule, settings and overrides may leave open
  Cooldown,   \* cooldown_minutes of the rules
  Backoff,    \* FAILED_RETRY_BACKOFF_SECONDS
  TTL,        \* IN_FLIGHT_TTL_SECONDS
  MaxTime,    \* bound on the clock
  NoEvent, Never

Channels == {"email", "telegram"}   \* DELIVERY_CHANNELS, email is first

StateKeyLimit == 512

ASSUME AlertAssumption ==
  /\ About \in [Events -> Keys]
  /\ Allowed \subseteq SUBSET Channels
  /\ NoEvent \notin Events
  /\ Never \notin Nat
  /\ {Cooldown, Backoff, TTL} \subseteq Nat \ {0}
  /\ MaxTime \in Nat

(* Saving keeps the newest 512 entries of each map: all of them here.      *)
ASSUME RoomAssumption == Cardinality(Keys \X Channels) <= StateKeyLimit

VARIABLES
  now,
  inFlight,      \* state["in_flight"]: the owner and time of a reservation
  lastSent,      \* state["last_sent"]
  lastAttempt,   \* state["last_attempt"]
  pc,            \* where each call is
  at,            \* reserved_at of each call
  completed,     \* completed_iso of each call
  outcome,       \* what each call did about each channel
  took,          \* when each call had its first transaction (not in the code)
  over           \* when each call came to its end (not in the code)

state == <<inFlight, lastSent, lastAttempt>>
history == <<took, over>>
vars == <<now, state, pc, at, completed, outcome, history>>

Slots == Keys \X Channels   \* _delivery_key
Slot(e, c) == <<About[e], c>>

Free == [token |-> NoEvent, at |-> 0]

Outcomes == {"none", "closed", "suppressed", "reserved", "sent", "failed"}
Pending == {"stamped", "delivering", "completed"}

TypeOK ==
  /\ now \in Nat
  /\ inFlight \in [Slots -> [token : Events \cup {NoEvent}, at : Nat]]
  /\ lastSent \in [Slots -> Nat \cup {Never}]
  /\ lastAttempt \in [Slots -> Nat \cup {Never}]
  /\ pc \in [Events -> {"new", "ended", "lost"} \cup Pending]
  /\ at \in [Events -> Nat]
  /\ completed \in [Events -> Nat]
  /\ outcome \in [Events -> [Channels -> Outcomes]]
  /\ took \in [Events -> Nat]
  /\ over \in [Events -> Nat]

Init ==
  /\ now = 0
  /\ inFlight = [s \in Slots |-> Free]
  /\ lastSent = [s \in Slots |-> Never]
  /\ lastAttempt = [s \in Slots |-> Never]
  /\ pc = [e \in Events |-> "new"]
  /\ at = [e \in Events |-> 0]
  /\ completed = [e \in Events |-> 0]
  /\ outcome = [e \in Events |-> [c \in Channels |-> "none"]]
  /\ took = [e \in Events |-> 0]
  /\ over = [e \in Events |-> 0]

-----------------------------------------------------------------------------
(* _within_window: a time that lies ahead of t is not within any window.   *)
Within(last, length, t) == last # Never /\ last <= t /\ t < last + length

(* Mutant: a reservation holds until its owner removes it. *)
ActiveForever(r, t) == r.token # NoEvent /\ r.at <= t

(* Mutant: the reservation expires with the retry backoff. *)
ActiveForBackoff(r, t) == r.token # NoEvent /\ Within(r.at, Backoff, t)

Active(r, t) == r.token # NoEvent /\ Within(r.at, TTL, t)

Suppressed(s, t) ==
  \/ Within(lastSent[s], Cooldown, t)
  \/ Active(inFlight[s], t)
  \/ Within(lastAttempt[s], Backoff, t)

Fire(e) ==
  /\ pc[e] = "new"
  /\ pc' = [pc EXCEPT ![e] = "stamped"]
  /\ at' = [at EXCEPT ![e] = now]
  /\ UNCHANGED <<now, state, completed, outcome, history>>

(* The first transaction: open are the channels that the rule, the global  *)
(* settings and the overrides of the caller allow.  Every reservation that *)
(* is not active at reserved_at goes, whoever it belongs to.               *)
Reserve(e) ==
  /\ pc[e] = "stamped"
  /\ \E open \in Allowed :
       LET reserved == {c \in open : ~Suppressed(Slot(e, c), at[e])}
           taken == {Slot(e, c) : c \in reserved}
       IN /\ outcome' = [outcome EXCEPT ![e] =
                [c \in Channels |-> IF c \in reserved THEN "reserved"
                                    ELSE IF c \in open THEN "suppressed"
                                    ELSE "closed"]]
          /\ inFlight' = [s \in Slots |->
                IF s \in taken THEN [token |-> e, at |-> at[e]]
                ELSE IF Active(inFlight[s], at[e]) THEN inFlight[s]
                ELSE Free]
          /\ lastAttempt' = [s \in Slots |->
                IF s \in taken THEN at[e] ELSE lastAttempt[s]]
          /\ pc' = [pc EXCEPT ![e] = IF reserved = {} THEN "ended"
                                     ELSE "delivering"]
          /\ over' = [over EXCEPT ![e] = IF reserved = {} THEN now ELSE @]
  /\ took' = [took EXCEPT ![e] = now]
  /\ UNCHANGED <<now, lastSent, at, completed>>

(* One channel is tried; the clock is read again after the last one.       *)
Send(e, c) ==
  /\ pc[e] = "delivering"
  /\ outcome[e][c] = "reserved"
  /\ c = "telegram" => outcome[e]["email"] # "reserved"
  /\ \E result \in {"sent", "failed"} :
       outcome' = [outcome EXCEPT ![e][c] = result]
  /\ IF \E d \in Channels \ {c} : outcome[e][d] = "reserved"
       THEN UNCHANGED <<pc, completed>>
       ELSE /\ pc' = [pc EXCEPT ![e] = "completed"]
            /\ completed' = [completed EXCEPT ![e] = now]
  /\ UNCHANGED <<now, state, at, history>>

SlotsWith(e, results) ==
  {Slot(e, c) : c \in {d \in Channels : outcome[e][d] \in results}}

(* Mutant: the times recorded are those of the reservation. *)
FinishAtReservation(e) ==
  /\ pc[e] = "completed"
  /\ inFlight' = [s \in Slots |->
        IF s \in SlotsWith(e, {"sent", "failed"}) /\ inFlight[s].token = e
        THEN Free ELSE inFlight[s]]
  /\ lastSent' = [s \in Slots |->
        IF s \in SlotsWith(e, {"sent"}) THEN at[e] ELSE lastSent[s]]
  /\ lastAttempt' = [s \in Slots |->
        IF s \in SlotsWith(e, {"failed"}) THEN at[e] ELSE lastAttempt[s]]
  /\ pc' = [pc EXCEPT ![e] = "ended"]
  /\ over' = [over EXCEPT ![e] = now]
  /\ UNCHANGED <<now, at, completed, outcome, took>>

(* The second transaction, which removes only the call's own reservations. *)
Finish(e) ==
  /\ pc[e] = "completed"
  /\ inFlight' = [s \in Slots |->
        IF s \in SlotsWith(e, {"sent", "failed"}) /\ inFlight[s].token = e
        THEN Free ELSE inFlight[s]]
  /\ lastSent' = [s \in Slots |->
        IF s \in SlotsWith(e, {"sent"}) THEN completed[e] ELSE lastSent[s]]
  /\ lastAttempt' = [s \in Slots |->
        IF s \in SlotsWith(e, {"failed"}) THEN completed[e] ELSE lastAttempt[s]]
  /\ pc' = [pc EXCEPT ![e] = "ended"]
  /\ over' = [over EXCEPT ![e] = now]
  /\ UNCHANGED <<now, at, completed, outcome, took>>

(* The file lock is not obtained in ten seconds: fire_alert raises.        *)
LockTimeout(e) ==
  /\ pc[e] \in {"stamped", "completed"}
  /\ pc' = [pc EXCEPT ![e] = "lost"]
  /\ over' = [over EXCEPT ![e] = now]
  /\ UNCHANGED <<now, state, at, completed, outcome, took>>

(* The process dies with its threads; the state is on disk. *)
Crash ==
  /\ \E e \in Events : pc[e] \in Pending
  /\ pc' = [e \in Events |-> IF pc[e] \in Pending THEN "lost" ELSE pc[e]]
  /\ over' = [e \in Events |-> IF pc[e] \in Pending THEN now ELSE over[e]]
  /\ UNCHANGED <<now, state, at, completed, outcome, took>>

Tick ==
  /\ now < MaxTime
  /\ now' = now + 1
  /\ UNCHANGED <<state, pc, at, completed, outcome, history>>

Next ==
  \/ \E e \in Events :
       \/ Fire(e)
       \/ Reserve(e)
       \/ \E c \in Channels : Send(e, c)
       \/ Finish(e)
       \/ LockTimeout(e)
  \/ Crash
  \/ Tick

Spec == Init /\ [][Next]_vars

-----------------------------------------------------------------------------
Delivering(e, c) == pc[e] = "delivering" /\ outcome[e][c] = "reserved"
Tried(e, c) == outcome[e][c] \in {"reserved", "sent", "failed"}

(* A call is late when its reservation expires before it has come to its   *)
(* end.                                                                    *)
EndOf(e) == IF pc[e] \in Pending THEN now ELSE over[e]
Late(e) == EndOf(e) >= at[e] + TTL

(* The call g works with a time that is older than what e has on record:   *)
(* the reservation, or the outcome.                                        *)
Ran(g) == \E c \in Channels : outcome[g][c] # "none"

Overtaken(e, g) ==
  /\ Ran(g)
  /\ \/ at[g] < at[e] /\ took[e] <= took[g]
     \/ pc[e] = "ended" /\ at[g] < completed[e] /\ over[e] <= took[g]

Disturbed(e) ==
  /\ \E c \in Channels : Tried(e, c)
  /\ Late(e) \/ \E g \in Events : Overtaken(e, g)

(* What the reservation is for: an event is not delivered twice at the     *)
(* same time over the same channel, unless one of the two calls is late or *)
(* another call's transaction worked with an older time.                   *)
OneDelivery ==
  \A e, f \in Events : \A c \in Channels :
    /\ e # f /\ About[e] = About[f]
    /\ Delivering(e, c) /\ Delivering(f, c)
    => Disturbed(e) \/ Disturbed(f)

(* Nobody is alerted again about an event during the cooldown that follows *)
(* a delivery whose outcome was recorded, nor is a failed delivery retried *)
(* before the backoff has passed, unless a call about the event was        *)
(* disturbed.                                                              *)
Spaced ==
  \A e, f \in Events : \A c \in Channels :
    /\ e # f /\ About[e] = About[f]
    /\ pc[e] = "ended" /\ outcome[e][c] \in {"sent", "failed"}
    /\ Tried(f, c) /\ at[f] >= completed[e]
    => \/ at[f] >= completed[e]
                     + (IF outcome[e][c] = "sent" THEN Cooldown ELSE Backoff)
       \/ \E x \in Events : About[x] = About[e] /\ Disturbed(x)

(* Silence is bounded: an alert is suppressed only if another one about    *)
(* the same event was sent within the cooldown, failed within the backoff, *)
(* or was reserved within the TTL, even by a process that has died.        *)
BoundedSilence ==
  \A e \in Events : \A c \in Channels :
    outcome[e][c] = "suppressed" =>
      \E f \in Events \ {e} :
        /\ About[f] = About[e]
        /\ Tried(f, c)
        /\ \/ outcome[f][c] = "sent" /\ Within(completed[f], Cooldown, at[e])
           \/ outcome[f][c] = "failed" /\ Within(completed[f], Backoff, at[e])
           \/ Within(at[f], TTL, at[e])
=============================================================================
