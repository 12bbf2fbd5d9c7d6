------------------------ MODULE AlertDeliveryProofs ------------------------
(***************************************************************************)
(* Theorems about AlertDelivery, for any waits, sends, losses and crashes: *)
(* the types; that a reservation keeps the other calls out and deliveries  *)
(* are spaced, but for calls that are late or overtaken; and that nobody   *)
(* is silenced without a reason.                                           *)
(***************************************************************************)
EXTENDS AlertDelivery, TLAPS

LEMMA SlotType == \A e \in Events, c \in Channels : Slot(e, c) \in Slots
BY AlertAssumption DEF Slot, Slots

LEMMA ReserveType ==
  ASSUME TypeOK, NEW e \in Events, Reserve(e)
  PROVE  TypeOK'
<1>1. PICK open \in Allowed :
        LET reserved == {c \in open : ~Suppressed(Slot(e, c), at[e])}
            taken == {Slot(e, c) : c \in reserved}
        IN /\ outcome' = [outcome EXCEPT ![e] =
                 [c \in Channels |-> IF c \in reserved THEN "reserved"
                                     ELSE IF c \in open THEN "suppressed"
                                     ELSE "closed"]]
           /\ inFlight' = [s \in Slots |->
                 IF s \in taken THEN [token |-> e, at |-> at[e]]
                 ELSE IF Active(inFlight[s], at[e]) THEN inFlight[s]
                 ELSE Free]
           /\ lastAttempt' = [s \in Slots |->
                 IF s \in taken THEN at[e] ELSE lastAttempt[s]]
           /\ pc' = [pc EXCEPT ![e] = IF reserved = {} THEN "ended"
                                      ELSE "delivering"]
           /\ over' = [over EXCEPT ![e] = IF reserved = {} THEN now ELSE @]
  BY DEF Reserve
<1>2. inFlight' \in [Slots -> [token : Events \cup {NoEvent}, at : Nat]]
  <2> SUFFICES ASSUME NEW s \in Slots
               PROVE inFlight'[s] \in [token : Events \cup {NoEvent}, at : Nat]
    BY <1>1, Zenon
  <2> QED
    BY <1>1 DEF TypeOK, Free
<1>3. outcome' \in [Events -> [Channels -> Outcomes]]
  BY <1>1 DEF TypeOK, Outcomes
<1>4. lastAttempt' \in [Slots -> Nat \cup {Never}]
  BY <1>1 DEF TypeOK
<1>5. pc' \in [Events -> {"new", "ended", "lost"} \cup Pending]
  BY <1>1 DEF TypeOK, Pending
<1>6. UNCHANGED <<now, lastSent, at, completed>> /\ took' \in [Events -> Nat]
  BY DEF Reserve, TypeOK
<1>7. over' \in [Events -> Nat]
  BY <1>1 DEF TypeOK
<1> QED
  BY <1>2, <1>3, <1>4, <1>5, <1>6, <1>7 DEF TypeOK

LEMMA FinishType ==
  ASSUME TypeOK, NEW e \in Events, Finish(e)
  PROVE  TypeOK'
<1>1. inFlight' \in [Slots -> [token : Events \cup {NoEvent}, at : Nat]]
  BY DEF TypeOK, Finish, Free
<1>2. /\ lastSent' \in [Slots -> Nat \cup {Never}]
      /\ lastAttempt' \in [Slots -> Nat \cup {Never}]
  BY DEF TypeOK, Finish
<1>3. pc' \in [Events -> {"new", "ended", "lost"} \cup Pending]
  BY DEF TypeOK, Finish, Pending
<1> QED
  BY <1>1, <1>2, <1>3 DEF TypeOK, Finish

LEMMA TypeStep == TypeOK /\ [Next]_vars => TypeOK'
<1> SUFFICES ASSUME TypeOK, [Next]_vars
             PROVE  TypeOK'
  OBVIOUS
<1>1. ASSUME NEW e \in Events, Fire(e) PROVE TypeOK'
  BY <1>1 DEF TypeOK, Fire, state, history, Pending
<1>2. ASSUME NEW e \in Events, NEW c \in Channels, Send(e, c) PROVE TypeOK'
  <2>1. outcome' \in [Events -> [Channels -> Outcomes]]
    BY <1>2 DEF TypeOK, Send, Outcomes
  <2>2. /\ pc' \in [Events -> {"new", "ended", "lost"} \cup Pending]
        /\ completed' \in [Events -> Nat]
    BY <1>2 DEF TypeOK, Send, Pending
  <2> QED
    BY <1>2, <2>1, <2>2 DEF TypeOK, Send, state, history
<1>3. ASSUME NEW e \in Events, LockTimeout(e) PROVE TypeOK'
  BY <1>3 DEF TypeOK, LockTimeout, state
<1>4. CASE Crash
  BY <1>4 DEF TypeOK, Crash, state
<1>5. CASE Tick
  BY <1>5 DEF TypeOK, Tick, state, history
<1>6. CASE UNCHANGED vars
  BY <1>6 DEF TypeOK, vars, state, history
<1> QED
  BY <1>1, <1>2, <1>3, <1>4, <1>5, <1>6, ReserveType, FinishType DEF Next

LEMMA TypeInit == Init => TypeOK
BY AlertAssumption DEF Init, TypeOK, Free, Outcomes, Pending

(* Every variable of fire_alert (alerts/dispatcher.py) keeps its type, the *)
(* persisted reservations and times included.                              *)
THEOREM TypeCorrect == Spec => []TypeOK
BY TypeInit, TypeStep, PTL DEF Spec

-----------------------------------------------------------------------------
(* The origin of what is on record about a slot: the call whose delivery   *)
(* or failure it is, or which reserved the slot.                           *)
TriedIn(f, s) == About[f] = s[1] /\ Tried(f, s[2])
EndedWith(f, s, result) == pc[f] = "ended" /\ outcome[f][s[2]] = result

Origin(s) ==
  /\ lastSent[s] # Never =>
       \E f \in Events :
         TriedIn(f, s) /\ EndedWith(f, s, "sent") /\ completed[f] = lastSent[s]
  /\ lastAttempt[s] # Never =>
       \E f \in Events :
         /\ TriedIn(f, s)
         /\ \/ EndedWith(f, s, "failed") /\ completed[f] = lastAttempt[s]
            \/ at[f] = lastAttempt[s]
  /\ inFlight[s].token # NoEvent =>
       \E f \in Events : TriedIn(f, s) /\ at[f] = inFlight[s].at

Untried ==
  \A e \in Events, c \in Channels :
    pc[e] \in {"new", "stamped"} => outcome[e][c] = "none"

(* No time is in the future.                                               *)
Past ==
  \A e \in Events :
    /\ at[e] <= now /\ took[e] <= now /\ over[e] <= now
    /\ pc[e] = "completed" => at[e] <= completed[e]

Sources == TypeOK /\ Untried /\ Past /\ \A s \in Slots : Origin(s)

(* What a call has done stays, with its times.                             *)
Lasting ==
  \A f \in Events :
    /\ pc[f] \notin {"new", "stamped"} =>
         /\ at'[f] = at[f] /\ took'[f] = took[f]
         /\ pc'[f] \notin {"new", "stamped"} /\ EndOf(f)' >= EndOf(f)
    /\ \A c \in Channels : Tried(f, c) => Tried(f, c)'
    /\ Ran(f) => Ran(f)'
    /\ pc[f] = "ended" => /\ pc'[f] = "ended" /\ outcome'[f] = outcome[f]
                          /\ completed'[f] = completed[f] /\ over'[f] = over[f]

(* The first transaction, for one call: what it takes was suppressed by    *)
(* nothing, and what is active stays with its owner.                       *)
Takes(g, s) == \E d \in Channels : s = Slot(g, d) /\ outcome'[g][d] = "reserved"
Keeps(g, s) ==
  /\ lastAttempt'[s] = lastAttempt[s] /\ inFlight'[s] \in {inFlight[s], Free}
  /\ Active(inFlight[s], at[g]) => inFlight'[s] = inFlight[s]

LEMMA ReserveOutcome ==
  ASSUME TypeOK, NEW e \in Events, Reserve(e)
  PROVE  /\ pc[e] = "stamped" /\ pc'[e] \in {"delivering", "ended"}
         /\ \A f \in Events : f # e => /\ pc'[f] = pc[f] /\ outcome'[f] = outcome[f]
                                      /\ took'[f] = took[f] /\ over'[f] = over[f]
         /\ now' = now /\ at' = at /\ completed' = completed /\ lastSent' = lastSent
         /\ took'[e] = now /\ over'[e] \in {over[e], now}
         /\ \A c \in Channels :
              /\ outcome'[e][c] \in {"reserved", "suppressed", "closed"}
              /\ outcome'[e][c] = "suppressed" => Suppressed(Slot(e, c), at[e])
              /\ outcome'[e][c] = "reserved" =>
                   /\ ~Suppressed(Slot(e, c), at[e])
                   /\ inFlight'[Slot(e, c)] = [token |-> e, at |-> at[e]]
                   /\ lastAttempt'[Slot(e, c)] = at[e]
         /\ \A s \in Slots : Takes(e, s) \/ Keeps(e, s)
<1>1. PICK open \in Allowed :
        LET reserved == {c \in open : ~Suppressed(Slot(e, c), at[e])}
            taken == {Slot(e, c) : c \in reserved}
        IN /\ outcome' = [outcome EXCEPT ![e] =
                 [c \in Channels |-> IF c \in reserved THEN "reserved"
                                     ELSE IF c \in open THEN "suppressed"
                                     ELSE "closed"]]
           /\ inFlight' = [s \in Slots |->
                 IF s \in taken THEN [token |-> e, at |-> at[e]]
                 ELSE IF Active(inFlight[s], at[e]) THEN inFlight[s]
                 ELSE Free]
           /\ lastAttempt' = [s \in Slots |->
                 IF s \in taken THEN at[e] ELSE lastAttempt[s]]
           /\ pc' = [pc EXCEPT ![e] = IF reserved = {} THEN "ended"
                                      ELSE "delivering"]
           /\ over' = [over EXCEPT ![e] = IF reserved = {} THEN now ELSE @]
  BY DEF Reserve
<1> DEFINE reserved == {c \in open : ~Suppressed(Slot(e, c), at[e])}
           taken == {Slot(e, c) : c \in reserved}
<1>2. /\ outcome' = [outcome EXCEPT ![e] =
            [c \in Channels |-> IF c \in reserved THEN "reserved"
                                ELSE IF c \in open THEN "suppressed"
                                ELSE "closed"]]
      /\ inFlight' = [s \in Slots |->
            IF s \in taken THEN [token |-> e, at |-> at[e]]
            ELSE IF Active(inFlight[s], at[e]) THEN inFlight[s]
            ELSE Free]
      /\ lastAttempt' = [s \in Slots |->
            IF s \in taken THEN at[e] ELSE lastAttempt[s]]
      /\ pc' = [pc EXCEPT ![e] = IF reserved = {} THEN "ended" ELSE "delivering"]
      /\ over' = [over EXCEPT ![e] = IF reserved = {} THEN now ELSE @]
  BY <1>1, Zenon
<1>3. \A c \in Channels : /\ c \in open /\ c \notin reserved => Suppressed(Slot(e, c), at[e])
                          /\ c \in reserved => ~Suppressed(Slot(e, c), at[e])
  OBVIOUS
<1>4. /\ \A s \in taken : \E c \in Channels : s = Slot(e, c) /\ c \in reserved
      /\ \A c \in reserved : Slot(e, c) \in taken
  BY AlertAssumption
<1> HIDE DEF reserved, taken
<1>5. \A c \in Channels :
        /\ outcome'[e][c] \in {"reserved", "suppressed", "closed"}
        /\ outcome'[e][c] = "suppressed" => c \in open /\ c \notin reserved
        /\ outcome'[e][c] = "reserved" <=> c \in reserved
  BY <1>2 DEF TypeOK
<1>6. ASSUME NEW c \in Channels
      PROVE  /\ outcome'[e][c] = "suppressed" => Suppressed(Slot(e, c), at[e])
             /\ outcome'[e][c] = "reserved" =>
                   /\ ~Suppressed(Slot(e, c), at[e])
                   /\ inFlight'[Slot(e, c)] = [token |-> e, at |-> at[e]]
                   /\ lastAttempt'[Slot(e, c)] = at[e]
  BY <1>2, <1>3, <1>4, <1>5, SlotType
<1>7. ASSUME NEW s \in Slots
      PROVE  Takes(e, s) \/ Keeps(e, s)
  BY <1>2, <1>4, <1>5 DEF Takes, Keeps
<1>8. /\ pc[e] = "stamped" /\ pc'[e] \in {"delivering", "ended"}
      /\ now' = now /\ at' = at /\ completed' = completed /\ lastSent' = lastSent
      /\ took' = [took EXCEPT ![e] = now]
  BY <1>2 DEF TypeOK, Reserve
<1>9. /\ took'[e] = now /\ over'[e] \in {over[e], now}
      /\ \A f \in Events : f # e => /\ pc'[f] = pc[f] /\ outcome'[f] = outcome[f]
                                 /\ took'[f] = took[f] /\ over'[f] = over[f]
  BY <1>2, <1>8 DEF TypeOK
<1> QED
  BY <1>5, <1>6, <1>7, <1>8, <1>9

(* The same facts, one at a time: the other calls, a channel, a slot.      *)
LEMMA ReserveOthers ==
  ASSUME TypeOK, NEW g \in Events, Reserve(g)
  PROVE  /\ \A f \in Events : f # g => /\ pc'[f] = pc[f] /\ outcome'[f] = outcome[f]
                                       /\ took'[f] = took[f] /\ over'[f] = over[f]
         /\ now' = now /\ at' = at /\ completed' = completed /\ lastSent' = lastSent
         /\ took'[g] = now /\ pc[g] = "stamped" /\ pc'[g] \in {"delivering", "ended"}
<1>1. ASSUME NEW f \in Events, f # g
      PROVE  /\ pc'[f] = pc[f] /\ outcome'[f] = outcome[f]
             /\ took'[f] = took[f] /\ over'[f] = over[f]
  BY <1>1, ReserveOutcome
<1>2. /\ now' = now /\ at' = at /\ completed' = completed /\ lastSent' = lastSent
      /\ pc[g] = "stamped" /\ pc'[g] \in {"delivering", "ended"} /\ took'[g] = now
  BY ReserveOutcome
<1> QED BY <1>1, <1>2

LEMMA ReserveChannel ==
  ASSUME TypeOK, NEW g \in Events, Reserve(g), NEW c \in Channels
  PROVE  /\ outcome'[g][c] \in {"reserved", "suppressed", "closed"}
         /\ outcome'[g][c] = "suppressed" => Suppressed(Slot(g, c), at[g])
         /\ outcome'[g][c] = "reserved" =>
              /\ ~Suppressed(Slot(g, c), at[g])
              /\ inFlight'[Slot(g, c)] = [token |-> g, at |-> at[g]]
              /\ lastAttempt'[Slot(g, c)] = at[g]
BY ReserveOutcome, Zenon

LEMMA ReserveSlot ==
  ASSUME TypeOK, NEW g \in Events, Reserve(g), NEW s \in Slots
  PROVE  Takes(g, s) \/ Keeps(g, s)
BY ReserveOutcome

(* No step takes back what a call has done.                                *)
LEMMA StepLasts ==
  ASSUME TypeOK, Untried, Past, [Next]_vars
  PROVE  Lasting /\ Untried' /\ Past'
<1>1. ASSUME NEW e \in Events, Fire(e) PROVE Lasting /\ Untried' /\ Past'
  <2>1. /\ pc[e] = "new" /\ pc' = [pc EXCEPT ![e] = "stamped"] /\ at' = [at EXCEPT ![e] = now]
        /\ UNCHANGED <<now, completed, outcome, took, over>> /\ now \in Nat
    BY <1>1 DEF Fire, TypeOK, history
  <2>2. Lasting
    BY <2>1 DEF TypeOK, Untried, Past, Lasting, Tried, Ran, EndOf, Pending
  <2>3. Untried' /\ Past'
    BY <2>1 DEF TypeOK, Untried, Past
  <2> QED BY <2>2, <2>3
<1>2. ASSUME NEW e \in Events, Reserve(e) PROVE Lasting /\ Untried' /\ Past'
  <2>0. /\ pc[e] = "stamped" /\ pc'[e] \in {"delivering", "ended"}
        /\ \A f \in Events : f # e => /\ pc'[f] = pc[f] /\ outcome'[f] = outcome[f]
                                     /\ took'[f] = took[f] /\ over'[f] = over[f]
        /\ now' = now /\ at' = at /\ completed' = completed
        /\ took'[e] = now /\ over'[e] \in {over[e], now} /\ now \in Nat
    BY <1>2, ReserveOutcome DEF TypeOK
  <2>1. Lasting
    <3> SUFFICES ASSUME NEW f \in Events
                 PROVE  /\ pc[f] \notin {"new", "stamped"} =>
                             /\ at'[f] = at[f] /\ took'[f] = took[f]
                             /\ pc'[f] \notin {"new", "stamped"} /\ EndOf(f)' >= EndOf(f)
                        /\ \A c \in Channels : Tried(f, c) => Tried(f, c)'
                        /\ Ran(f) => Ran(f)'
                        /\ pc[f] = "ended" => /\ pc'[f] = "ended" /\ outcome'[f] = outcome[f]
                                              /\ completed'[f] = completed[f] /\ over'[f] = over[f]
      BY DEF Lasting
    <3>1. CASE f = e
      BY <2>0, <3>1 DEF Untried, Tried, Ran
    <3>2. CASE f # e
      BY <2>0, <3>2 DEF TypeOK, Tried, Ran, EndOf
    <3> QED BY <3>1, <3>2
  <2>2. Untried' /\ Past'
    BY <2>0 DEF Untried, Past
  <2> QED BY <2>1, <2>2
<1>3. ASSUME NEW e \in Events, NEW c \in Channels, Send(e, c) PROVE Lasting /\ Untried' /\ Past'
  <2>1. /\ pc[e] = "delivering" /\ outcome[e][c] = "reserved"
        /\ \A f \in Events \ {e} : /\ pc'[f] = pc[f] /\ outcome'[f] = outcome[f]
                                   /\ completed'[f] = completed[f]
        /\ pc'[e] = "delivering" \/ (pc'[e] = "completed" /\ completed'[e] = now)
        /\ outcome'[e][c] \in {"sent", "failed"}
        /\ \A d \in Channels \ {c} : outcome'[e][d] = outcome[e][d]
        /\ UNCHANGED <<now, at, took, over>> /\ now \in Nat
    BY <1>3 DEF Send, TypeOK, history
  <2>2. Lasting
    <3> SUFFICES ASSUME NEW f \in Events
                 PROVE  /\ pc[f] \notin {"new", "stamped"} =>
                             /\ at'[f] = at[f] /\ took'[f] = took[f]
                             /\ pc'[f] \notin {"new", "stamped"} /\ EndOf(f)' >= EndOf(f)
                        /\ \A d \in Channels : Tried(f, d) => Tried(f, d)'
                        /\ Ran(f) => Ran(f)'
                        /\ pc[f] = "ended" => /\ pc'[f] = "ended" /\ outcome'[f] = outcome[f]
                                              /\ completed'[f] = completed[f] /\ over'[f] = over[f]
      BY DEF Lasting
    <3>1. CASE f = e
      BY <2>1, <3>1 DEF Tried, Ran, EndOf, Pending
    <3>2. CASE f # e
      BY <2>1, <3>2 DEF TypeOK, Tried, Ran, EndOf
    <3> QED BY <3>1, <3>2
  <2>3. Untried' /\ Past'
    BY <2>1 DEF Untried, Past
  <2> QED BY <2>2, <2>3
<1>4. ASSUME NEW e \in Events, Finish(e) PROVE Lasting /\ Untried' /\ Past'
  <2>1. /\ pc[e] = "completed" /\ pc' = [pc EXCEPT ![e] = "ended"]
        /\ over' = [over EXCEPT ![e] = now]
        /\ UNCHANGED <<now, at, completed, outcome, took>> /\ now \in Nat
    BY <1>4 DEF Finish, TypeOK
  <2>2. Lasting
    BY <2>1 DEF TypeOK, Lasting, Tried, Ran, EndOf, Pending
  <2>3. Untried' /\ Past'
    BY <2>1 DEF TypeOK, Untried, Past
  <2> QED BY <2>2, <2>3
<1>5. ASSUME NEW e \in Events, LockTimeout(e) PROVE Lasting /\ Untried' /\ Past'
  <2>1. /\ pc[e] \in {"stamped", "completed"} /\ pc' = [pc EXCEPT ![e] = "lost"]
        /\ over' = [over EXCEPT ![e] = now]
        /\ UNCHANGED <<now, at, completed, outcome, took>> /\ now \in Nat
    BY <1>5 DEF LockTimeout, TypeOK
  <2>2. Lasting
    BY <2>1 DEF TypeOK, Lasting, Tried, Ran, EndOf, Pending
  <2>3. Untried' /\ Past'
    BY <2>1 DEF TypeOK, Untried, Past
  <2> QED BY <2>2, <2>3
<1>6. CASE Crash
  <2>1. /\ pc' = [e \in Events |-> IF pc[e] \in Pending THEN "lost" ELSE pc[e]]
        /\ over' = [e \in Events |-> IF pc[e] \in Pending THEN now ELSE over[e]]
        /\ UNCHANGED <<now, at, completed, outcome, took>> /\ now \in Nat
    BY <1>6 DEF Crash, TypeOK
  <2>2. Lasting
    BY <2>1 DEF TypeOK, Lasting, Tried, Ran, EndOf, Pending
  <2>3. Untried' /\ Past'
    BY <2>1 DEF TypeOK, Untried, Past, Pending
  <2> QED BY <2>2, <2>3
<1>7. CASE Tick
  <2>1. now' = now + 1 /\ UNCHANGED <<pc, at, completed, outcome, took, over>> /\ now \in Nat
    BY <1>7 DEF Tick, TypeOK, history
  <2>2. Lasting
    BY <2>1 DEF TypeOK, Lasting, Tried, Ran, EndOf, Pending
  <2>3. Untried' /\ Past'
    BY <2>1 DEF TypeOK, Untried, Past
  <2> QED BY <2>2, <2>3
<1>8. CASE UNCHANGED vars
  <2>1. UNCHANGED <<now, pc, at, completed, outcome, took, over>> /\ now \in Nat
    BY <1>8 DEF vars, TypeOK, history
  <2>2. Lasting
    BY <2>1 DEF TypeOK, Lasting, Tried, Ran, EndOf, Pending
  <2>3. Untried' /\ Past'
    BY <2>1 DEF TypeOK, Untried, Past
  <2> QED BY <2>2, <2>3
<1> QED
  BY <1>1, <1>2, <1>3, <1>4, <1>5, <1>6, <1>7, <1>8 DEF Next

(* A reason stays a reason.                                                *)
LEMMA ReasonLasts ==
  ASSUME Sources, Lasting
  PROVE  \A f \in Events, s \in Slots :
           TriedIn(f, s) =>
             /\ TriedIn(f, s)' /\ at'[f] = at[f]
             /\ \A result : EndedWith(f, s, result) =>
                              EndedWith(f, s, result)' /\ completed'[f] = completed[f]
<1> TAKE f \in Events, s \in Slots
<1>1. s[2] \in Channels BY DEF Slots
<1> QED
  BY <1>1 DEF Sources, Untried, Lasting, TriedIn, EndedWith, Tried

(* The first transaction keeps what is on record or writes its own time,   *)
(* the second one records the outcome of its call.                         *)
LEMMA OriginStep ==
  ASSUME Sources, Lasting, [Next]_vars, NEW s \in Slots
  PROVE  Origin(s)'
<1>1. Origin(s) /\ s[2] \in Channels /\ s = <<s[1], s[2]>>
  BY DEF Sources, Slots
<1>2. ASSUME lastSent'[s] = lastSent[s], lastSent[s] # Never
      PROVE  \E f \in Events :
               TriedIn(f, s)' /\ EndedWith(f, s, "sent")' /\ completed'[f] = lastSent'[s]
  BY <1>1, <1>2, ReasonLasts DEF Origin
<1>3. ASSUME lastAttempt'[s] = lastAttempt[s], lastAttempt[s] # Never
      PROVE  \E f \in Events :
               /\ TriedIn(f, s)'
               /\ \/ EndedWith(f, s, "failed")' /\ completed'[f] = lastAttempt'[s]
                  \/ at'[f] = lastAttempt'[s]
  BY <1>1, <1>3, ReasonLasts DEF Origin
<1>4. ASSUME inFlight'[s] \in {inFlight[s], Free}, inFlight'[s].token # NoEvent
      PROVE  \E f \in Events : TriedIn(f, s)' /\ at'[f] = inFlight'[s].at
  BY <1>1, <1>4, ReasonLasts DEF Origin, Free
<1>5. CASE UNCHANGED state
  BY <1>2, <1>3, <1>4, <1>5 DEF state, Origin
<1>6. ASSUME NEW e \in Events, Reserve(e) PROVE Origin(s)'
  <2>0. TypeOK BY DEF Sources
  <2>1. lastSent' = lastSent /\ at' = at
    BY <1>6, <2>0, ReserveOthers
  <2>2. CASE lastAttempt'[s] = lastAttempt[s] /\ inFlight'[s] \in {inFlight[s], Free}
    BY <1>2, <1>3, <1>4, <2>1, <2>2 DEF Origin
  <2>3. CASE \E c \in Channels : s = Slot(e, c) /\ outcome'[e][c] = "reserved"
    <3>1. TriedIn(e, s)'
      BY <2>3 DEF TriedIn, Tried, Slot
    <3>2. lastAttempt'[s] = at[e] /\ inFlight'[s] = [token |-> e, at |-> at[e]]
      BY <1>6, <2>0, <2>3, ReserveChannel
    <3> QED BY <1>2, <2>1, <3>1, <3>2 DEF Origin
  <2>4. Takes(e, s) \/ Keeps(e, s)
    BY <1>6, <2>0, ReserveSlot
  <2> QED BY <2>2, <2>3, <2>4 DEF Takes, Keeps
<1>7. ASSUME NEW e \in Events, Finish(e) PROVE Origin(s)'
  <2>1. /\ pc'[e] = "ended" /\ outcome' = outcome /\ completed' = completed
        /\ inFlight'[s] \in {inFlight[s], Free}
        /\ lastSent'[s] = IF s \in SlotsWith(e, {"sent"}) THEN completed[e] ELSE lastSent[s]
        /\ lastAttempt'[s] = IF s \in SlotsWith(e, {"failed"}) THEN completed[e]
                             ELSE lastAttempt[s]
    BY <1>7 DEF Finish, Sources, TypeOK
  <2>2. ASSUME NEW result \in {"sent", "failed"}, s \in SlotsWith(e, {result})
        PROVE  TriedIn(e, s)' /\ EndedWith(e, s, result)'
    BY <2>1, <2>2 DEF SlotsWith, Slot, TriedIn, EndedWith, Tried
  <2>3. lastSent'[s] # Never =>
          \E f \in Events :
            TriedIn(f, s)' /\ EndedWith(f, s, "sent")' /\ completed'[f] = lastSent'[s]
    <3>1. CASE s \in SlotsWith(e, {"sent"}) BY <2>1, <2>2, <3>1
    <3>2. CASE s \notin SlotsWith(e, {"sent"}) BY <1>2, <2>1, <3>2
    <3> QED BY <3>1, <3>2
  <2>4. lastAttempt'[s] # Never =>
          \E f \in Events :
            /\ TriedIn(f, s)'
            /\ \/ EndedWith(f, s, "failed")' /\ completed'[f] = lastAttempt'[s]
               \/ at'[f] = lastAttempt'[s]
    <3>1. CASE s \in SlotsWith(e, {"failed"}) BY <2>1, <2>2, <3>1
    <3>2. CASE s \notin SlotsWith(e, {"failed"}) BY <1>3, <2>1, <3>2
    <3> QED BY <3>1, <3>2
  <2> QED BY <1>4, <2>1, <2>3, <2>4 DEF Origin
<1> QED
  BY <1>5, <1>6, <1>7 DEF Next, Fire, Send, LockTimeout, Crash, Tick, vars, state

-----------------------------------------------------------------------------
(* A call that has tried a channel and was late or overtaken stays so.     *)
LEMMA TriedIsOn ==
  ASSUME Untried, NEW e \in Events, NEW c \in Channels, Tried(e, c)
  PROVE  pc[e] \notin {"new", "stamped"}
BY DEF Untried, Tried

LEMMA StaysDisturbed ==
  ASSUME TypeOK, Untried, Lasting, TypeOK', NEW e \in Events, Disturbed(e)
  PROVE  Disturbed(e)'
<1>1. PICK c \in Channels : Tried(e, c)
  BY DEF Disturbed
<1>2. /\ Tried(e, c)' /\ at'[e] = at[e] /\ took'[e] = took[e] /\ EndOf(e)' >= EndOf(e)
      /\ pc[e] = "ended" =>
           pc'[e] = "ended" /\ completed'[e] = completed[e] /\ over'[e] = over[e]
  BY <1>1, TriedIsOn DEF Lasting
<1>3. /\ at[e] \in Nat /\ TTL \in Nat /\ EndOf(e) \in Nat /\ EndOf(e)' \in Nat
  BY AlertAssumption DEF TypeOK, EndOf
<1>4. ASSUME NEW g \in Events, Overtaken(e, g) PROVE Overtaken(e, g)'
  <2>1. Ran(g)
    BY <1>4 DEF Overtaken
  <2>2. pc[g] \notin {"new", "stamped"}
    BY <2>1 DEF Ran, Untried
  <2>3. Ran(g)' /\ at'[g] = at[g] /\ took'[g] = took[g]
    BY <2>1, <2>2 DEF Lasting
  <2> QED
    BY <1>2, <1>4, <2>3 DEF Overtaken
<1>5. Late(e) => Late(e)'
  BY <1>2, <1>3 DEF Late
<1> QED
  BY <1>2, <1>4, <1>5 DEF Disturbed

(* A call that is busy owns what it reserved until it has recorded the     *)
(* outcome, unless it is disturbed.                                        *)
Busy(e) == pc[e] \in {"delivering", "completed"}

Guarded(e, c) ==
  Busy(e) /\ Tried(e, c) /\ ~Disturbed(e)
    => inFlight[Slot(e, c)] = [token |-> e, at |-> at[e]]

Inv == Sources /\ \A e \in Events, c \in Channels : Guarded(e, c)

LEMMA InvExcludes == Inv => OneDelivery
<1> SUFFICES ASSUME Inv, NEW e \in Events, NEW f \in Events, NEW c \in Channels,
                    e # f, About[e] = About[f],
                    Delivering(e, c), Delivering(f, c), ~Disturbed(e), ~Disturbed(f)
             PROVE  FALSE
  BY DEF OneDelivery
<1>1. Slot(e, c) = Slot(f, c)
  BY DEF Slot
<1>2. /\ inFlight[Slot(e, c)] = [token |-> e, at |-> at[e]]
      /\ inFlight[Slot(f, c)] = [token |-> f, at |-> at[f]]
  BY Zenon DEF Inv, Guarded, Delivering, Busy, Tried
<1>3. inFlight[Slot(e, c)].token = e /\ inFlight[Slot(e, c)].token = f
  BY <1>1, <1>2
<1> QED
  BY <1>3

(* Who is not disturbed by the first transaction of g has nothing on       *)
(* record that is newer than the time g works with.                        *)
LEMMA NotOlder ==
  ASSUME Inv, NEW g \in Events, Reserve(g), NEW e \in Events \ {g}, NEW c \in Channels,
         Tried(e, c), ~Disturbed(e)'
  PROVE  /\ at[e] <= at[g] /\ (pc[e] = "ended" => completed[e] <= at[g])
         /\ Busy(e) => at[g] < at[e] + TTL
<1>0. TypeOK /\ Past BY DEF Inv, Sources
<1>1. /\ pc'[e] = pc[e] /\ outcome'[e] = outcome[e] /\ took'[e] = took[e] /\ over'[e] = over[e]
      /\ at' = at /\ completed' = completed /\ now' = now /\ took'[g] = now
      /\ \A d \in Channels : outcome'[g][d] \in {"reserved", "suppressed", "closed"}
  BY <1>0, ReserveOthers, ReserveChannel
<1>2. Ran(g)' /\ Tried(e, c)'
  BY <1>1 DEF Ran, Tried, Channels
<1>3. ~Overtaken(e, g)' /\ ~Late(e)'
  BY <1>2 DEF Disturbed
<1>4. /\ at[e] \in Nat /\ at[g] \in Nat /\ completed[e] \in Nat /\ took[e] <= now
      /\ over[e] <= now /\ at[g] <= now /\ now \in Nat /\ TTL \in Nat
  BY <1>0, AlertAssumption DEF TypeOK, Past
<1>5. at[e] <= at[g] /\ (pc[e] = "ended" => completed[e] <= at[g])
  BY <1>1, <1>2, <1>3, <1>4 DEF Overtaken
<1>6. Busy(e) => at[g] < at[e] + TTL
  BY <1>1, <1>3, <1>4 DEF Late, EndOf, Busy, Pending
<1> QED
  BY <1>5, <1>6

(* What such a call holds is active, hence suppressed for g, and its        *)
(* removal as stale is out of the question.                                 *)
LEMMA HeldIsActive ==
  ASSUME Inv, NEW g \in Events, Reserve(g), NEW e \in Events \ {g}, NEW c \in Channels,
         Busy(e), Tried(e, c), ~Disturbed(e), ~Disturbed(e)'
  PROVE  /\ inFlight[Slot(e, c)] = [token |-> e, at |-> at[e]]
         /\ Active(inFlight[Slot(e, c)], at[g]) /\ Suppressed(Slot(e, c), at[g])
<1>1. inFlight[Slot(e, c)] = [token |-> e, at |-> at[e]]
  BY DEF Inv, Guarded
<1>2. at[e] <= at[g] /\ at[g] < at[e] + TTL
  BY NotOlder
<1>3. at[e] \in Nat /\ at[e] # Never /\ e # NoEvent
  BY AlertAssumption DEF Inv, Sources, TypeOK
<1> QED
  BY <1>1, <1>2, <1>3 DEF Active, Within, Suppressed

(* The other steps try nothing and record nothing: what is tried, ended    *)
(* and busy afterwards was so before.                                      *)
Quiet ==
  /\ UNCHANGED state
  /\ \A e \in Events :
       /\ pc'[e] = "ended" => /\ pc[e] = "ended" /\ outcome'[e] = outcome[e]
       /\ Busy(e)' => Busy(e)
       /\ \A c \in Channels : Tried(e, c)' => Tried(e, c)

LEMMA QuietSteps ==
  ASSUME TypeOK, [Next]_vars, \A e \in Events : ~Reserve(e) /\ ~Finish(e)
  PROVE  Quiet
<1>1. ASSUME NEW e \in Events, Fire(e) PROVE Quiet
  BY <1>1 DEF Fire, TypeOK, Quiet, Busy, Tried
<1>2. ASSUME NEW e \in Events, NEW c \in Channels, Send(e, c) PROVE Quiet
  <2>1. /\ pc[e] = "delivering" /\ outcome[e][c] = "reserved"
        /\ \A f \in Events : f # e => pc'[f] = pc[f] /\ outcome'[f] = outcome[f]
        /\ pc'[e] \in {"delivering", "completed"} /\ UNCHANGED state
    BY <1>2 DEF Send, TypeOK
  <2>2. \A f \in Events, d \in Channels : Tried(f, d)' <=> Tried(f, d)
    BY <1>2 DEF Send, TypeOK, Tried
  <2>3. \A f \in Events : Busy(f)' => Busy(f)
    BY <2>1 DEF Busy
  <2> QED
    BY <2>1, <2>2, <2>3 DEF Quiet
<1>3. ASSUME NEW e \in Events, LockTimeout(e) PROVE Quiet
  BY <1>3 DEF LockTimeout, TypeOK, Quiet, Busy, Tried
<1>4. CASE Crash
  BY <1>4 DEF Crash, TypeOK, Quiet, Busy, Tried, Pending
<1>5. CASE Tick
  BY <1>5 DEF Tick, TypeOK, Quiet, Busy, Tried
<1>6. CASE UNCHANGED vars
  BY <1>6 DEF vars, Quiet, Busy, Tried
<1> QED
  BY <1>1, <1>2, <1>3, <1>4, <1>5, <1>6 DEF Next

LEMMA GuardedStep ==
  ASSUME Inv, Lasting, TypeOK', [Next]_vars, NEW e \in Events, NEW c \in Channels
  PROVE  Guarded(e, c)'
<1> SUFFICES ASSUME Busy(e)', Tried(e, c)', ~Disturbed(e)'
             PROVE  inFlight'[Slot(e, c)] = [token |-> e, at |-> at'[e]]
  BY DEF Guarded, Slot
<1>0. TypeOK /\ Untried /\ Slot(e, c) \in Slots
  BY SlotType DEF Inv, Sources
<1>1. ~Disturbed(e)
  BY <1>0, StaysDisturbed
<1>2. ASSUME Busy(e), Tried(e, c)
      PROVE  inFlight[Slot(e, c)] = [token |-> e, at |-> at[e]] /\ at'[e] = at[e]
  BY <1>0, <1>1, <1>2, TriedIsOn DEF Inv, Guarded, Lasting
<1>3. ASSUME NEW g \in Events, Reserve(g)
      PROVE  inFlight'[Slot(e, c)] = [token |-> e, at |-> at'[e]]
  <2>1. CASE g = e
    <3>1. /\ outcome'[e][c] \in {"reserved", "suppressed", "closed"} /\ at' = at
          /\ outcome'[e][c] = "reserved" =>
               inFlight'[Slot(e, c)] = [token |-> e, at |-> at[e]]
      BY <1>0, <1>3, <2>1, ReserveOthers, ReserveChannel
    <3> QED
      BY <3>1 DEF Tried
  <2>2. CASE g # e
    <3>1. pc'[e] = pc[e] /\ outcome'[e] = outcome[e] /\ at' = at
      BY <1>0, <1>3, <2>2, ReserveOthers
    <3>2. Busy(e) /\ Tried(e, c)
      BY <3>1 DEF Busy, Tried
    <3>3. /\ Active(inFlight[Slot(e, c)], at[g]) /\ Suppressed(Slot(e, c), at[g])
          /\ inFlight[Slot(e, c)] = [token |-> e, at |-> at[e]]
      BY <1>1, <1>3, <2>2, <3>2, HeldIsActive
    <3>4. Takes(g, Slot(e, c)) \/ Keeps(g, Slot(e, c))
      BY <1>0, <1>3, ReserveSlot
    <3>5. \A d \in Channels : outcome'[g][d] = "reserved" => ~Suppressed(Slot(g, d), at[g])
      BY <1>0, <1>3, ReserveChannel
    <3> QED
      BY <3>1, <3>3, <3>4, <3>5 DEF Takes, Keeps
  <2> QED
    BY <2>1, <2>2
<1>4. ASSUME NEW g \in Events, Finish(g)
      PROVE  inFlight'[Slot(e, c)] = [token |-> e, at |-> at'[e]]
  <2>1. e # g /\ Busy(e) /\ Tried(e, c) /\ at' = at
    BY <1>0, <1>4 DEF Finish, TypeOK, Busy, Tried
  <2>2. inFlight[Slot(e, c)] = [token |-> e, at |-> at[e]]
    BY <1>2, <2>1
  <2>3. inFlight[Slot(e, c)].token # g
    BY <2>1, <2>2
  <2> QED
    BY <1>0, <1>4, <2>1, <2>2, <2>3 DEF Finish
<1>5. CASE \A g \in Events : ~Reserve(g) /\ ~Finish(g)
  <2>1. Quiet BY <1>0, <1>5, QuietSteps
  <2> QED
    BY <1>2, <2>1 DEF Quiet, state
<1> QED
  BY <1>3, <1>4, <1>5

LEMMA SourcesStep == Sources /\ [Next]_vars => Sources' /\ Lasting
<1> SUFFICES ASSUME Sources, [Next]_vars PROVE Sources' /\ Lasting
  OBVIOUS
<1>1. TypeOK /\ Untried /\ Past BY DEF Sources
<1>2. TypeOK' /\ Untried' /\ Past' /\ Lasting
  BY <1>1, TypeStep, StepLasts
<1>3. \A s \in Slots : Origin(s)'
  BY <1>2, OriginStep
<1> QED
  BY <1>2, <1>3 DEF Sources

LEMMA SourcesInit == Init => Sources
BY TypeInit DEF Init, Sources, Untried, Past, Origin, Free, TypeOK

LEMMA InvStep == Inv /\ [Next]_vars => Inv'
<1> SUFFICES ASSUME Inv, [Next]_vars PROVE Inv'
  OBVIOUS
<1>1. Sources' /\ Lasting /\ TypeOK'
  BY SourcesStep DEF Inv, Sources
<1> QED
  BY <1>1, GuardedStep DEF Inv

LEMMA InvInit == Init => Inv
BY SourcesInit DEF Init, Inv, Guarded, Busy

(* The reservation of fire_alert (dispatcher.py:211-283) is exclusive:      *)
(* however the calls wait and overlap, whatever is lost, fails or crashes,  *)
(* an event is not delivered twice at once over a channel, unless one of    *)
(* the two calls has outlived its reservation or was overtaken by a call    *)
(* that worked with an older time.                                          *)
THEOREM Exclusive == Spec => []OneDelivery
BY InvInit, InvStep, InvExcludes, PTL DEF Spec


-----------------------------------------------------------------------------
(* The book of a key and a channel, as long as no call about the key has   *)
(* been disturbed: an attempt is on record until a newer one is; who is    *)
(* busy is the newest to have tried, and came after every outcome; an      *)
(* outcome is on record until a call came that kept its distance; and      *)
(* every later call kept it.                                               *)
Calls(k) == {e \in Events : About[e] = k}
Calm(k) == \A x \in Calls(k) : ~Disturbed(x)

Done(e, c) == pc[e] = "ended" /\ outcome[e][c] \in {"sent", "failed"}
Rest(e, c) == IF outcome[e][c] = "sent" THEN Cooldown ELSE Backoff

Known(e, c) ==
  Tried(e, c) => /\ lastAttempt[Slot(e, c)] # Never
                 /\ at[e] <= lastAttempt[Slot(e, c)]

Newest(e, f, c) == Busy(e) /\ Tried(e, c) /\ Tried(f, c) => at[f] < at[e]

Later(e, f, c) == Done(e, c) /\ Busy(f) /\ Tried(f, c) => completed[e] <= at[f]

Apart(e, f, c) ==
  Done(e, c) /\ Tried(f, c) /\ at[f] >= completed[e]
    => at[f] >= completed[e] + Rest(e, c)

Beyond(e, c) ==
  \E h \in Calls(About[e]) :
    h # e /\ Tried(h, c) /\ at[h] >= completed[e] + Rest(e, c)

Recorded(e, c) ==
  /\ Done(e, c) /\ outcome[e][c] = "sent" =>
       lastSent[Slot(e, c)] = completed[e] \/ Beyond(e, c)
  /\ Done(e, c) /\ outcome[e][c] = "failed" =>
       lastAttempt[Slot(e, c)] = completed[e] \/ Beyond(e, c)

Pair(e, f, c) == Newest(e, f, c) /\ Later(e, f, c) /\ Apart(e, f, c)

Book(k, c) ==
  \A e \in Calls(k) :
    /\ Known(e, c) /\ Recorded(e, c)
    /\ \A f \in Calls(k) : e # f => Pair(e, f, c)

Books == Inv /\ \A k \in Keys, c \in Channels : Calm(k) => Book(k, c)

LEMMA InCalls ==
  ASSUME NEW k \in Keys, NEW e \in Calls(k), NEW c \in Channels
  PROVE  e \in Events /\ About[e] = k /\ Slot(e, c) = <<k, c>> /\ <<k, c>> \in Slots
BY DEF Calls, Slot, Slots

LEMMA CallTypes ==
  ASSUME TypeOK, NEW e \in Events, NEW c \in Channels
  PROVE  /\ at[e] \in Nat /\ completed[e] \in Nat /\ Rest(e, c) \in Nat /\ Never \notin Nat
         /\ {Cooldown, Backoff, TTL} \subseteq Nat \ {0}
BY AlertAssumption DEF TypeOK, Rest

(* Whoever reserves comes after all that was tried, and keeps the distance *)
(* from every outcome.                                                     *)
LEMMA ReserverIsNewest ==
  ASSUME Inv, NEW g \in Events, Reserve(g), NEW c \in Channels, outcome'[g][c] = "reserved",
         Book(About[g], c), Calm(About[g])', NEW f \in Calls(About[g]), f # g, Tried(f, c)
  PROVE  at[f] < at[g]
<1> DEFINE k == About[g]
           s == <<About[g], c>>
<1>0. TypeOK /\ Untried /\ k \in Keys /\ g \in Calls(k) /\ s \in Slots /\ Slot(g, c) = s
  BY AlertAssumption, SlotType DEF Inv, Sources, Calls, Slot
<1>1. lastAttempt[s] # Never /\ at[f] <= lastAttempt[s]
  BY <1>0, InCalls DEF Book, Known
<1>2. ~Within(lastAttempt[s], Backoff, at[g])
  BY <1>0, ReserveChannel DEF Suppressed
<1>3. lastAttempt[s] <= at[g]
  <2>1. PICK x \in Events :
          /\ TriedIn(x, s)
          /\ \/ EndedWith(x, s, "failed") /\ completed[x] = lastAttempt[s]
             \/ at[x] = lastAttempt[s]
    BY <1>0, <1>1 DEF Inv, Sources, Origin
  <2>2. x \in Calls(k) /\ Tried(x, c)
    BY <2>1 DEF TriedIn, Calls
  <2>3. x # g
    BY <1>0, <2>2, ReserveOthers DEF Untried, Tried
  <2>4. ~Disturbed(x)'
    BY <2>2 DEF Calm, Calls
  <2> QED
    BY <2>1, <2>2, <2>3, <2>4, NotOlder DEF EndedWith
<1>4. lastAttempt[s] \in Nat
  BY <1>0, <1>1 DEF TypeOK
<1> QED
  BY <1>0, <1>1, <1>2, <1>3, <1>4, InCalls, CallTypes DEF Within

LEMMA ReserverKeepsDistance ==
  ASSUME Inv, NEW g \in Events, Reserve(g), NEW c \in Channels, outcome'[g][c] = "reserved",
         Book(About[g], c), Calm(About[g])', NEW e \in Calls(About[g]), e # g, Done(e, c)
  PROVE  at[g] >= completed[e] + Rest(e, c)
<1> DEFINE k == About[g]
           s == <<About[g], c>>
<1>0. TypeOK /\ Untried /\ k \in Keys /\ g \in Calls(k) /\ s \in Slots /\ Slot(g, c) = s
  BY AlertAssumption, SlotType DEF Inv, Sources, Calls, Slot
<1>1. Tried(e, c) /\ ~Disturbed(e)' /\ e \in Events /\ Slot(e, c) = s /\ pc[e] = "ended"
  BY <1>0, InCalls DEF Done, Tried, Calm, Calls
<1>2. completed[e] <= at[g]
  BY <1>1, NotOlder
<1>3. CASE Beyond(e, c)
  <2>1. PICK h \in Calls(About[e]) :
          h # e /\ Tried(h, c) /\ at[h] >= completed[e] + Rest(e, c)
    BY <1>3 DEF Beyond
  <2>2. h \in Events /\ h \in Calls(k) /\ ~Disturbed(h)'
    BY <1>0, <2>1, InCalls DEF Calm, Calls
  <2>3. h # g
    BY <1>0, <2>1, ReserveOthers DEF Untried, Tried
  <2>4. at[h] <= at[g]
    BY <2>1, <2>2, <2>3, NotOlder
  <2> QED
    BY <1>0, <1>1, <2>1, <2>2, <2>4, CallTypes
<1>4. CASE ~Beyond(e, c)
  <2>1. /\ outcome[e][c] = "sent" => lastSent[s] = completed[e]
        /\ outcome[e][c] # "sent" => lastAttempt[s] = completed[e]
    BY <1>0, <1>1, <1>4 DEF Book, Recorded, Done
  <2>2. ~Within(lastSent[s], Cooldown, at[g]) /\ ~Within(lastAttempt[s], Backoff, at[g])
    BY <1>0, ReserveChannel DEF Suppressed
  <2>3. completed[e] # Never /\ completed[e] \in Nat /\ at[g] \in Nat
    BY <1>0, <1>1, CallTypes
  <2>4. ~Within(completed[e], Rest(e, c), at[g])
    BY <2>1, <2>2 DEF Rest
  <2> QED
    BY <1>0, <1>1, <1>2, <2>3, <2>4, CallTypes DEF Within
<1> QED
  BY <1>3, <1>4

(* The other calls are as they were.                                       *)
LEMMA OthersSame ==
  ASSUME TypeOK, NEW g \in Events, Reserve(g), NEW e \in Events, e # g, NEW c \in Channels
  PROVE  /\ Tried(e, c)' <=> Tried(e, c)
         /\ Done(e, c)' <=> Done(e, c)
         /\ Busy(e)' <=> Busy(e)
         /\ Rest(e, c)' = Rest(e, c) /\ outcome'[e] = outcome[e]
BY ReserveOthers DEF Tried, Done, Busy, Rest

(* The call itself has tried nothing before, and has no outcome yet.       *)
LEMMA ReserverIsNew ==
  ASSUME TypeOK, Untried, NEW g \in Events, Reserve(g), NEW c \in Channels
  PROVE  /\ ~Tried(g, c) /\ ~Done(g, c)'
         /\ Tried(g, c)' => outcome'[g][c] = "reserved"
BY ReserveOthers, ReserveChannel DEF Untried, Tried, Done

LEMMA BookReserve ==
  ASSUME Inv, NEW g \in Events, Reserve(g), NEW k \in Keys, NEW c \in Channels,
         Calm(k), Calm(k)', Book(k, c)
  PROVE  Book(k, c)'
<1>0. /\ TypeOK /\ Untried
      /\ at' = at /\ completed' = completed /\ lastSent' = lastSent
  BY ReserveOthers DEF Inv, Sources
<1>1. \A e \in Calls(k) :
        e \in Events /\ About[e] = k /\ Slot(e, c) = <<k, c>> /\ <<k, c>> \in Slots
  BY InCalls
<1>2. ASSUME NEW e \in Calls(k), e # g, Tried(e, c)
      PROVE  at[e] <= at[g] /\ (Done(e, c) => completed[e] <= at[g])
  BY <1>1, <1>2, NotOlder DEF Calm, Done
<1>3. ASSUME g \in Calls(k), outcome'[g][c] = "reserved"
      PROVE  \A e \in Calls(k) :
               e # g => /\ Tried(e, c) => at[e] < at[g]
                        /\ Done(e, c) => at[g] >= completed[e] + Rest(e, c)
  BY <1>1, <1>3, ReserverIsNewest, ReserverKeepsDistance
<1>4. \/ /\ g \in Calls(k) /\ outcome'[g][c] = "reserved"
         /\ lastAttempt'[<<k, c>>] = at[g]
      \/ lastAttempt'[<<k, c>>] = lastAttempt[<<k, c>>]
  <2>1. <<k, c>> \in Slots BY DEF Slots
  <2>2. CASE Takes(g, <<k, c>>)
    <3>1. PICK d \in Channels : <<k, c>> = Slot(g, d) /\ outcome'[g][d] = "reserved"
      BY <2>2 DEF Takes
    <3>2. d = c /\ g \in Calls(k)
      BY <3>1 DEF Slot, Calls
    <3> QED BY <1>0, <3>1, <3>2, ReserveChannel
  <2>3. CASE Keeps(g, <<k, c>>)
    BY <2>3 DEF Keeps
  <2> QED BY <1>0, <2>1, <2>2, <2>3, ReserveSlot
<1>5. ASSUME NEW e \in Calls(k) PROVE Known(e, c)'
  <2>0. at[e] \in Nat /\ at[g] \in Nat /\ at[g] # Never
    BY <1>0, <1>1, CallTypes
  <2>1. CASE e = g
    <3>1. Tried(g, c)' => outcome'[g][c] = "reserved"
      BY <1>0, ReserverIsNew
    <3>2. outcome'[g][c] = "reserved" => lastAttempt'[Slot(g, c)] = at[g]
      BY <1>0, ReserveChannel
    <3> QED BY <1>0, <1>1, <2>0, <2>1, <3>1, <3>2 DEF Known, Slot
  <2>2. CASE e # g
    <3>1. Tried(e, c)' => Tried(e, c)
      BY <1>0, <1>1, <2>2, OthersSame
    <3>2. Known(e, c)
      BY DEF Book
    <3> QED BY <1>0, <1>1, <1>2, <1>4, <2>0, <2>2, <3>1, <3>2 DEF Known, Slot
  <2> QED BY <2>1, <2>2
<1>6. ASSUME NEW e \in Calls(k) PROVE Recorded(e, c)'
  <2>1. CASE e = g
    BY <1>0, <1>1, <2>1, ReserverIsNew DEF Recorded
  <2>2. CASE e # g
    <3>1. /\ Done(e, c)' <=> Done(e, c)
          /\ outcome'[e] = outcome[e] /\ Rest(e, c)' = Rest(e, c)
      BY <1>0, <1>1, <2>2, OthersSame
    <3>2. ASSUME Beyond(e, c) PROVE Beyond(e, c)'
      <4>1. PICK h \in Calls(k) :
              h # e /\ Tried(h, c) /\ at[h] >= completed[e] + Rest(e, c)
        BY <1>1, <3>2 DEF Beyond
      <4>2. h # g
        BY <1>0, <1>1, <4>1, ReserverIsNew
      <4>3. Tried(h, c)'
        BY <1>0, <1>1, <4>1, <4>2, OthersSame
      <4> QED BY <1>0, <1>1, <3>1, <4>1, <4>3 DEF Beyond, Calls
    <3>3. ASSUME Done(e, c), g \in Calls(k), outcome'[g][c] = "reserved" PROVE Beyond(e, c)'
      <4>1. at[g] >= completed[e] + Rest(e, c)
        BY <1>3, <2>2, <3>3
      <4>2. Tried(g, c)'
        BY <3>3 DEF Tried
      <4>3. at'[g] >= completed'[e] + Rest(e, c)'
        BY <1>0, <3>1, <4>1
      <4>4. g \in Calls(About[e])'
        BY <1>1, <3>3 DEF Calls
      <4> QED BY <2>2, <4>2, <4>3, <4>4 DEF Beyond
    <3>4. Recorded(e, c)
      BY DEF Book
    <3>5. Slot(e, c)' = <<k, c>> /\ Slot(e, c) = <<k, c>>
      BY <1>1 DEF Slot
    <3> QED BY <1>0, <1>4, <3>1, <3>2, <3>3, <3>4, <3>5 DEF Recorded
  <2> QED BY <2>1, <2>2
<1>7. ASSUME NEW e \in Calls(k), NEW f \in Calls(k), e # f PROVE Pair(e, f, c)'
  <2>0. Pair(e, f, c) /\ e \in Events /\ f \in Events
    BY <1>1, <1>7 DEF Book
  <2>1. CASE e = g
    <3>1. ~Done(e, c)' /\ (Tried(f, c)' <=> Tried(f, c))
      BY <1>0, <1>7, <2>0, <2>1, OthersSame, ReserverIsNew
    <3>2. Tried(e, c)' => outcome'[e][c] = "reserved"
      BY <1>0, <2>0, <2>1, ReserverIsNew
    <3>3. Newest(e, f, c)'
      BY <1>0, <1>3, <1>7, <2>1, <3>1, <3>2 DEF Newest
    <3> QED BY <3>1, <3>3 DEF Pair, Later, Apart
  <2>2. CASE f = g
    <3>1. /\ Tried(e, c)' <=> Tried(e, c)
          /\ Done(e, c)' <=> Done(e, c)
          /\ Busy(e)' <=> Busy(e)
          /\ Rest(e, c)' = Rest(e, c)
      BY <1>0, <1>7, <2>0, <2>2, OthersSame
    <3>2. Tried(f, c)' => outcome'[f][c] = "reserved"
      BY <1>0, <2>0, <2>2, ReserverIsNew
    <3>3. Newest(e, f, c)'
      <4>1. ASSUME Busy(e), Tried(e, c), outcome'[f][c] = "reserved" PROVE FALSE
        <5>1. ~Disturbed(e) /\ ~Disturbed(e)'
          BY DEF Calm, Calls
        <5>2. Suppressed(Slot(e, c), at[g])
          BY <1>7, <2>0, <2>2, <4>1, <5>1, HeldIsActive
        <5>3. ~Suppressed(Slot(f, c), at[g])
          BY <1>0, <2>0, <2>2, <4>1, ReserveChannel
        <5> QED BY <1>1, <5>2, <5>3
      <4> QED BY <3>1, <3>2, <4>1 DEF Newest
    <3>4. Done(e, c) => Tried(e, c)
      BY DEF Done, Tried
    <3>5. Later(e, f, c)'
      BY <1>0, <1>2, <1>7, <2>2, <3>1, <3>4 DEF Later
    <3>6. Apart(e, f, c)'
      BY <1>0, <1>3, <1>7, <2>2, <3>1, <3>2 DEF Apart
    <3> QED BY <3>3, <3>5, <3>6 DEF Pair
  <2>3. CASE e # g /\ f # g
    <3>1. /\ Tried(e, c)' <=> Tried(e, c)
          /\ Done(e, c)' <=> Done(e, c)
          /\ Busy(e)' <=> Busy(e)
          /\ Rest(e, c)' = Rest(e, c)
          /\ Tried(f, c)' <=> Tried(f, c)
          /\ Busy(f)' <=> Busy(f)
      BY <1>0, <2>0, <2>3, OthersSame
    <3> QED BY <1>0, <2>0, <3>1 DEF Pair, Newest, Later, Apart
  <2> QED BY <2>1, <2>2, <2>3
<1>8. Calls(k)' = Calls(k) BY DEF Calls
<1> QED
  BY <1>5, <1>6, <1>7, <1>8 DEF Book

(* The second transaction, for the calls about one key over one channel.   *)
LEMMA FinishOutcome ==
  ASSUME TypeOK, NEW g \in Events, Finish(g), NEW k \in Keys, NEW c \in Channels
  PROVE  /\ UNCHANGED <<at, completed, outcome>> /\ pc[g] = "completed"
         /\ pc' = [pc EXCEPT ![g] = "ended"]
         /\ LET mine == g \in Calls(k)
            IN /\ lastSent'[<<k, c>>] = IF mine /\ outcome[g][c] = "sent"
                                          THEN completed[g] ELSE lastSent[<<k, c>>]
               /\ lastAttempt'[<<k, c>>] = IF mine /\ outcome[g][c] = "failed"
                                             THEN completed[g] ELSE lastAttempt[<<k, c>>]
<1>1. <<k, c>> \in Slots BY DEF Slots
<1>2. ASSUME NEW result
      PROVE  <<k, c>> \in SlotsWith(g, {result})
               <=> g \in Calls(k) /\ outcome[g][c] = result
  BY DEF SlotsWith, Slot, Calls
<1> QED BY <1>1, <1>2 DEF Finish

LEMMA BookFinish ==
  ASSUME Inv, NEW g \in Events, Finish(g), NEW k \in Keys, NEW c \in Channels, Book(k, c)
  PROVE  Book(k, c)'
<1>0. /\ TypeOK /\ Past /\ at' = at /\ completed' = completed /\ outcome' = outcome
      /\ pc[g] = "completed" /\ pc' = [pc EXCEPT ![g] = "ended"] /\ Busy(g)
  BY FinishOutcome DEF Inv, Sources, Busy
<1>1. /\ lastSent'[<<k, c>>] = IF g \in Calls(k) /\ outcome[g][c] = "sent"
                                 THEN completed[g] ELSE lastSent[<<k, c>>]
      /\ lastAttempt'[<<k, c>>] = IF g \in Calls(k) /\ outcome[g][c] = "failed"
                                    THEN completed[g] ELSE lastAttempt[<<k, c>>]
  BY <1>0, FinishOutcome
<1>2. \A e \in Calls(k) :
        /\ e \in Events /\ About[e] = k /\ Slot(e, c) = <<k, c>> /\ Slot(e, c)' = <<k, c>>
        /\ Tried(e, c)' = Tried(e, c) /\ Rest(e, c)' = Rest(e, c)
        /\ at[e] \in Nat /\ completed[e] \in Nat /\ completed[e] # Never /\ Rest(e, c) \in Nat
  BY <1>0, InCalls, CallTypes DEF Slot, Tried, Rest
<1>3. at[g] <= completed[g]
  BY <1>0 DEF Past
<1>4. \A e \in Calls(k) : e # g => /\ Done(e, c)' <=> Done(e, c)
                                   /\ Busy(e)' <=> Busy(e)
  BY <1>0, <1>2 DEF TypeOK, Done, Busy
<1>5. ~Busy(g)'
  BY <1>0 DEF TypeOK, Busy
<1>6. ASSUME NEW e \in Calls(k) PROVE Known(e, c)'
  <2>1. Known(e, c) BY DEF Book
  <2>2. ASSUME g \in Calls(k), outcome[g][c] = "failed", Tried(e, c)
        PROVE  at[e] <= completed[g]
    <3>1. CASE e = g BY <1>3, <3>1
    <3>2. CASE e # g
      <4>1. Newest(g, e, c) /\ Tried(g, c)
        BY <2>2, <3>2 DEF Book, Pair, Tried
      <4> QED BY <1>0, <1>2, <1>3, <2>2, <4>1 DEF Newest
    <3> QED BY <3>1, <3>2
  <2> QED BY <1>0, <1>1, <1>2, <2>1, <2>2 DEF Known
<1>7. ASSUME NEW e \in Calls(k) PROVE Recorded(e, c)'
  <2>1. CASE e = g
    BY <1>1, <1>2, <1>0, <2>1 DEF Recorded
  <2>2. CASE e # g
    <3>1. ASSUME Beyond(e, c) PROVE Beyond(e, c)'
      <4>1. PICK h \in Calls(k) :
              h # e /\ Tried(h, c) /\ at[h] >= completed[e] + Rest(e, c)
        BY <1>2, <3>1 DEF Beyond
      <4>2. h \in Calls(About[e])' /\ Tried(h, c)'
        BY <1>2, <4>1 DEF Calls
      <4>3. at'[h] >= completed'[e] + Rest(e, c)'
        BY <1>0, <1>2, <4>1
      <4> QED BY <4>1, <4>2, <4>3 DEF Beyond
    <3>2. ASSUME Done(e, c), g \in Calls(k), outcome[g][c] \in {"sent", "failed"}
          PROVE  Beyond(e, c)
      <4>1. Tried(g, c) /\ Pair(e, g, c)
        BY <2>2, <3>2 DEF Book, Tried
      <4>2. at[g] >= completed[e] + Rest(e, c)
        BY <1>0, <1>2, <3>2, <4>1 DEF Pair, Later, Apart
      <4> QED BY <1>2, <2>2, <3>2, <4>1, <4>2 DEF Beyond
    <3>3. Recorded(e, c) BY DEF Book
    <3> QED BY <1>0, <1>1, <1>2, <1>4, <2>2, <3>1, <3>2, <3>3 DEF Recorded
  <2> QED BY <2>1, <2>2
<1>8. ASSUME NEW e \in Calls(k), NEW f \in Calls(k), e # f PROVE Pair(e, f, c)'
  <2>1. Pair(e, f, c) /\ Pair(f, e, c) BY <1>8 DEF Book
  <2>2. CASE e = g
    <3>1. Tried(f, c) /\ Tried(e, c) => at[f] < at[e]
      BY <1>0, <2>1, <2>2 DEF Pair, Newest
    <3>2. Busy(f) /\ Tried(f, c) /\ Tried(e, c) => FALSE
      BY <1>2, <2>1, <3>1 DEF Pair, Newest
    <3>3. Done(e, c)' => Tried(e, c)
      BY <1>0 DEF Done, Tried
    <3>4. Busy(f)' <=> Busy(f)
      BY <1>4, <1>8, <2>2
    <3>5. Newest(e, f, c)' /\ Later(e, f, c)'
      BY <1>2, <1>5, <2>2, <3>2, <3>3, <3>4 DEF Newest, Later
    <3>6. Apart(e, f, c)'
      BY <1>0, <1>2, <1>3, <2>2, <3>1, <3>3 DEF Apart
    <3> QED BY <3>5, <3>6 DEF Pair
  <2>3. CASE e # g
    <3>1. /\ Done(e, c)' <=> Done(e, c)
          /\ Busy(e)' <=> Busy(e)
          /\ Busy(f)' => Busy(f)
      BY <1>4, <1>5, <2>3
    <3> QED BY <1>0, <1>2, <2>1, <3>1 DEF Pair, Newest, Later, Apart
  <2> QED BY <2>2, <2>3
<1>9. Calls(k)' = Calls(k) BY DEF Calls
<1> QED
  BY <1>6, <1>7, <1>8, <1>9 DEF Book

LEMMA BookQuiet ==
  ASSUME Inv, Lasting, Quiet, NEW k \in Keys, NEW c \in Channels, Book(k, c)
  PROVE  Book(k, c)'
<1>0. TypeOK /\ Untried /\ lastSent' = lastSent /\ lastAttempt' = lastAttempt
  BY DEF Inv, Sources, Quiet, state
<1>1. \A e \in Calls(k) :
        /\ e \in Events /\ About[e] = k /\ Slot(e, c) = <<k, c>> /\ Slot(e, c)' = <<k, c>>
        /\ Tried(e, c)' <=> Tried(e, c)
        /\ Busy(e)' => Busy(e)
        /\ Tried(e, c) => at'[e] = at[e]
  BY <1>0, InCalls, TriedIsOn DEF Quiet, Lasting, Slot
<1>2. \A e \in Calls(k) :
        Done(e, c)' => /\ Done(e, c) /\ completed'[e] = completed[e]
                       /\ outcome'[e] = outcome[e] /\ Rest(e, c)' = Rest(e, c)
  BY <1>1 DEF Quiet, Lasting, Done, Rest
<1>3. ASSUME NEW e \in Calls(k) PROVE Known(e, c)'
  BY <1>0, <1>1 DEF Book, Known
<1>4. ASSUME NEW e \in Calls(k) PROVE Recorded(e, c)'
  <2>1. ASSUME Beyond(e, c), Done(e, c)' PROVE Beyond(e, c)'
    <3>1. PICK h \in Calls(k) :
            h # e /\ Tried(h, c) /\ at[h] >= completed[e] + Rest(e, c)
      BY <1>1, <2>1 DEF Beyond
    <3>2. h \in Calls(About[e])' /\ Tried(h, c)'
      BY <1>1, <3>1 DEF Calls
    <3>3. at'[h] >= completed'[e] + Rest(e, c)'
      BY <1>1, <1>2, <2>1, <3>1
    <3> QED BY <3>1, <3>2, <3>3 DEF Beyond
  <2>2. Recorded(e, c) BY DEF Book
  <2> QED BY <1>0, <1>1, <1>2, <2>1, <2>2 DEF Recorded
<1>5. ASSUME NEW e \in Calls(k), NEW f \in Calls(k), e # f PROVE Pair(e, f, c)'
  <2>1. Pair(e, f, c) BY <1>5 DEF Book
  <2> QED BY <1>1, <1>2, <2>1 DEF Pair, Newest, Later, Apart
<1>6. Calls(k)' = Calls(k) BY DEF Calls
<1> QED
  BY <1>3, <1>4, <1>5, <1>6 DEF Book

LEMMA BooksStep == Books /\ [Next]_vars => Books'
<1> SUFFICES ASSUME Books, [Next]_vars PROVE Books'
  OBVIOUS
<1>1. Inv /\ Inv' /\ Lasting /\ TypeOK /\ Untried /\ TypeOK'
  BY InvStep, SourcesStep DEF Books, Inv, Sources
<1>2. ASSUME NEW k \in Keys, NEW c \in Channels, Calm(k)' PROVE Book(k, c)'
  <2>1. Calm(k)
    BY <1>1, <1>2, StaysDisturbed DEF Calm, Calls
  <2>2. Book(k, c)
    BY <2>1 DEF Books
  <2>3. ASSUME NEW g \in Events, Reserve(g) PROVE Book(k, c)'
    BY <1>1, <1>2, <2>1, <2>2, <2>3, BookReserve
  <2>4. ASSUME NEW g \in Events, Finish(g) PROVE Book(k, c)'
    BY <1>1, <2>2, <2>4, BookFinish
  <2>5. CASE \A g \in Events : ~Reserve(g) /\ ~Finish(g)
    BY <1>1, <2>2, <2>5, QuietSteps, BookQuiet
  <2> QED BY <2>3, <2>4, <2>5
<1> QED
  BY <1>1, <1>2 DEF Books

LEMMA BooksInit == Init => Books
<1> SUFFICES ASSUME Init PROVE Books
  OBVIOUS
<1>1. \A e \in Events, c \in Channels : ~Tried(e, c) /\ ~Done(e, c) /\ ~Busy(e)
  BY DEF Init, Tried, Done, Busy
<1>2. \A k \in Keys, c \in Channels : Book(k, c)
  BY <1>1 DEF Book, Calls, Known, Recorded, Pair, Newest, Later, Apart
<1> QED
  BY <1>2, InvInit DEF Books

LEMMA BooksKeepApart == Books => Spaced
<1> SUFFICES ASSUME Books, NEW e \in Events, NEW f \in Events, NEW c \in Channels,
                    e # f, About[e] = About[f],
                    pc[e] = "ended", outcome[e][c] \in {"sent", "failed"},
                    Tried(f, c), at[f] >= completed[e],
                    ~ \E x \in Events : About[x] = About[e] /\ Disturbed(x)
             PROVE  at[f] >= completed[e]
                             + (IF outcome[e][c] = "sent" THEN Cooldown ELSE Backoff)
  BY DEF Spaced
<1>1. About[e] \in Keys /\ e \in Calls(About[e]) /\ f \in Calls(About[e])
  BY AlertAssumption DEF Calls
<1>2. Calm(About[e])
  BY DEF Calm, Calls
<1>3. Apart(e, f, c)
  BY <1>1, <1>2 DEF Books, Book, Pair
<1> QED
  BY <1>3 DEF Apart, Done, Rest

(* Alerts are spaced (dispatcher.py:225-283, the cooldown and the backoff   *)
(* checked under the lock and recorded under it): however the calls wait    *)
(* and overlap, whatever is lost, fails or crashes, no alert about a key is *)
(* tried within the cooldown that follows a recorded delivery over the same *)
(* channel, or within the backoff that follows a failure, unless a call     *)
(* about the key was late or overtaken.                                     *)
THEOREM Spacing == Spec => []Spaced
BY BooksInit, BooksStep, BooksKeepApart, PTL DEF Spec

-----------------------------------------------------------------------------
(* The call f is the reason why e is suppressed.                           *)
Silences(f, e, s) ==
  /\ f # e /\ TriedIn(f, s)
  /\ \/ EndedWith(f, s, "sent") /\ Within(completed[f], Cooldown, at[e])
     \/ EndedWith(f, s, "failed") /\ Within(completed[f], Backoff, at[e])
     \/ Within(at[f], TTL, at[e])

Silenced(e, c) ==
  outcome[e][c] = "suppressed" => \E f \in Events : Silences(f, e, Slot(e, c))

Reasons == Sources /\ \A e \in Events, c \in Channels : Silenced(e, c)

(* A call is suppressed in its first transaction, by what is on record     *)
(* about the slot, and the origin of that is the reason.                   *)
LEMMA SilencedStep ==
  ASSUME Reasons, Lasting, [Next]_vars, Backoff <= TTL,
         NEW e \in Events, NEW c \in Channels, outcome'[e][c] = "suppressed"
  PROVE  \E f \in Events : Silences(f, e, Slot(e, c))'
<1>0. /\ Slot(e, c) \in Slots /\ Slot(e, c)' = Slot(e, c)
      /\ Slot(e, c)[1] = About[e] /\ Slot(e, c)[2] = c
  BY SlotType DEF Slot
<1>1. CASE outcome[e][c] = "suppressed"
  <2>1. PICK f \in Events : Silences(f, e, Slot(e, c))
    BY <1>1 DEF Reasons, Silenced
  <2>2. at'[e] = at[e]
    BY <1>1 DEF Reasons, Sources, Untried, Lasting
  <2>3. Silences(f, e, Slot(e, c))'
    BY <1>0, <2>1, <2>2, ReasonLasts DEF Reasons, Silences, Within
  <2> QED BY <2>3
<1>2. CASE Reserve(e) /\ outcome[e][c] # "suppressed"
  <2> DEFINE s == Slot(e, c)
  <2>1. /\ TypeOK /\ at' = at /\ Suppressed(s, at[e]) /\ pc[e] = "stamped"
    BY <1>2, ReserveOthers, ReserveChannel DEF Reasons, Sources
  <2>2. \A f \in Events : TriedIn(f, s) => f # e
    BY <1>0, <2>1 DEF Reasons, Sources, Untried, TriedIn, Tried
  <2>3. /\ at[e] \in Nat /\ Backoff \in Nat /\ TTL \in Nat
        /\ lastAttempt[s] \in Nat \cup {Never} /\ Never \notin Nat
        /\ \A f \in Events : at[f] \in Nat
    BY <1>0, <2>1, AlertAssumption DEF TypeOK
  <2>4. Origin(s) BY <1>0 DEF Reasons, Sources
  <2> HIDE DEF s
  <2>5. \E f \in Events : Silences(f, e, s)
    <3>1. CASE Within(lastSent[s], Cooldown, at[e])
      BY <2>2, <2>4, <3>1 DEF Origin, Silences, Within
    <3>2. CASE Active(inFlight[s], at[e])
      <4>1. PICK f \in Events : TriedIn(f, s) /\ at[f] = inFlight[s].at
        BY <2>4, <3>2 DEF Origin, Active
      <4> QED BY <2>2, <3>2, <4>1 DEF Silences, Active
    <3>3. CASE Within(lastAttempt[s], Backoff, at[e])
      <4>1. PICK f \in Events :
              /\ TriedIn(f, s)
              /\ \/ EndedWith(f, s, "failed") /\ completed[f] = lastAttempt[s]
                 \/ at[f] = lastAttempt[s]
        BY <2>4, <3>3 DEF Origin, Within
      <4>2. Within(lastAttempt[s], TTL, at[e])
        BY <2>3, <3>3 DEF Within
      <4> QED BY <2>2, <3>3, <4>1, <4>2 DEF Silences
    <3> QED BY <2>1, <3>1, <3>2, <3>3 DEF Suppressed
  <2>6. PICK f \in Events : Silences(f, e, s)
    BY <2>5
  <2>7. Silences(f, e, Slot(e, c))'
    BY <1>0, <2>1, <2>6, ReasonLasts DEF Reasons, Silences, Within, s
  <2> QED BY <2>7
<1>3. CASE ~Reserve(e)
  <2>1. TypeOK BY DEF Reasons, Sources
  <2>2. ASSUME NEW f \in Events, Reserve(f) PROVE outcome'[e] = outcome[e]
    BY <1>3, <2>1, <2>2, ReserveOthers
  <2>3. ASSUME NEW f \in Events, NEW d \in Channels, Send(f, d)
        PROVE  outcome[e][c] = "suppressed"
    BY <2>1, <2>3 DEF Send, TypeOK
  <2>4. outcome[e][c] = "suppressed"
    BY <2>2, <2>3 DEF Next, Fire, Finish, LockTimeout, Crash, Tick, vars
  <2> QED BY <1>1, <2>4
<1> QED BY <1>1, <1>2, <1>3

(* Nobody is silenced without a reason: however the calls overlap,         *)
(* whatever waits and crashes, an alert is suppressed only if another call *)
(* about the same event was delivered within the cooldown, failed within   *)
(* the backoff, or reserved the channel within the life of a reservation   *)
(* (dispatcher.py, the two transactions of fire_alert).                    *)
THEOREM NeverSilencedForGood ==
  ASSUME Backoff <= TTL
  PROVE  Spec => []BoundedSilence
<1>1. Init => Reasons
  BY SourcesInit DEF Init, Reasons, Silenced
<1>2. Reasons /\ [Next]_vars => Reasons'
  <2> SUFFICES ASSUME Reasons, [Next]_vars PROVE Reasons'
    OBVIOUS
  <2>1. Sources' /\ Lasting
    BY SourcesStep DEF Reasons
  <2>2. \A e \in Events, c \in Channels : Silenced(e, c)'
    BY <2>1, SilencedStep DEF Silenced
  <2> QED BY <2>1, <2>2 DEF Reasons
<1>3. Reasons => BoundedSilence
  <2> SUFFICES ASSUME Reasons, NEW e \in Events, NEW c \in Channels,
                      outcome[e][c] = "suppressed"
               PROVE  \E f \in Events \ {e} :
                        /\ About[f] = About[e]
                        /\ Tried(f, c)
                        /\ \/ outcome[f][c] = "sent" /\ Within(completed[f], Cooldown, at[e])
                           \/ outcome[f][c] = "failed" /\ Within(completed[f], Backoff, at[e])
                           \/ Within(at[f], TTL, at[e])
    BY DEF BoundedSilence
  <2>1. PICK f \in Events : Silences(f, e, Slot(e, c))
    BY DEF Reasons, Silenced
  <2> QED BY <2>1 DEF Silences, TriedIn, EndedWith, Slot
<1> QED
  BY <1>1, <1>2, <1>3, PTL DEF Spec
=============================================================================
