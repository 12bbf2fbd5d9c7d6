--------------------------- MODULE ServicesProofs ---------------------------
(***************************************************************************)
(* Proofs about the services that run beside the sign tasks: BotPolling,   *)
(* KeywordMonitor, then SignSchedule.                                      *)
(***************************************************************************)
EXTENDS BotPolling, KeywordMonitor, SignSchedule, FiniteSetTheorems, TLAPS

-----------------------------------------------------------------------------
(***************************************************************************)
(* BotPolling, for any number of processes, updates and troubles: only the *)
(* process that holds the scheduler lock polls; no update is handled twice,*)
(* and those the offset has passed were handled, but for one each time the *)
(* handling was cut off.                                                   *)
(***************************************************************************)

(* Proofs about BotPolling, for any number of processes, updates and       *)
(* troubles: only the process that holds the scheduler lock polls; no      *)
(* update is handled twice, and those the offset has passed were handled,  *)
(* but for one each time the handling was cut off.                         *)
(***************************************************************************)

NodeType ==
  [life : {"down", "up", "stopping"},
   sup : {"none", "pass", "probing", "resting"}, wake : BOOLEAN,
   probing : 0..(MaxSaves + 1), fingerprint : 0..(MaxSaves + 1),
   state : {"stopped", "disabled", "standby", "running", "error", "conflict"},
   recent : BOOLEAN, poll : {"none", "asking", "handling"},
   offset : Offsets, current : 0..MaxUpdates, rest : SUBSET Updates]

(* The batch of one process. *)
BatchOf(x, sent) ==
  IF x.poll = "handling" THEN x.current \in 1..sent /\ x.rest \subseteq 1..sent
    ELSE x.current = 0 /\ x.rest = {}

LEMMA Naturals == MaxUpdates \in Nat /\ MaxSaves \in Nat /\ NoNode \notin Nodes
BY PollingAssumption

LEMMA PollingTypeUnfolded ==
  BotTypeOK <=>
    /\ owner \in Nodes \cup {NoNode}
    /\ node \in [Nodes -> NodeType]
    /\ \A n \in Nodes : BatchOf(node[n], arrived)
    /\ settings \in [version : 1..(MaxSaves + 1), on : BOOLEAN]
    /\ saved \in Offsets /\ arrived \in 0..MaxUpdates /\ acked \in Offsets
    /\ handled \in [Updates -> Nat] /\ finished \subseteq Updates
    /\ broken \in Nat /\ trouble \in Troubles /\ suffered \in 0..MaxTroubles
BY Zenon DEF BotTypeOK, NodeType, BatchOf

LEMMA AbsentType == Absent \in NodeType /\ BatchOf(Absent, arrived)
BY Naturals DEF Absent, NodeType, BatchOf, Offsets, Updates

(* What an action may make of the state of a process, as to its type. *)
LEMMA ChangesType ==
  ASSUME BotTypeOK, NEW x \in NodeType, BatchOf(x, arrived)
  PROVE  /\ WithoutPoller(x) \in NodeType /\ BatchOf(WithoutPoller(x), arrived)
         /\ AfterPass(x) \in NodeType /\ BatchOf(AfterPass(x), arrived)
<1>1. WithoutPoller(x) \in NodeType
  <2>1. 0 \in 0..MaxUpdates /\ {} \in SUBSET Updates
    BY Naturals
  <2> QED
    BY <2>1, Zenon DEF NodeType, WithoutPoller
<1>2. BatchOf(WithoutPoller(x), arrived)
  BY DEF BatchOf, WithoutPoller, NodeType
<1>3. AfterPass(x) \in NodeType
  <2>1. 0 \in 0..(MaxSaves + 1)
    BY Naturals
  <2>2. x.probing \in 0..(MaxSaves + 1) /\ x.life \in {"down", "up", "stopping"}
    BY DEF NodeType
  <2>3. (IF x.life = "stopping" THEN "none" ELSE "resting")
          \in {"none", "pass", "probing", "resting"}
    OBVIOUS
  <2> QED
    BY <2>1, <2>2, <2>3, Zenon DEF NodeType, AfterPass
<1>4. BatchOf(AfterPass(x), arrived)
  BY DEF BatchOf, AfterPass, NodeType
<1> QED
  BY <1>1, <1>2, <1>3, <1>4

(* The first of a batch without gaps is what the poller takes. *)
LEMMA SmallestIs ==
  ASSUME NEW S \in SUBSET Nat, NEW u \in S, \A v \in S : u <= v
  PROVE  Smallest(S) = u
<1>1. Smallest(S) \in S /\ \A v \in S : Smallest(S) <= v
  BY Zenon DEF Smallest
<1>2. Smallest(S) \in Nat /\ u \in Nat /\ Smallest(S) <= u /\ u <= Smallest(S)
  BY <1>1
<1> QED
  BY <1>2

-----------------------------------------------------------------------------
(* The steps of BotPolling by what they do to a process and its poller.    *)
Sound(x) ==
  /\ x.sup = "probing" => x.poll = "none"
  /\ x.life = "down" => x.poll = "none" /\ x.sup = "none"
  /\ x.poll = "handling" =>
       /\ x.offset = x.current + 1
       /\ \A v \in x.rest : x.current < v /\ (x.current + 1)..v \subseteq x.rest

(* The poller is left alone. *)
Quiet(n, y) ==
  /\ y.poll = node[n].poll /\ y.offset = node[n].offset
  /\ y.current = node[n].current /\ y.rest = node[n].rest
  /\ y.sup = "probing" => node[n].sup = "probing"
  /\ UNCHANGED <<owner, arrived, deliveryVars, broken>>

(* There is no poller afterwards; the lock may be taken or given back. *)
Ended(n, y) ==
  /\ y.poll = "none"
  /\ y.sup = "probing" => owner = n
  /\ owner' = owner \/ (owner \in {n, NoNode} /\ y.sup # "probing")
  /\ Cut(node[n])
  /\ UNCHANGED <<arrived, deliveryVars>>

(* A poller starts at the stored offset. *)
Started(n, y) ==
  /\ node[n].sup = "probing" /\ y.sup # "probing"
  /\ y.poll = "asking" /\ y.offset = saved
  /\ UNCHANGED <<owner, arrived, deliveryVars, broken>>

(* The poller goes on to update u. *)
Taken(n, y, u) ==
  /\ node[n].poll # "none" /\ y.sup = node[n].sup
  /\ y.poll = "handling" /\ y.current = u /\ y.offset = u + 1
  /\ saved' = u + 1 \/ (UNCHANGED saved /\ "disk" \in trouble)
  /\ handled' = [handled EXCEPT ![u] = @ + 1]
  /\ UNCHANGED <<owner, arrived, broken>>

(* ... the first one of what Telegram sends, *)
TakenFirst(n, y, u) ==
  /\ Taken(n, y, u) /\ node[n].poll = "asking"
  /\ u = Larger(acked, node[n].offset) /\ y.rest = (u + 1)..arrived
  /\ acked' = u /\ UNCHANGED finished

(* ... or the next one of the batch. *)
TakenNext(n, y, u) ==
  /\ Taken(n, y, u) /\ node[n].poll = "handling"
  /\ u \in node[n].rest /\ \A v \in node[n].rest : u <= v
  /\ y.rest = node[n].rest \ {u}
  /\ finished' = finished \cup {node[n].current} /\ UNCHANGED acked

(* The batch is done. *)
Finished(n, y) ==
  /\ node[n].poll = "handling" /\ node[n].rest = {}
  /\ y.poll # "handling" /\ y.sup = node[n].sup /\ y.offset = node[n].offset
  /\ finished' = finished \cup {node[n].current}
  /\ UNCHANGED <<owner, arrived, saved, acked, handled, broken>>

Moves(n, y) ==
  \/ Quiet(n, y) \/ Ended(n, y) \/ Started(n, y) \/ Finished(n, y)
  \/ \E u \in 1..arrived : TakenFirst(n, y, u) \/ TakenNext(n, y, u)

(* What a step may make of process n. *)
Becomes(n, y) ==
  /\ y \in NodeType /\ BatchOf(y, arrived) /\ Sound(y)
  /\ node' = [node EXCEPT ![n] = y]
  /\ Moves(n, y)

Fine == BotTypeOK /\ \A n \in Nodes : Sound(node[n])

LEMMA NodeFacts ==
  ASSUME Fine, NEW n \in Nodes
  PROVE  node[n] \in NodeType /\ BatchOf(node[n], arrived) /\ Sound(node[n])
BY PollingTypeUnfolded DEF Fine

LEMMA Quietly ==
  ASSUME Fine, NEW n \in Nodes, UNCHANGED <<owner, arrived, deliveryVars, broken>>,
         NEW y \in NodeType, node' = [node EXCEPT ![n] = y],
         y.poll = node[n].poll, y.offset = node[n].offset,
         y.current = node[n].current, y.rest = node[n].rest,
         y.sup = "probing" => node[n].sup = "probing",
         y.life = "down" => node[n].life = "down" /\ y.sup = node[n].sup
  PROVE  Becomes(n, y)
<1>1. BatchOf(y, arrived) /\ Sound(y)
  BY NodeFacts DEF BatchOf, Sound
<1> QED
  BY <1>1, Zenon DEF Becomes, Moves, Quiet

LEMMA Ending ==
  ASSUME Fine, NEW n \in Nodes, Cut(node[n]), UNCHANGED <<arrived, deliveryVars>>,
         NEW y \in NodeType, node' = [node EXCEPT ![n] = y],
         y.poll = "none", y.current = 0, y.rest = {},
         y.sup = "probing" => owner = n,
         owner' = owner \/ (owner \in {n, NoNode} /\ y.sup # "probing"),
         y.life = "down" => y.sup = "none"
  PROVE  Becomes(n, y)
<1>1. BatchOf(y, arrived) /\ Sound(y)
  BY DEF BatchOf, Sound
<1> QED
  BY <1>1, Zenon DEF Becomes, Moves, Ended

LEMMA NothingCut ==
  ASSUME Fine, NEW n \in Nodes, node[n].poll # "handling", UNCHANGED broken
  PROVE  Cut(node[n])
BY DEF Cut, Fine, BotTypeOK

LEMMA ReconcileMoves ==
  ASSUME Fine, NEW n \in Nodes, Reconcile(n)
  PROVE  \E y : Becomes(n, y)
<1> DEFINE x == [node[n] EXCEPT !.wake = FALSE]
<1>0. settings.version \in 0..(MaxSaves + 1)
  BY Naturals DEF Fine, BotTypeOK
<1>1. x \in NodeType /\ x.poll = node[n].poll /\ x.sup = "pass" /\ x.life = "up"
      /\ x.offset = node[n].offset /\ x.current = node[n].current
      /\ x.rest = node[n].rest
  BY NodeFacts DEF NodeType, Reconcile
<1>2. BatchOf(x, arrived)
  BY <1>1, NodeFacts DEF BatchOf
<1>3. WithoutPoller(x) \in NodeType
  BY <1>1, <1>2, ChangesType DEF Fine
<1>c. Cut(x) => Cut(node[n])
  BY <1>1 DEF Cut
<1> DEFINE y1 == [WithoutPoller(x) EXCEPT
                    !.sup = "resting", !.fingerprint = settings.version,
                    !.state = IF settings.on THEN "standby" ELSE "disabled"]
           y2 == [x EXCEPT !.sup = "resting"]
           y3 == [WithoutPoller(x) EXCEPT !.sup = "probing",
                                            !.probing = settings.version]
<1>4. y1 \in NodeType /\ y1.poll = "none" /\ y1.current = 0 /\ y1.rest = {}
      /\ y1.sup = "resting" /\ y1.life = "up"
  BY <1>0, <1>1, <1>3 DEF NodeType, WithoutPoller
<1>5. y2 \in NodeType /\ y2.poll = x.poll /\ y2.offset = x.offset
      /\ y2.current = x.current /\ y2.rest = x.rest /\ y2.sup = "resting"
      /\ y2.life = "up"
  BY <1>1 DEF NodeType
<1>6. y3 \in NodeType /\ y3.poll = "none" /\ y3.current = 0 /\ y3.rest = {}
      /\ y3.sup = "probing" /\ y3.life = "up"
  BY <1>0, <1>1, <1>3 DEF NodeType, WithoutPoller
<1>7. UNCHANGED <<owner, arrived, deliveryVars>>
  BY DEF Reconcile
<1>8. CASE Cut(x) /\ node' = [node EXCEPT ![n] = y1]
  <2>1. Becomes(n, y1)
    BY <1>4, <1>7, <1>8, <1>c, Ending
  <2> QED
    BY <2>1
<1>9. CASE node' = [node EXCEPT ![n] = y2] /\ UNCHANGED broken
  <2>1. Becomes(n, y2)
    BY <1>1, <1>5, <1>7, <1>9, Quietly
  <2> QED
    BY <2>1
<1>10. CASE MayPoll(n) /\ Cut(x) /\ node' = [node EXCEPT ![n] = y3]
  <2>1. owner = n
    BY <1>10 DEF MayPoll
  <2>2. Becomes(n, y3)
    BY <1>6, <1>7, <1>10, <1>c, <2>1, Ending
  <2> QED
    BY <2>2
<1> QED
  BY <1>8, <1>9, <1>10, Zenon DEF Reconcile

LEMMA ProbeMoves ==
  ASSUME Fine, NEW n \in Nodes, Probed(n) \/ ProbeFails(n)
  PROVE  \E y : Becomes(n, y)
<1> DEFINE x == node[n]
           y1 == Starts(x)
           y2 == [AfterPass(x) EXCEPT !.state = "error", !.recent = TRUE]
<1>1. x \in NodeType /\ BatchOf(x, arrived) /\ Sound(x) /\ x.sup = "probing"
      /\ saved \in Offsets
  BY NodeFacts DEF Probed, ProbeFails, Fine, BotTypeOK
<1>2. x.poll = "none" /\ x.current = 0 /\ x.rest = {} /\ x.life # "down"
  BY <1>1 DEF Sound, BatchOf
<1>3. AfterPass(x) \in NodeType /\ AfterPass(x).poll = "none" /\ AfterPass(x).rest = {}
      /\ AfterPass(x).current = 0 /\ AfterPass(x).life = x.life
      /\ AfterPass(x).sup # "probing"
  <2>1. AfterPass(x) \in NodeType
    BY <1>1, ChangesType DEF Fine
  <2>2. AfterPass(x).sup = IF x.life = "stopping" THEN "none" ELSE "resting"
    BY <1>1 DEF AfterPass, NodeType
  <2>3. AfterPass(x).poll = x.poll /\ AfterPass(x).rest = x.rest
        /\ AfterPass(x).current = x.current /\ AfterPass(x).life = x.life
    BY <1>1 DEF AfterPass, NodeType
  <2> QED
    BY <1>2, <2>1, <2>2, <2>3
<1>4. CASE Probed(n)
  <2>1. y1 \in NodeType /\ y1.poll = "asking" /\ y1.offset = saved /\ y1.rest = {}
        /\ y1.current = 0 /\ y1.life = x.life /\ y1.sup # "probing"
    BY <1>1, <1>3 DEF Starts, NodeType
  <2>2. BatchOf(y1, arrived) /\ Sound(y1)
    BY <1>2, <2>1 DEF BatchOf, Sound
  <2>3. Started(n, y1) /\ node' = [node EXCEPT ![n] = y1]
    BY <1>1, <1>4, <2>1 DEF Started, Probed
  <2>4. Becomes(n, y1)
    BY <2>1, <2>2, <2>3, Zenon DEF Becomes, Moves
  <2> QED
    BY <2>4
<1>5. CASE ProbeFails(n)
  <2>1. y2 \in NodeType /\ y2.poll = "none" /\ y2.rest = {} /\ y2.current = 0
        /\ y2.life = x.life /\ y2.sup # "probing"
    BY <1>3 DEF NodeType
  <2>2. Cut(node[n]) /\ UNCHANGED <<owner, arrived, deliveryVars>>
        /\ node' = [node EXCEPT ![n] = y2]
    BY <1>2, <1>5, NothingCut DEF ProbeFails
  <2>3. Becomes(n, y2)
    BY <1>2, <2>1, <2>2, Ending
  <2> QED
    BY <2>3
<1> QED
  BY <1>4, <1>5

(* The steps that leave the poller alone. *)
LEMMA QuietMoves ==
  ASSUME Fine, NEW n \in Nodes,
         Wakes(n) \/ Recovers(n) \/ Save(n) \/ StopNode(n) \/ LoopEnds(n)
  PROVE  \E y : Becomes(n, y)
<1> DEFINE x == node[n]
           y1 == [x EXCEPT !.sup = "pass"]
           y2 == [x EXCEPT !.recent = FALSE]
           y3 == [x EXCEPT !.wake = TRUE]
           y4 == [x EXCEPT !.life = "stopping", !.wake = TRUE]
           y5 == [x EXCEPT !.sup = "none"]
           Same(y) == /\ y \in NodeType /\ y.poll = x.poll /\ y.offset = x.offset
                      /\ y.current = x.current /\ y.rest = x.rest
<1>0. UNCHANGED <<owner, arrived, deliveryVars, broken>>
  BY DEF Wakes, Recovers, Save, StopNode, LoopEnds
<1>1. x \in NodeType
  BY NodeFacts
<1>2. Same(y1) /\ Same(y2) /\ Same(y3) /\ Same(y4) /\ Same(y5)
  BY <1>1 DEF NodeType
<1>3. /\ y1.sup = "pass" /\ y1.life = x.life
      /\ y2.sup = x.sup /\ y2.life = x.life
      /\ y3.sup = x.sup /\ y3.life = x.life
      /\ y4.sup = x.sup /\ y4.life = "stopping"
      /\ y5.sup = "none" /\ y5.life = x.life
  BY <1>1 DEF NodeType
<1>4. CASE Wakes(n)
  <2>1. node' = [node EXCEPT ![n] = y1] /\ x.life = "up"
    BY <1>4 DEF Wakes
  <2>2. Becomes(n, y1)
    BY <1>0, <1>2, <1>3, <2>1, Quietly
  <2> QED
    BY <2>2
<1>5. CASE Recovers(n)
  <2>1. node' = [node EXCEPT ![n] = y2]
    BY <1>5 DEF Recovers
  <2>2. Becomes(n, y2)
    BY <1>0, <1>2, <1>3, <2>1, Quietly
  <2> QED
    BY <2>2
<1>6. CASE Save(n)
  <2>1. node' = [node EXCEPT ![n] = y3]
    BY <1>6 DEF Save
  <2>2. Becomes(n, y3)
    BY <1>0, <1>2, <1>3, <2>1, Quietly
  <2> QED
    BY <2>2
<1>7. CASE StopNode(n)
  <2>1. node' = [node EXCEPT ![n] = y4]
    BY <1>7 DEF StopNode
  <2>2. Becomes(n, y4)
    BY <1>0, <1>2, <1>3, <2>1, Quietly
  <2> QED
    BY <2>2
<1>8. CASE LoopEnds(n)
  <2>1. node' = [node EXCEPT ![n] = y5] /\ x.life = "stopping"
    BY <1>8 DEF LoopEnds
  <2>2. Becomes(n, y5)
    BY <1>0, <1>2, <1>3, <2>1, Quietly
  <2> QED
    BY <2>2
<1> QED
  BY <1>4, <1>5, <1>6, <1>7, <1>8

(* The steps that end a poller, or find none. *)
LEMMA EndMoves ==
  ASSUME Fine, NEW n \in Nodes,
         BootNode(n) \/ Quits(n) \/ CrashNode(n) \/ Conflict(n)
  PROVE  \E y : Becomes(n, y)
<1> DEFINE x == node[n]
           y1 == [Absent EXCEPT !.life = "up", !.sup = "pass"]
           y2 == [WithoutPoller(x) EXCEPT !.state = "conflict", !.recent = TRUE]
<1>0. x \in NodeType /\ BatchOf(x, arrived) /\ Sound(x)
  BY NodeFacts
<1>1. Absent \in NodeType /\ Absent.poll = "none" /\ Absent.current = 0
      /\ Absent.rest = {} /\ Absent.sup = "none"
  BY AbsentType DEF Absent
<1>2. y1 \in NodeType /\ y1.poll = "none" /\ y1.current = 0 /\ y1.rest = {}
      /\ y1.sup = "pass" /\ y1.life = "up"
  BY <1>1 DEF NodeType
<1>3. CASE BootNode(n)
  <2>1. Cut(node[n])
    BY <1>0, <1>3, NothingCut DEF BootNode, Sound
  <2>2. Becomes(n, y1)
    BY <1>2, <1>3, <2>1, Ending DEF BootNode
  <2> QED
    BY <2>2
<1>4. CASE Quits(n) \/ CrashNode(n)
  <2>1. /\ Cut(node[n]) /\ UNCHANGED <<arrived, deliveryVars>>
        /\ node' = [node EXCEPT ![n] = Absent]
        /\ owner' = owner \/ owner = n
    BY <1>4 DEF Quits, CrashNode, Released
  <2>2. Becomes(n, Absent)
    BY <1>1, <2>1, Ending
  <2> QED
    BY <2>2
<1>5. CASE Conflict(n)
  <2>1. WithoutPoller(x) \in NodeType
    BY <1>0, ChangesType DEF Fine
  <2>2. y2 \in NodeType /\ y2.poll = "none" /\ y2.current = 0 /\ y2.rest = {}
        /\ y2.sup = x.sup /\ y2.life = x.life
    BY <1>0, <2>1 DEF NodeType, WithoutPoller
  <2>3. x.poll = "asking"
    BY <1>5 DEF Conflict
  <2>4. x.sup # "probing" /\ x.life # "down"
    BY <1>0, <2>3 DEF Sound
  <2>5. Cut(node[n])
    BY <1>5, <2>3, NothingCut DEF Conflict
  <2>6. Becomes(n, y2)
    BY <1>5, <2>2, <2>4, <2>5, Ending DEF Conflict
  <2> QED
    BY <2>6
<1> QED
  BY <1>3, <1>4, <1>5

Taking(n, batch, u) ==
  [node[n] EXCEPT !.poll = "handling", !.current = u, !.rest = batch \ {u},
                  !.offset = u + 1]

LEMMA TakesIs ==
  ASSUME Fine, NEW n \in Nodes, NEW batch \in SUBSET (1..arrived), NEW u \in batch,
         \A v \in batch : u <= v, Takes(n, batch)
  PROVE  LET y == Taking(n, batch, u) IN
         /\ y \in NodeType /\ y.poll = "handling" /\ y.current = u
         /\ y.rest = batch \ {u} /\ y.offset = u + 1
         /\ y.sup = node[n].sup /\ y.life = node[n].life
         /\ u \in 1..arrived /\ BatchOf(y, arrived)
         /\ node' = [node EXCEPT ![n] = y]
         /\ saved' = u + 1 \/ (UNCHANGED saved /\ "disk" \in trouble)
         /\ handled' = [handled EXCEPT ![u] = @ + 1]
<1> DEFINE y == Taking(n, batch, u)
<1>1. arrived \in Nat /\ arrived <= MaxUpdates /\ u \in 1..arrived
  BY Naturals DEF Fine, BotTypeOK
<1>2. Smallest(batch) = u
  <2>1. batch \in SUBSET Nat
    BY <1>1
  <2> QED
    BY <2>1, SmallestIs
<1>3. node[n] \in NodeType
  BY NodeFacts
<1>4. u \in 0..MaxUpdates /\ u + 1 \in Offsets /\ batch \ {u} \in SUBSET Updates
  BY <1>1, Naturals DEF Offsets, Updates
<1>5. y \in NodeType /\ y.poll = "handling" /\ y.current = u /\ y.rest = batch \ {u}
      /\ y.offset = u + 1 /\ y.sup = node[n].sup /\ y.life = node[n].life
  <2>1. y \in NodeType
    BY <1>3, <1>4, Zenon DEF NodeType, Taking
  <2> QED
    BY <1>3, <2>1 DEF NodeType, Taking
<1>6. BatchOf(y, arrived)
  BY <1>1, <1>5 DEF BatchOf
<1>7. node' = [node EXCEPT ![n] = y]
  <2>1. node' = [node EXCEPT ![n] =
          [@ EXCEPT !.poll = "handling", !.current = u, !.rest = batch \ {u},
                    !.offset = u + 1]]
    BY <1>2 DEF Takes
  <2> QED
    BY <2>1 DEF Taking
<1>8. saved' = u + 1 \/ (UNCHANGED saved /\ "disk" \in trouble)
  BY <1>2 DEF Takes, Happens
<1>9. handled' = [handled EXCEPT ![u] = @ + 1]
  BY <1>2 DEF Takes
<1> QED
  BY <1>1, <1>5, <1>6, <1>7, <1>8, <1>9

LEMMA FetchMoves ==
  ASSUME Fine, NEW n \in Nodes, Fetch(n)
  PROVE  \E y : Becomes(n, y)
<1> DEFINE u == Larger(acked, node[n].offset)
           batch == {v \in 1..arrived : v >= u}
           y == Taking(n, batch, u)
<1>1. node[n] \in NodeType /\ Sound(node[n]) /\ node[n].poll = "asking"
      /\ arrived \in Nat
  BY NodeFacts DEF Fetch, Fine, BotTypeOK
<1>2. u \in Nat \ {0}
  BY <1>1, Naturals DEF NodeType, Larger, Offsets, Fine, BotTypeOK
<1>3. batch \in SUBSET (1..arrived) /\ batch # {} /\ \A v \in batch : u <= v
  BY <1>1, <1>2 DEF Fetch
<1>4. u \in batch
  BY <1>1, <1>2, <1>3
<1>5. batch \ {u} = (u + 1)..arrived
  BY <1>1, <1>2
<1>6. Takes(n, batch) /\ acked' = u /\ UNCHANGED <<owner, arrived, finished, broken>>
  BY DEF Fetch
<1> HIDE DEF batch, u
<1>7. /\ y \in NodeType /\ y.poll = "handling" /\ y.current = u
      /\ y.rest = batch \ {u} /\ y.offset = u + 1
      /\ y.sup = node[n].sup /\ y.life = node[n].life
      /\ u \in 1..arrived /\ BatchOf(y, arrived)
      /\ node' = [node EXCEPT ![n] = y]
      /\ saved' = u + 1 \/ (UNCHANGED saved /\ "disk" \in trouble)
      /\ handled' = [handled EXCEPT ![u] = @ + 1]
  BY <1>3, <1>4, <1>6, TakesIs
<1>8. Sound(y)
  <2>1. u \in Nat /\ \A v \in y.rest : u < v /\ (u + 1)..v \subseteq y.rest
    BY <1>1, <1>5, <1>7
  <2> QED
    BY <1>1, <1>7, <2>1 DEF Sound
<1>9. TakenFirst(n, y, u)
  BY <1>1, <1>5, <1>6, <1>7 DEF TakenFirst, Taken, u
<1>10. Becomes(n, y)
  BY <1>7, <1>8, <1>9, Zenon DEF Becomes, Moves
<1> QED
  BY <1>10

LEMMA HandledMoves ==
  ASSUME Fine, NEW n \in Nodes, Handled(n)
  PROVE  \E y : Becomes(n, y)
<1> DEFINE x == node[n]
<1>1. x \in NodeType /\ BatchOf(x, arrived) /\ Sound(x) /\ x.poll = "handling"
      /\ arrived \in Nat
  BY NodeFacts DEF Handled, Fine, BotTypeOK
<1>2. /\ finished' = finished \cup {x.current}
      /\ UNCHANGED <<owner, arrived, acked, broken>>
  BY DEF Handled
<1>3. CASE x.rest # {}
  <2>1. x.rest \in SUBSET (1..arrived)
    BY <1>1 DEF BatchOf
  <2> DEFINE u == x.current + 1
             y == Taking(n, x.rest, u)
  <2>2. u \in x.rest /\ \A v \in x.rest : u <= v
    <3>1. x.current \in Nat /\ x.rest \subseteq Nat
      BY <1>1, <2>1 DEF BatchOf
    <3>2. \A v \in x.rest : x.current < v /\ u..v \subseteq x.rest
      BY <1>1 DEF Sound
    <3> QED
      BY <1>3, <3>1, <3>2
  <2>3. Takes(n, x.rest)
    BY <1>3 DEF Handled
  <2>4. /\ y \in NodeType /\ y.poll = "handling" /\ y.current = u
        /\ y.rest = x.rest \ {u} /\ y.offset = u + 1
        /\ y.sup = x.sup /\ y.life = x.life
        /\ u \in 1..arrived /\ BatchOf(y, arrived)
        /\ node' = [node EXCEPT ![n] = y]
        /\ saved' = u + 1 \/ (UNCHANGED saved /\ "disk" \in trouble)
        /\ handled' = [handled EXCEPT ![u] = @ + 1]
    BY <2>1, <2>2, <2>3, TakesIs
  <2>5. Sound(y)
    <3>1. \A v \in y.rest : u < v /\ (u + 1)..v \subseteq y.rest
      BY <1>1, <2>1, <2>2, <2>4 DEF Sound, BatchOf
    <3> QED
      BY <1>1, <2>4, <3>1 DEF Sound
  <2>6. TakenNext(n, y, u)
    BY <1>1, <1>2, <2>2, <2>4 DEF TakenNext, Taken
  <2>7. Becomes(n, y)
    BY <2>4, <2>5, <2>6, Zenon DEF Becomes, Moves
  <2> QED
    BY <2>7
<1>4. CASE x.rest = {}
  <2> DEFINE y == [WithoutPoller(x) EXCEPT
                     !.poll = IF x.life = "stopping" THEN "none" ELSE "asking"]
  <2>1. WithoutPoller(x) \in NodeType /\ node' = [node EXCEPT ![n] = y]
        /\ UNCHANGED <<saved, handled>>
    BY <1>1, <1>4, ChangesType DEF Fine, Handled
  <2>2. y \in NodeType /\ y.poll \in {"none", "asking"} /\ y.current = 0 /\ y.rest = {}
        /\ y.sup = x.sup /\ y.life = x.life /\ y.offset = x.offset
    BY <1>1, <2>1 DEF NodeType, WithoutPoller
  <2>3. BatchOf(y, arrived) /\ Sound(y)
    BY <1>1, <2>2 DEF BatchOf, Sound
  <2>4. Finished(n, y)
    BY <1>1, <1>2, <1>4, <2>1, <2>2 DEF Finished
  <2>5. Becomes(n, y)
    BY <2>1, <2>2, <2>3, <2>4, Zenon DEF Becomes, Moves
  <2> QED
    BY <2>5
<1> QED
  BY <1>3, <1>4

-----------------------------------------------------------------------------
LEMMA ActionCases ==
  ASSUME BotNext
  PROVE  \/ UpdateArrives
         \/ \E n \in Nodes :
              \/ Reconcile(n) \/ Probed(n) \/ ProbeFails(n) \/ Wakes(n) \/ LoopEnds(n)
              \/ Quits(n) \/ Fetch(n) \/ Handled(n) \/ Recovers(n) \/ Conflict(n)
              \/ BootNode(n) \/ Save(n) \/ StopNode(n) \/ CrashNode(n)
BY Zenon DEF BotNext, Supervises, Polls

LEMMA StepMoves ==
  ASSUME Fine, BotNext
  PROVE  UpdateArrives \/ \E n \in Nodes : \E y : Becomes(n, y)
<1>1. SUFFICES ASSUME NEW n \in Nodes,
                      \/ Reconcile(n) \/ Probed(n) \/ ProbeFails(n) \/ Wakes(n)
                      \/ LoopEnds(n) \/ Quits(n) \/ Fetch(n) \/ Handled(n)
                      \/ Recovers(n) \/ Conflict(n) \/ BootNode(n) \/ Save(n)
                      \/ StopNode(n) \/ CrashNode(n)
               PROVE  \E y : Becomes(n, y)
  BY ActionCases, Zenon
<1> QED
  BY <1>1, ReconcileMoves, ProbeMoves, QuietMoves, EndMoves, FetchMoves, HandledMoves,
     Zenon

(* The lock, the settings and the troubles. *)
LEMMA OthersType ==
  ASSUME BotTypeOK, BotNext
  PROVE  /\ owner' \in Nodes \cup {NoNode}
         /\ settings' \in [version : 1..(MaxSaves + 1), on : BOOLEAN]
         /\ trouble' = trouble /\ suffered' \in 0..MaxTroubles
<1>0. MaxTroubles \in Nat /\ MaxSaves \in Nat
  BY PollingAssumption
<1>1. owner' \in Nodes \cup {NoNode}
  BY ActionCases DEF BotTypeOK, UpdateArrives, Reconcile, Probed, ProbeFails, Wakes,
     LoopEnds, Quits, Fetch, Handled, Recovers, Conflict, BootNode, Save, StopNode,
     CrashNode, Released
<1>2. settings' \in [version : 1..(MaxSaves + 1), on : BOOLEAN]
  <2>1. CASE UNCHANGED settings
    BY <2>1 DEF BotTypeOK
  <2>2. CASE \E n \in Nodes : Save(n)
    <3>1. PICK on \in BOOLEAN : settings' = [version |-> settings.version + 1, on |-> on]
      BY <2>2 DEF Save
    <3>2. settings.version \in 1..(MaxSaves + 1) /\ settings.version <= MaxSaves
      BY <2>2 DEF Save, BotTypeOK
    <3>3. settings.version + 1 \in 1..(MaxSaves + 1)
      BY <1>0, <3>2
    <3> QED
      BY <3>1, <3>3
  <2> QED
    BY <2>1, <2>2, ActionCases DEF UpdateArrives, Reconcile, Probed, ProbeFails, Wakes,
       LoopEnds, Quits, Fetch, Handled, Recovers, Conflict, BootNode, StopNode, CrashNode
<1>3. Smoothly \/ \E kind : Happens(kind)
  BY ActionCases, Zenon DEF UpdateArrives, Reconcile, Probed, ProbeFails, Wakes,
     LoopEnds, Quits, Fetch, Handled, Recovers, Conflict, BootNode, Save, StopNode,
     CrashNode, Takes
<1>4. trouble' = trouble /\ suffered' \in 0..MaxTroubles
  BY <1>0, <1>3 DEF Smoothly, Happens, BotTypeOK
<1> QED
  BY <1>1, <1>2, <1>4

LEMMA FineBecomes ==
  ASSUME Fine, BotNext, NEW n \in Nodes, NEW y, Becomes(n, y)
  PROVE  Fine'
<1>0. y \in NodeType /\ BatchOf(y, arrived) /\ Sound(y) /\ node' = [node EXCEPT ![n] = y]
      /\ node \in [Nodes -> NodeType] /\ Moves(n, y)
  BY PollingTypeUnfolded DEF Becomes, Fine
<1>1. node' \in [Nodes -> NodeType] /\ arrived' = arrived
  BY <1>0 DEF Moves, Quiet, Ended, Started, Finished, TakenFirst, TakenNext, Taken
<1>2. \A m \in Nodes : BatchOf(node'[m], arrived) /\ Sound(node'[m])
  BY <1>0, NodeFacts
<1>3. saved' \in Offsets /\ acked' \in Offsets /\ handled' \in [Updates -> Nat]
  <2>0. /\ saved \in Offsets /\ acked \in Offsets /\ handled \in [Updates -> Nat]
        /\ arrived \in 0..MaxUpdates
    BY DEF Fine, BotTypeOK
  <2>1. CASE UNCHANGED <<saved, acked, handled>>
    BY <2>0, <2>1
  <2>2. ASSUME NEW u \in 1..arrived, TakenFirst(n, y, u) \/ TakenNext(n, y, u)
        PROVE  saved' \in Offsets /\ acked' \in Offsets /\ handled' \in [Updates -> Nat]
    <3>1. u \in Updates /\ u \in Offsets /\ u + 1 \in Offsets
      BY <2>0, Naturals DEF Updates, Offsets
    <3>2. acked' \in {acked, u} /\ saved' \in {saved, u + 1}
          /\ handled' = [handled EXCEPT ![u] = @ + 1]
      BY <2>2 DEF TakenFirst, TakenNext, Taken
    <3>3. handled' \in [Updates -> Nat]
      BY <2>0, <3>1, <3>2
    <3> QED
      BY <2>0, <3>1, <3>2, <3>3
  <2> QED
    BY <1>0, <2>1, <2>2 DEF Moves, Quiet, Ended, Started, Finished, deliveryVars
<1>4. finished' \subseteq Updates
  <2>1. node[n].poll = "handling" => node[n].current \in Updates
    BY NodeFacts, Naturals DEF BatchOf, Updates, Fine, BotTypeOK
  <2>2. finished \subseteq Updates
    BY DEF Fine, BotTypeOK
  <2> QED
    BY <1>0, <2>1, <2>2 DEF Moves, Quiet, Ended, Started, Finished, TakenFirst, TakenNext,
       deliveryVars
<1>5. broken' \in Nat
  BY <1>0 DEF Moves, Quiet, Ended, Started, Finished, TakenFirst, TakenNext, Taken, Cut,
     Fine, BotTypeOK
<1>6. trouble' \in Troubles /\ arrived' \in 0..MaxUpdates
  BY <1>1, OthersType DEF Fine, BotTypeOK
<1>7. BotTypeOK'
  BY <1>1, <1>2, <1>3, <1>4, <1>5, <1>6, OthersType, Zenon
     DEF Fine, BotTypeOK, NodeType, BatchOf
<1> QED
  BY <1>1, <1>2, <1>7 DEF Fine

LEMMA FineArrives ==
  ASSUME Fine, UpdateArrives
  PROVE  Fine'
<1>1. arrived \in 0..MaxUpdates /\ arrived' \in 0..MaxUpdates /\ arrived' = arrived + 1
  BY Naturals DEF UpdateArrives, Fine, BotTypeOK
<1>2. \A n \in Nodes : BatchOf(node[n], arrived')
  BY <1>1, NodeFacts DEF BatchOf
<1>3. BotTypeOK'
  BY <1>1, <1>2, Zenon
     DEF UpdateArrives, Fine, BotTypeOK, BatchOf, deliveryVars, Smoothly
<1> QED
  BY <1>3 DEF Fine, UpdateArrives

LEMMA FineStep == Fine /\ [BotNext]_botVars => Fine'
<1>1. CASE Fine /\ UNCHANGED botVars
  BY <1>1, Zenon DEF Fine, BotTypeOK, botVars
<1> QED
  BY <1>1, StepMoves, FineBecomes, FineArrives

LEMMA FineInit == BotInit => Fine
<1> SUFFICES ASSUME BotInit PROVE Fine
  OBVIOUS
<1>1. \A n \in Nodes : node[n] = Absent
  BY DEF BotInit
<1>2. Sound(Absent)
  BY DEF Sound, Absent
<1>3. node \in [Nodes -> NodeType] /\ \A n \in Nodes : BatchOf(node[n], arrived)
  BY <1>1, AbsentType DEF BotInit
<1>4. BotTypeOK
  BY <1>3, PollingTypeUnfolded, PollingAssumption DEF BotInit, Offsets, Updates
<1> QED
  BY <1>1, <1>2, <1>4 DEF Fine

(* The variables keep their types, and a poller has the batch it should:   *)
(* what follows its current update, without a gap.                         *)
THEOREM BotTypes == BotFairSpec => []Fine
BY FineInit, FineStep, PTL DEF BotFairSpec

-----------------------------------------------------------------------------
(* One process polls.  A process that is about to start a poller, while it *)
(* asks the Bot API, must hold the lock already.                           *)
Claims(x) == x.poll # "none" \/ x.sup = "probing"

Claimed == Fine /\ \A n \in Nodes : Claims(node[n]) => owner = n

LEMMA ClaimedBecomes ==
  ASSUME Claimed, BotNext, NEW n \in Nodes, NEW y, Becomes(n, y)
  PROVE  \A m \in Nodes : Claims(node'[m]) => owner' = m
<1>0. node' = [node EXCEPT ![n] = y] /\ Moves(n, y) /\ node \in [Nodes -> NodeType]
      /\ NoNode \notin Nodes
  BY PollingTypeUnfolded, Naturals DEF Becomes, Claimed, Fine
<1>1. node'[n] = y /\ \A m \in Nodes \ {n} : node'[m] = node[m]
  BY <1>0
<1>2. CASE Ended(n, y)
  <2>1. Claims(y) => owner = n /\ owner' = owner
    BY <1>2 DEF Ended, Claims
  <2>2. ASSUME NEW m \in Nodes \ {n}, Claims(node[m])
        PROVE  owner' = m
    <3>1. owner = m
      BY <2>2 DEF Claimed
    <3> QED
      BY <1>0, <1>2, <3>1 DEF Ended
  <2> QED
    BY <1>1, <2>1, <2>2
<1>3. CASE ~Ended(n, y)
  <2>1. owner' = owner
    BY <1>0, <1>3 DEF Moves, Quiet, Started, Finished, TakenFirst, TakenNext, Taken
  <2>2. Claims(y) => Claims(node[n])
    BY <1>0, <1>3 DEF Moves, Quiet, Started, Finished, TakenFirst, TakenNext, Taken, Claims
  <2> QED
    BY <1>1, <2>1, <2>2 DEF Claimed
<1> QED
  BY <1>2, <1>3

LEMMA ClaimedStep == Claimed /\ [BotNext]_botVars => Claimed'
<1> SUFFICES ASSUME Claimed, [BotNext]_botVars PROVE Claimed'
  OBVIOUS
<1>1. Fine'
  BY FineStep DEF Claimed
<1>2. CASE UNCHANGED botVars \/ UpdateArrives
  BY <1>1, <1>2, Zenon DEF Claimed, botVars, UpdateArrives
<1>3. CASE BotNext /\ \E n \in Nodes : \E y : Becomes(n, y)
  BY <1>1, <1>3, ClaimedBecomes DEF Claimed
<1> QED
  BY <1>2, <1>3, StepMoves DEF Claimed

LEMMA ClaimedInit == BotInit => Claimed
BY FineInit DEF BotInit, Claimed, Claims, Absent

LEMMA OnePoller ==
  ASSUME Claimed, NEW m \in Nodes, NEW n \in Nodes, Claims(node[m]), Claims(node[n])
  PROVE  m = n
BY DEF Claimed

(* "So a multi-replica deployment never consumes the same update stream    *)
(* twice": a poller runs only where the scheduler lock is.                 *)
THEOREM PollsWithLock == BotFairSpec => []OnlyOwnerPolls
<1>1. Claimed => OnlyOwnerPolls
  BY DEF Claimed, Claims, OnlyOwnerPolls
<1> QED
  BY <1>1, ClaimedInit, ClaimedStep, PTL DEF BotFairSpec

-----------------------------------------------------------------------------
(* As long as the offset can be written, the file and the poller agree on  *)
(* it, and nothing from it on has been handled.                            *)
Untouched ==
  /\ \A u \in Updates : handled[u] <= 1 /\ (u >= saved => handled[u] = 0)
  /\ \A n \in Nodes : node[n].poll # "none" => node[n].offset = saved

Once == Claimed /\ ("disk" \notin trouble => Untouched)

LEMMA UntouchedTaken ==
  ASSUME Claimed, Untouched, "disk" \notin trouble, NEW n \in Nodes, NEW y,
         Becomes(n, y), NEW u \in 1..arrived, TakenFirst(n, y, u) \/ TakenNext(n, y, u)
  PROVE  Untouched'
<1>0. /\ node[n] \in NodeType /\ BatchOf(node[n], arrived) /\ Sound(node[n])
      /\ node \in [Nodes -> NodeType] /\ node' = [node EXCEPT ![n] = y]
      /\ saved \in Nat /\ acked \in Nat /\ handled \in [Updates -> Nat]
      /\ Updates \subseteq Nat
  <2>1. node[n] \in NodeType /\ BatchOf(node[n], arrived) /\ Sound(node[n])
    BY NodeFacts DEF Claimed
  <2>2. node \in [Nodes -> NodeType] /\ node' = [node EXCEPT ![n] = y]
    BY PollingTypeUnfolded DEF Becomes, Claimed, Fine
  <2>3. saved \in Nat /\ acked \in Nat /\ handled \in [Updates -> Nat] /\ Updates \subseteq Nat
    BY Naturals DEF Claimed, Fine, BotTypeOK, Offsets, Updates
  <2> QED
    BY <2>1, <2>2, <2>3
<1>1. node[n].poll # "none" /\ y.offset = u + 1 /\ saved' = u + 1
      /\ handled' = [handled EXCEPT ![u] = @ + 1] /\ u \in Nat
  BY DEF TakenFirst, TakenNext, Taken
<1>2. node[n].offset = saved
  BY <1>1 DEF Untouched
<1>3. u >= saved
  <2>1. CASE TakenFirst(n, y, u)
    BY <1>0, <1>2, <2>1 DEF TakenFirst, Larger
  <2>2. CASE TakenNext(n, y, u)
    BY <1>0, <1>2, <2>2 DEF TakenNext, Sound, BatchOf
  <2> QED
    BY <2>1, <2>2
<1>4. \A v \in Updates : handled'[v] <= 1 /\ (v >= saved' => handled'[v] = 0)
  <2> TAKE v \in Updates
  <2>1. handled[v] <= 1 /\ (v >= saved => handled[v] = 0) /\ handled[v] \in Nat /\ v \in Nat
    BY <1>0 DEF Untouched
  <2>2. CASE v = u
    BY <1>0, <1>1, <1>3, <2>1, <2>2
  <2>3. CASE v # u
    BY <1>0, <1>1, <1>3, <2>1, <2>3
  <2> QED
    BY <2>2, <2>3
<1>5. ASSUME NEW m \in Nodes, node'[m].poll # "none"
      PROVE  node'[m].offset = saved'
  <2>1. CASE m = n
    BY <1>0, <1>1, <2>1
  <2>2. CASE m # n
    <3>1. node'[m] = node[m]
      BY <1>0, <2>2
    <3> QED
      BY <1>1, <1>5, <2>2, <3>1, OnePoller DEF Claims
  <2> QED
    BY <2>1, <2>2
<1> QED
  BY <1>4, <1>5 DEF Untouched

LEMMA UntouchedBecomes ==
  ASSUME Claimed, Untouched, "disk" \notin trouble, NEW n \in Nodes, NEW y, Becomes(n, y)
  PROVE  Untouched'
<1>0. node \in [Nodes -> NodeType] /\ node' = [node EXCEPT ![n] = y] /\ Moves(n, y)
  BY PollingTypeUnfolded DEF Becomes, Claimed, Fine
<1>1. CASE Quiet(n, y) \/ Ended(n, y) \/ Started(n, y) \/ Finished(n, y)
  <2>1. UNCHANGED <<saved, handled>>
    BY <1>1 DEF Quiet, Ended, Started, Finished, deliveryVars
  <2>2. y.poll # "none" => y.offset = saved
    BY <1>1 DEF Quiet, Ended, Started, Finished, Untouched
  <2>3. \A m \in Nodes : node'[m] = IF m = n THEN y ELSE node[m]
    BY <1>0
  <2> QED
    BY <2>1, <2>2, <2>3 DEF Untouched
<1>2. CASE \E u \in 1..arrived : TakenFirst(n, y, u) \/ TakenNext(n, y, u)
  BY <1>2, UntouchedTaken
<1> QED
  BY <1>0, <1>1, <1>2, Zenon DEF Moves

LEMMA HandledOnceStep == Once /\ [BotNext]_botVars => Once'
<1> SUFFICES ASSUME Once, [BotNext]_botVars PROVE Once'
  OBVIOUS
<1>1. Claimed'
  BY ClaimedStep DEF Once
<1>2. CASE UNCHANGED botVars \/ UpdateArrives
  BY <1>1, <1>2, Zenon DEF Once, Untouched, botVars, UpdateArrives, deliveryVars, Smoothly
<1>3. CASE BotNext /\ \E n \in Nodes : \E y : Becomes(n, y)
  <2>1. trouble' = trouble
    BY <1>3, OthersType DEF Once, Claimed, Fine
  <2> QED
    BY <1>1, <1>3, <2>1, UntouchedBecomes DEF Once
<1> QED
  BY <1>2, <1>3, StepMoves DEF Once, Claimed

LEMMA OnceInit == BotInit => Once
BY ClaimedInit DEF BotInit, Once, Untouched, Absent

(* A command is not carried out twice, after a crash or a restart either,  *)
(* as long as the offset could be written.                                 *)
THEOREM HandledAtMostOnce == BotFairSpec => []HandledOnce
<1>1. Once => HandledOnce
  BY DEF Once, Untouched, HandledOnce
<1> QED
  BY <1>1, OnceInit, HandledOnceStep, PTL DEF BotFairSpec

-----------------------------------------------------------------------------
(* What will not be handled any more: the updates before the stored, the   *)
(* acknowledged or the poller's own offset that neither were handled to    *)
(* the end nor are being handled.                                          *)
Underway(u) == \E n \in Nodes : node[n].poll = "handling" /\ node[n].current = u

Passed(u) ==
  \/ u < saved \/ u < acked
  \/ \E n \in Nodes : node[n].poll # "none" /\ u < node[n].offset

Lost ==
  {u \in Updates : u <= arrived /\ Passed(u) /\ u \notin finished /\ ~Underway(u)}

OffsetsInOrder ==
  /\ saved <= arrived + 1 /\ acked <= arrived + 1
  /\ \A n \in Nodes :
       LET x == node[n] IN
       /\ x.poll # "none" => saved <= x.offset /\ x.offset <= arrived + 1
       /\ x.poll = "handling" => acked <= x.offset

Counted == Claimed /\ OffsetsInOrder /\ Cardinality(Lost) <= broken

LEMMA LostFinite == MaxUpdates \in Nat => IsFiniteSet(Lost)
<1> HAVE MaxUpdates \in Nat
<1>1. Lost \subseteq 1..MaxUpdates
  BY DEF Lost, Updates
<1>2. IsFiniteSet(1..MaxUpdates)
  BY FS_Interval
<1> QED
  BY <1>1, <1>2, FS_Subset

LEMMA PollingNumbers ==
  ASSUME Claimed, NEW n \in Nodes
  PROVE  /\ saved \in Nat /\ acked \in Nat /\ arrived \in Nat /\ broken \in Nat
         /\ node[n].offset \in Nat /\ node[n].current \in Nat /\ Updates \subseteq Nat
         /\ node[n] \in NodeType /\ BatchOf(node[n], arrived) /\ Sound(node[n])
<1>1. node[n] \in NodeType /\ BatchOf(node[n], arrived) /\ Sound(node[n])
  BY NodeFacts DEF Claimed
<1>2. node[n].offset \in Nat /\ node[n].current \in Nat
  BY <1>1, Naturals DEF NodeType, Offsets
<1>3. saved \in Nat /\ acked \in Nat /\ arrived \in Nat /\ broken \in Nat
      /\ Updates \subseteq Nat
  BY Naturals DEF Claimed, Fine, BotTypeOK, Offsets, Updates
<1> QED
  BY <1>1, <1>2, <1>3

(* A step without a new gap. *)
LEMMA NoMoreLost ==
  ASSUME Counted, MaxUpdates \in Nat, Lost' \subseteq Lost, UNCHANGED broken
  PROVE  (Cardinality(Lost) <= broken)'
<1>1. Cardinality(Lost') <= Cardinality(Lost) /\ Cardinality(Lost') \in Nat
      /\ Cardinality(Lost) \in Nat
  BY LostFinite, FS_Subset, FS_CardinalityType
<1> QED
  BY <1>1 DEF Counted, Claimed, Fine, BotTypeOK

LEMMA OneMoreLost ==
  ASSUME Counted, MaxUpdates \in Nat, NEW c, Lost' \subseteq Lost \cup {c},
         broken' = broken + 1
  PROVE  (Cardinality(Lost) <= broken)'
<1>1. IsFiniteSet(Lost \cup {c}) /\ Cardinality(Lost \cup {c}) <= Cardinality(Lost) + 1
      /\ Cardinality(Lost) \in Nat
  <2>1. IsFiniteSet(Lost)
    BY LostFinite
  <2>2. Cardinality(Lost) \in Nat
    BY <2>1, FS_CardinalityType
  <2>3. /\ IsFiniteSet(Lost \cup {c})
        /\ \/ Cardinality(Lost \cup {c}) = Cardinality(Lost)
           \/ Cardinality(Lost \cup {c}) = Cardinality(Lost) + 1
    BY <2>1, FS_AddElement
  <2> QED
    BY <2>2, <2>3
<1>2. Cardinality(Lost') <= Cardinality(Lost \cup {c}) /\ Cardinality(Lost') \in Nat
      /\ Cardinality(Lost \cup {c}) \in Nat
  BY <1>1, FS_Subset, FS_CardinalityType
<1> QED
  BY <1>1, <1>2 DEF Counted, Claimed, Fine, BotTypeOK

LEMMA QuietCounts ==
  ASSUME Counted, NEW n \in Nodes, NEW y, Becomes(n, y),
         Quiet(n, y) \/ Started(n, y) \/ Ended(n, y)
  PROVE  OffsetsInOrder' /\ (Cardinality(Lost) <= broken)'
<1>0. /\ node \in [Nodes -> NodeType] /\ node' = [node EXCEPT ![n] = y]
      /\ MaxUpdates \in Nat /\ Claimed
      /\ UNCHANGED <<arrived, saved, acked, handled, finished>>
  BY PollingTypeUnfolded, Naturals
     DEF Becomes, Counted, Claimed, Fine, Quiet, Started, Ended, deliveryVars
<1>1. \A m \in Nodes : node'[m] = IF m = n THEN y ELSE node[m]
  BY <1>0
<1>2. OffsetsInOrder'
  <2>1. saved <= arrived + 1 /\ acked <= arrived + 1
    BY DEF Counted, OffsetsInOrder
  <2>2. /\ y.poll # "none" => saved <= y.offset /\ y.offset <= arrived + 1
        /\ y.poll = "handling" => acked <= y.offset
    BY <1>0, <2>1, PollingNumbers
       DEF Quiet, Started, Ended, Counted, OffsetsInOrder
  <2> QED
    BY <1>0, <1>1, <2>1, <2>2 DEF Counted, OffsetsInOrder
<1>3. ASSUME NEW u \in Updates, Passed(u)'
      PROVE  Passed(u)
  <2>1. y.poll # "none" /\ u < y.offset => Passed(u)
    BY DEF Quiet, Started, Ended, Passed
  <2> QED
    BY <1>0, <1>1, <1>3, <2>1 DEF Passed
<1>4. CASE (Quiet(n, y) \/ Started(n, y) \/ node[n].poll # "handling")
  <2>1. ASSUME NEW u \in Updates, Underway(u)
        PROVE  Underway(u)'
    <3>1. PICK m \in Nodes : node[m].poll = "handling" /\ node[m].current = u
      BY <2>1 DEF Underway
    <3>2. node'[m].poll = "handling" /\ node'[m].current = u
      <4>1. CASE m # n
        BY <1>1, <3>1, <4>1
      <4>2. CASE m = n
        <5>1. Quiet(n, y)
          BY <1>0, <1>4, <3>1, <4>2, PollingNumbers DEF Started, Sound
        <5> QED
          BY <1>1, <3>1, <4>2, <5>1 DEF Quiet
      <4> QED
        BY <4>1, <4>2
    <3> QED
      BY <3>2 DEF Underway
  <2>2. Lost' \subseteq Lost
    BY <1>0, <1>3, <2>1 DEF Lost
  <2>3. UNCHANGED broken
    BY <1>0, <1>4, PollingNumbers DEF Quiet, Started, Ended, Cut
  <2> QED
    BY <1>0, <1>2, <2>2, <2>3, NoMoreLost
<1>5. CASE Ended(n, y) /\ node[n].poll = "handling"
  <2>1. ASSUME NEW u \in Updates, Underway(u), u # node[n].current
        PROVE  Underway(u)'
    <3>1. PICK m \in Nodes : node[m].poll = "handling" /\ node[m].current = u
      BY <2>1 DEF Underway
    <3>2. node'[m] = node[m]
      BY <1>1, <2>1, <3>1
    <3> QED
      BY <3>1, <3>2 DEF Underway
  <2>2. Lost' \subseteq Lost \cup {node[n].current}
    BY <1>0, <1>3, <2>1 DEF Lost
  <2>3. broken' = broken + 1
    BY <1>5 DEF Ended, Cut
  <2> QED
    BY <1>0, <1>2, <2>2, <2>3, OneMoreLost
<1> QED
  BY <1>4, <1>5

(* The steps of the one poller. *)
LEMMA AloneIs ==
  ASSUME Claimed, NEW n \in Nodes, node[n].poll # "none", NEW m \in Nodes, m # n
  PROVE  node[m].poll = "none"
BY OnePoller DEF Claims

LEMMA FinishedCounts ==
  ASSUME Counted, NEW n \in Nodes, NEW y, Becomes(n, y), Finished(n, y)
  PROVE  OffsetsInOrder' /\ (Cardinality(Lost) <= broken)'
<1>0. /\ node \in [Nodes -> NodeType] /\ node' = [node EXCEPT ![n] = y]
      /\ MaxUpdates \in Nat /\ Claimed
      /\ UNCHANGED <<arrived, saved, acked, broken>>
      /\ finished' = finished \cup {node[n].current}
      /\ y.offset = node[n].offset /\ y.poll # "handling" /\ node[n].poll = "handling"
  BY PollingTypeUnfolded, Naturals DEF Becomes, Counted, Claimed, Fine, Finished
<1>1. \A m \in Nodes : node'[m] = IF m = n THEN y ELSE node[m]
  BY <1>0
<1>2. OffsetsInOrder'
  BY <1>0, <1>1 DEF Counted, OffsetsInOrder
<1>3. ASSUME NEW u \in Updates, Passed(u)'
      PROVE  Passed(u)
  BY <1>0, <1>1, <1>3 DEF Passed
<1>4. ASSUME NEW u \in Updates, Underway(u)
      PROVE  u = node[n].current
  BY <1>0, <1>4, AloneIs DEF Underway
<1>5. Lost' \subseteq Lost
  BY <1>0, <1>3, <1>4 DEF Lost
<1> QED
  BY <1>0, <1>2, <1>5, NoMoreLost

LEMMA TakenCounts ==
  ASSUME Counted, NEW n \in Nodes, NEW y, Becomes(n, y), NEW u \in 1..arrived,
         TakenFirst(n, y, u) \/ TakenNext(n, y, u)
  PROVE  OffsetsInOrder' /\ (Cardinality(Lost) <= broken)'
<1>0. /\ node \in [Nodes -> NodeType] /\ node' = [node EXCEPT ![n] = y]
      /\ MaxUpdates \in Nat /\ Claimed
      /\ UNCHANGED <<arrived, broken>> /\ saved' \in {saved, u + 1}
      /\ node[n].poll # "none"
      /\ y.poll = "handling" /\ y.offset = u + 1 /\ y.current = u
  BY PollingTypeUnfolded, Naturals
     DEF Becomes, Counted, Claimed, Fine, TakenFirst, TakenNext, Taken
<1>1. \A m \in Nodes : node'[m] = IF m = n THEN y ELSE node[m]
  BY <1>0
<1>2. /\ saved \in Nat /\ acked \in Nat /\ arrived \in Nat /\ u \in Nat /\ u <= arrived
      /\ node[n].offset \in Nat /\ node[n].current \in Nat /\ Updates \subseteq Nat
      /\ Sound(node[n])
  BY <1>0, PollingNumbers
<1>3. saved <= node[n].offset /\ acked <= arrived + 1 /\ saved <= arrived + 1
  BY <1>0 DEF Counted, OffsetsInOrder
(* The update taken is the next one after all that were passed. *)
<1>4. /\ node[n].offset <= u /\ acked <= u /\ acked' <= u
      /\ \A v \in Nat : v < u => v < acked \/ v < node[n].offset
  <2>1. CASE TakenFirst(n, y, u)
    BY <1>2, <2>1 DEF TakenFirst, Larger
  <2>2. CASE TakenNext(n, y, u)
    <3>1. /\ u \in node[n].rest /\ \A v \in node[n].rest : u <= v
          /\ acked' = acked /\ node[n].poll = "handling"
      BY <2>2 DEF TakenNext
    <3>2. /\ node[n].offset = node[n].current + 1 /\ node[n].current < u
          /\ (node[n].current + 1)..u \subseteq node[n].rest
      BY <1>2, <3>1 DEF Sound
    <3>3. node[n].current + 1 \in node[n].rest
      BY <1>2, <3>2
    <3>4. u = node[n].offset
      BY <1>2, <3>1, <3>2, <3>3
    <3>5. acked <= node[n].offset
      BY <3>1 DEF Counted, OffsetsInOrder
    <3> QED
      BY <1>2, <3>1, <3>4, <3>5
  <2> QED
    BY <2>1, <2>2
<1>5. \A m \in Nodes : m # n => node[m].poll = "none"
  BY <1>0, AloneIs
<1>6. saved' <= u + 1 /\ acked' <= u
  BY <1>0, <1>2, <1>3, <1>4
<1>7. OffsetsInOrder'
  <2>1. acked' \in Nat /\ saved' \in Nat
    BY <1>0, <1>2 DEF TakenFirst, TakenNext
  <2>2. saved' <= arrived' + 1 /\ acked' <= arrived' + 1
    BY <1>0, <1>2, <1>6, <2>1
  <2>3. saved' <= y.offset /\ y.offset <= arrived' + 1 /\ acked' <= y.offset
    BY <1>0, <1>2, <1>6, <2>1
  <2> QED
    BY <1>1, <1>5, <2>2, <2>3 DEF OffsetsInOrder
<1>8. ASSUME NEW v \in Updates, Passed(v)', v # u
      PROVE  Passed(v)
  <2>1. v < saved' \/ v < acked' \/ v < u + 1
    BY <1>0, <1>1, <1>5, <1>8 DEF Passed
  <2>2. v < u
    <3>1. acked' \in Nat /\ saved' \in Nat
      BY <1>0, <1>2 DEF TakenFirst, TakenNext
    <3> QED
      BY <1>2, <1>6, <1>8, <2>1, <3>1
  <2> QED
    BY <1>0, <1>2, <1>4, <2>2 DEF Passed
<1>9. Underway(u)'
  BY <1>0, <1>1 DEF Underway
<1>10. ASSUME NEW v \in Updates, Underway(v), v \notin finished'
       PROVE  FALSE
  <2>1. node[n].poll = "handling" /\ node[n].current = v
    BY <1>5, <1>10 DEF Underway
  <2>2. TakenNext(n, y, u)
    BY <2>1 DEF TakenFirst
  <2> QED
    BY <1>10, <2>1, <2>2 DEF TakenNext
<1>11. finished \subseteq finished'
  BY DEF TakenFirst, TakenNext
<1>12. Lost' \subseteq Lost
  BY <1>0, <1>8, <1>9, <1>10, <1>11 DEF Lost
<1> QED
  BY <1>0, <1>7, <1>12, NoMoreLost

LEMMA ArrivesCounts ==
  ASSUME Counted, UpdateArrives
  PROVE  OffsetsInOrder' /\ (Cardinality(Lost) <= broken)'
<1>0. /\ arrived' = arrived + 1 /\ UNCHANGED <<node, saved, acked, finished, broken>>
      /\ MaxUpdates \in Nat /\ Claimed
  BY Naturals DEF UpdateArrives, deliveryVars, Counted
<1>1. /\ saved \in Nat /\ acked \in Nat /\ arrived \in Nat /\ Updates \subseteq Nat
      /\ \A n \in Nodes : node[n].offset \in Nat
  <2>1. \A n \in Nodes : node[n].offset \in Nat
    BY <1>0, PollingNumbers
  <2> QED
    BY <1>0, <2>1 DEF Claimed, Fine, BotTypeOK, Offsets, Updates
<1>2. OffsetsInOrder'
  <2>1. saved <= arrived + 1 /\ acked <= arrived + 1
    BY DEF Counted, OffsetsInOrder
  <2>2. saved <= arrived' + 1 /\ acked <= arrived' + 1
    BY <1>0, <1>1, <2>1
  <2>3. ASSUME NEW n \in Nodes
        PROVE  /\ node[n].poll # "none" => /\ saved <= node[n].offset
                                          /\ node[n].offset <= arrived' + 1
               /\ node[n].poll = "handling" => acked <= node[n].offset
    BY <1>0, <1>1 DEF Counted, OffsetsInOrder
  <2> QED
    BY <1>0, <2>2, <2>3 DEF OffsetsInOrder
<1>3. ASSUME NEW u \in Updates, Passed(u)'
      PROVE  Passed(u) /\ u <= arrived
  <2>1. Passed(u)
    BY <1>0, <1>3 DEF Passed
  <2>2. CASE u < saved \/ u < acked
    BY <1>1, <2>1, <2>2 DEF Counted, OffsetsInOrder
  <2>3. CASE \E n \in Nodes : node[n].poll # "none" /\ u < node[n].offset
    <3>1. PICK n \in Nodes : node[n].poll # "none" /\ u < node[n].offset
      BY <2>3
    <3>2. node[n].offset <= arrived + 1 /\ node[n].offset \in Nat
      BY <1>1, <3>1 DEF Counted, OffsetsInOrder
    <3> QED
      BY <1>1, <2>1, <3>1, <3>2
  <2> QED
    BY <2>1, <2>2, <2>3 DEF Passed
<1>4. \A u \in Updates : Underway(u) => Underway(u)'
  BY <1>0 DEF Underway
<1>5. Lost' \subseteq Lost
  BY <1>0, <1>3, <1>4 DEF Lost
<1> QED
  BY <1>0, <1>2, <1>5, NoMoreLost

LEMMA CountedStep == Counted /\ [BotNext]_botVars => Counted'
<1> SUFFICES ASSUME Counted, [BotNext]_botVars PROVE Counted'
  OBVIOUS
<1>1. Claimed'
  BY ClaimedStep DEF Counted
<1>2. CASE UNCHANGED botVars
  BY <1>1, <1>2
     DEF Counted, OffsetsInOrder, Lost, Passed, Underway, botVars
<1>3. CASE UpdateArrives
  BY <1>1, <1>3, ArrivesCounts DEF Counted
<1>4. CASE \E n \in Nodes : \E y : Becomes(n, y)
  <2>1. PICK n \in Nodes : \E y : Becomes(n, y)
    BY <1>4
  <2>2. PICK y : Becomes(n, y)
    BY <2>1
  <2>3. CASE Quiet(n, y) \/ Started(n, y) \/ Ended(n, y)
    BY <1>1, <2>2, <2>3, QuietCounts DEF Counted
  <2>4. CASE Finished(n, y)
    BY <1>1, <2>2, <2>4, FinishedCounts DEF Counted
  <2>5. CASE \E u \in 1..arrived : TakenFirst(n, y, u) \/ TakenNext(n, y, u)
    BY <1>1, <2>2, <2>5, TakenCounts DEF Counted
  <2> QED
    BY <2>2, <2>3, <2>4, <2>5 DEF Becomes, Moves
<1> QED
  BY <1>2, <1>3, <1>4, StepMoves DEF Counted, Claimed

LEMMA CountedInit == BotInit => Counted
<1> SUFFICES ASSUME BotInit PROVE Counted
  OBVIOUS
<1>1. Claimed /\ OffsetsInOrder
  BY ClaimedInit DEF BotInit, OffsetsInOrder, Absent
<1>2. Lost = {}
  BY Naturals DEF BotInit, Lost, Updates
<1> QED
  BY <1>1, <1>2, FS_EmptySet DEF Counted, BotInit

(* What Telegram will not send again has been handled, but for one update  *)
(* each time a stop, a crash or new settings cut off the handling.         *)
THEOREM LostOnlyWhenCut == BotFairSpec => []LostOnlyIfCut
<1>1. Counted => LostOnlyIfCut
  <2> HAVE Counted
  <2> DEFINE now == {node[n].current : n \in {m \in Nodes : node[m].poll = "handling"}}
             gone == {u \in 1..arrived : u < saved} \ (finished \cup now)
  <2>1. MaxUpdates \in Nat /\ arrived \in 0..MaxUpdates /\ broken \in Nat
    BY Naturals DEF Counted, Claimed, Fine, BotTypeOK
  <2>2. gone \subseteq Lost
    BY <2>1 DEF Lost, Passed, Underway, Updates
  <2>3. Cardinality(gone) <= Cardinality(Lost) /\ Cardinality(gone) \in Nat
        /\ Cardinality(Lost) \in Nat
    BY <2>1, <2>2, LostFinite, FS_Subset, FS_CardinalityType
  <2>4. Cardinality(gone) <= broken
    BY <2>1, <2>3 DEF Counted
  <2> QED
    BY <2>4, Zenon DEF LostOnlyIfCut
<1> QED
  BY <1>1, CountedInit, CountedStep, PTL DEF BotFairSpec

(* No update is handled twice or goes unhandled behind the offset: the     *)
(* types, "handled once" and "lost only when cut" together.                *)
THEOREM UpdatesKept == BotFairSpec => []UpdatesAreKept
<1>1. Fine /\ HandledOnce /\ LostOnlyIfCut => UpdatesAreKept
  BY DEF Fine, UpdatesAreKept
<1> QED
  BY <1>1, BotTypes, HandledAtMostOnce, LostOnlyWhenCut, PTL

-----------------------------------------------------------------------------
(***************************************************************************)
(* KeywordMonitor, for any number of accounts, messages, edits and upsets: *)
(* the handlers follow the restart under way, and every message that a     *)
(* handler gets is handled once, across restarts.                          *)
(***************************************************************************)

(* Proofs about KeywordMonitor, for any number of accounts, messages,      *)
(* edits and upsets: the handlers follow the restart under way, and every  *)
(* message that a handler gets is handled once, across restarts.           *)
(***************************************************************************)

LEMMA Numbers ==
  MaxMessages \in Nat /\ MaxEdits \in Nat /\ MaxUpsets \in Nat
BY MonitorAssumption

(* Where the restart is, and what it has done so far. *)
Arranged ==
  /\ restart.at = "stopping" => handlers = restart.todo
  /\ restart.at = "starting" =>
       /\ loaded = restart.rules.accounts /\ restart.todo \subseteq loaded
       /\ restart.ok => loaded = handlers \cup restart.todo
  /\ restart.at = "down" => handlers = {} /\ activeKey = 0
  /\ restart.at = "none" /\ activeKey # 0 => handlers = loaded
  /\ waiting <= rules.version + upsetCount

Served == MonitorTypeOK /\ Arranged

ServiceType ==
  /\ loaded \in SUBSET Accounts /\ activeKey \in 0..(MaxEdits + 1)
  /\ handlers \subseteq loaded /\ linked \subseteq Accounts

RestartType ==
  [at : {"none", "down", "stopping", "starting"}, rules : RuleSets,
   todo : SUBSET Accounts, ok : BOOLEAN]

MessageType ==
  /\ posted \in [Accounts -> 0..MaxMessages] /\ next \in [Accounts -> 1..(MaxMessages + 1)]
  /\ seen \in [Accounts -> 0..MaxMessages] /\ stored \in [Accounts -> 0..MaxMessages]
  /\ passed \in [Accounts -> SUBSET Messages] /\ dirty \in BOOLEAN
  /\ hits \in [Accounts -> [Messages -> Nat]]

LEMMA MonitorTypeUnfolded ==
  MonitorTypeOK <=>
    /\ rules \in RuleSets /\ ServiceType /\ busy \subseteq Accounts
    /\ restart \in RestartType /\ waiting \in 0..(MaxEdits + MaxUpsets + 1)
    /\ MessageType /\ upsets \in Upsets /\ upsetCount \in 0..MaxUpsets
BY Zenon DEF MonitorTypeOK, ServiceType, RestartType, MessageType

LEMMA NoRestartType == NoRestart \in RestartType /\ NoRestart.at = "none"
BY Numbers DEF NoRestart, NoRules, RestartType, RuleSets

-----------------------------------------------------------------------------
(* The upsets count up to their bound. *)
LEMMA UpsetCounts ==
  ASSUME MonitorTypeOK, Peacefully \/ \E kind : Upset(kind)
  PROVE  /\ upsets' = upsets /\ upsetCount' \in 0..MaxUpsets /\ upsetCount <= upsetCount'
         /\ upsetCount' <= upsetCount + 1
BY Numbers DEF MonitorTypeOK, Peacefully, Upset

(* What every step of the restart keeps. *)
LEMMA RestartKeeps ==
  ASSUME MonitorTypeOK, RestartStep
  PROVE  /\ UNCHANGED <<rules, busy, messageVars>>
         /\ Peacefully \/ \E kind : Upset(kind)
<1>1. UNCHANGED <<rules, busy, messageVars>>
  BY DEF RestartStep, Enters, Turns, Detaches, Attaches, AttachFails
<1>2. Peacefully \/ \E kind : Upset(kind)
  BY DEF RestartStep, Enters, Turns, Detaches, Attaches, AttachFails, Persisted
<1> QED
  BY <1>1, <1>2

(* A step of the restart, up to what happens to the watermark. *)
Proceeding ==
  /\ restart' \in RestartType /\ ServiceType'
  /\ waiting' \in Nat /\ waiting' <= waiting
  /\ restart'.at = "stopping" => handlers' = restart'.todo
  /\ restart'.at = "starting" =>
       /\ loaded' = restart'.rules.accounts /\ restart'.todo \subseteq loaded'
       /\ restart'.ok => loaded' = handlers' \cup restart'.todo
  /\ restart'.at # "down"
  /\ restart'.at = "none" /\ activeKey' # 0 => handlers' = loaded'

LEMMA EntersProceeds ==
  ASSUME Served, Enters
  PROVE  Proceeding
<1>1. waiting' \in Nat /\ waiting' <= waiting
  BY DEF Enters, Served, MonitorTypeOK
<1>2. ServiceType' /\ UNCHANGED <<loaded, activeKey, handlers, linked>>
  BY MonitorTypeUnfolded DEF Enters, serviceVars, ServiceType, Served
<1>3. restart \in RestartType /\ restart.at = "none" /\ rules \in RuleSets
      /\ handlers \in SUBSET Accounts
  BY MonitorTypeUnfolded DEF Enters, Served, ServiceType
<1>4. CASE restart' = restart
  BY <1>1, <1>2, <1>3, <1>4 DEF Proceeding, Served, Arranged
<1>5. CASE restart' = [at |-> "stopping", rules |-> rules, todo |-> handlers, ok |-> TRUE]
  <2>1. restart' \in RestartType /\ restart'.at = "stopping" /\ restart'.todo = handlers
    BY <1>3, <1>5 DEF RestartType
  <2> QED
    BY <1>1, <1>2, <2>1 DEF Proceeding
<1> QED
  BY <1>4, <1>5 DEF Enters

LEMMA DetachesProceeds ==
  ASSUME Served, NEW a \in Accounts, Detaches(a)
  PROVE  Proceeding
<1>1. /\ restart \in RestartType /\ restart.at = "stopping" /\ ServiceType
      /\ waiting \in Nat /\ handlers = restart.todo
  BY MonitorTypeUnfolded DEF Detaches, Served, MonitorTypeOK, Arranged
<1>2. /\ restart' \in RestartType /\ restart'.at = "stopping"
      /\ restart'.todo = restart.todo \ {a}
  BY <1>1 DEF Detaches, RestartType
<1>3. ServiceType'
  BY <1>1 DEF Detaches, ServiceType
<1> QED
  BY <1>1, <1>2, <1>3 DEF Detaches, Proceeding

LEMMA TurnsProceeds ==
  ASSUME Served, Turns
  PROVE  Proceeding
<1>1. /\ restart \in RestartType /\ restart.at = "stopping" /\ ServiceType
      /\ waiting' = waiting /\ waiting \in Nat /\ handlers = {} /\ restart.rules \in RuleSets
      /\ restart.rules.version \in 0..(MaxEdits + 1)
      /\ restart.rules.accounts \in SUBSET Accounts
  BY MonitorTypeUnfolded DEF Turns, Served, MonitorTypeOK, Arranged, RestartType, RuleSets
<1>2. ServiceType' /\ handlers' = {} /\ loaded' = restart.rules.accounts
  BY <1>1, Numbers DEF Turns, ServiceType
<1>3. CASE restart.rules.accounts = {}
  <2>1. restart' = NoRestart
    BY <1>3 DEF Turns
  <2> QED
    BY <1>1, <1>2, <1>3, <2>1, NoRestartType DEF Proceeding
<1>4. CASE restart.rules.accounts # {}
  <2>1. restart' = [restart EXCEPT !.at = "starting", !.todo = restart.rules.accounts]
    BY <1>4 DEF Turns
  <2>2. restart' \in RestartType /\ restart'.at = "starting"
        /\ restart'.todo = restart.rules.accounts /\ restart'.rules = restart.rules
    BY <1>1, <2>1 DEF RestartType
  <2> QED
    BY <1>1, <1>2, <2>2 DEF Proceeding
<1> QED
  BY <1>3, <1>4

LEMMA LeftProceeds ==
  ASSUME Served, NEW a \in Accounts, restart.at = "starting", a \in restart.todo,
         NEW ok \in BOOLEAN, Left(a, ok), UNCHANGED <<loaded, waiting>>,
         IF ok THEN handlers' = handlers \cup {a} ELSE handlers' = handlers,
         linked' \subseteq Accounts
  PROVE  Proceeding
<1> DEFINE r == [restart EXCEPT !.todo = @ \ {a}, !.ok = @ /\ ok]
<1>1. /\ restart \in RestartType /\ ServiceType /\ waiting \in Nat
      /\ loaded = restart.rules.accounts /\ restart.todo \subseteq loaded
      /\ restart.ok => loaded = handlers \cup restart.todo
      /\ restart.rules.version \in 0..(MaxEdits + 1)
  BY MonitorTypeUnfolded, Numbers DEF Served, MonitorTypeOK, Arranged, RestartType, RuleSets
<1>2. /\ r \in RestartType /\ r.at = "starting" /\ r.rules = restart.rules
      /\ r.todo = restart.todo \ {a}
  BY <1>1 DEF RestartType
<1>3. r.ok => restart.ok /\ ok
  BY <1>1 DEF RestartType
<1>4. r.ok => loaded = handlers' \cup r.todo
  BY <1>1, <1>2, <1>3
<1>5. handlers' \subseteq loaded
  BY <1>1 DEF ServiceType
<1>6. CASE r.todo # {}
  <2>1. restart' = r /\ UNCHANGED activeKey
    BY <1>6 DEF Left
  <2>2. ServiceType'
    BY <1>1, <1>5, <2>1 DEF ServiceType
  <2> QED
    BY <1>1, <1>2, <1>4, <2>1, <2>2 DEF Proceeding
<1>7. CASE r.todo = {}
  <2>1. restart' = NoRestart /\ activeKey' = IF r.ok THEN r.rules.version ELSE 0
    BY <1>7 DEF Left
  <2>2. activeKey' \in 0..(MaxEdits + 1)
    BY <1>1, <1>2, <2>1, Numbers
  <2>3. ServiceType'
    BY <1>1, <1>5, <2>2 DEF ServiceType
  <2>4. activeKey' # 0 => handlers' = loaded'
    BY <1>4, <1>7, <2>1
  <2> QED
    BY <1>1, <2>1, <2>3, <2>4, NoRestartType DEF Proceeding
<1> QED
  BY <1>6, <1>7

LEMMA RestartProceeds ==
  ASSUME Served, RestartStep
  PROVE  Proceeding
<1>1. ASSUME NEW a \in Accounts, Attaches(a)
      PROVE  Proceeding
  <2>1. linked' \subseteq Accounts
    BY <1>1 DEF Attaches, Served, MonitorTypeOK
  <2> QED
    BY <1>1, <2>1, LeftProceeds DEF Attaches
<1>2. ASSUME NEW a \in Accounts, AttachFails(a)
      PROVE  Proceeding
  <2>1. linked' \subseteq Accounts
    BY <1>2 DEF AttachFails, Served, MonitorTypeOK
  <2> QED
    BY <1>2, <2>1, LeftProceeds DEF AttachFails
<1> QED
  BY <1>1, <1>2, EntersProceeds, DetachesProceeds, TurnsProceeds DEF RestartStep

-----------------------------------------------------------------------------
(* What a restart does to the watermark: it is written and read again.     *)
LEMMA RestartSeen ==
  ASSUME MonitorTypeOK, RestartStep
  PROVE  UNCHANGED seenVars \/ Turns
BY DEF RestartStep, Enters, Detaches, Attaches, AttachFails

LEMMA TurnsSeen ==
  ASSUME MonitorTypeOK, Turns
  PROVE  MessageType'
<1>1. stored' \in {stored, seen}
  BY DEF Turns, Persisted
<1>2. seen' \in {seen, stored'} /\ dirty' \in BOOLEAN
  BY DEF Turns, MonitorTypeOK
<1>3. UNCHANGED messageVars
  BY DEF Turns
<1> QED
  BY <1>1, <1>2, <1>3, MonitorTypeUnfolded DEF MessageType, messageVars

LEMMA RestartServes ==
  ASSUME Served, RestartStep
  PROVE  Served'
<1>1. /\ UNCHANGED <<rules, busy, messageVars>> /\ Proceeding
      /\ upsets' = upsets /\ upsetCount' \in 0..MaxUpsets /\ upsetCount <= upsetCount'
  BY RestartKeeps, RestartProceeds, UpsetCounts DEF Served
<1>2. MessageType'
  <2>1. CASE UNCHANGED seenVars
    BY <1>1, <2>1, MonitorTypeUnfolded DEF Served, MessageType, messageVars, seenVars
  <2> QED
    BY <2>1, RestartSeen, TurnsSeen DEF Served
<1>3. waiting' \in 0..(MaxEdits + MaxUpsets + 1) /\ waiting' <= rules'.version + upsetCount'
  <2>1. waiting \in 0..(MaxEdits + MaxUpsets + 1) /\ waiting <= rules.version + upsetCount
        /\ rules.version \in Nat /\ upsetCount \in Nat
    BY Numbers DEF Served, MonitorTypeOK, Arranged, RuleSets
  <2>2. waiting' \in Nat /\ waiting' <= waiting /\ rules' = rules
    BY <1>1 DEF Proceeding
  <2> QED
    BY <1>1, <2>1, <2>2, Numbers
<1>4. MonitorTypeOK'
  BY <1>1, <1>2, <1>3, MonitorTypeUnfolded, Zenon
     DEF Proceeding, Served, MonitorTypeOK, MessageType, ServiceType, RestartType
<1>5. Arranged'
  BY <1>1, <1>3 DEF Proceeding, Arranged
<1> QED
  BY <1>4, <1>5 DEF Served

-----------------------------------------------------------------------------
(* The messages. *)
LEMMA ReceivesType ==
  ASSUME MonitorTypeOK, NEW a \in Accounts, NEW m \in Messages, Receives(a, m)
  PROVE  /\ seen' \in [Accounts -> 0..MaxMessages]
         /\ stored' \in [Accounts -> 0..MaxMessages]
         /\ dirty' \in BOOLEAN /\ hits' \in [Accounts -> [Messages -> Nat]]
         /\ UNCHANGED <<rules, serviceVars, busy, restart, waiting, posted, passed>>
<1>1. /\ seen \in [Accounts -> 0..MaxMessages] /\ stored \in [Accounts -> 0..MaxMessages]
      /\ dirty \in BOOLEAN /\ hits \in [Accounts -> [Messages -> Nat]]
  BY DEF MonitorTypeOK
<1>2. [seen EXCEPT ![a] = m] \in [Accounts -> 0..MaxMessages]
  BY <1>1, Numbers DEF Messages
<1>3. [hits EXCEPT ![a][m] = @ + 1] \in [Accounts -> [Messages -> Nat]]
  BY <1>1
<1>4. hits' \in {hits, [hits EXCEPT ![a][m] = @ + 1]}
      /\ seen' \in {seen, [seen EXCEPT ![a] = m]} /\ stored' \in {stored, seen'}
      /\ dirty' \in {dirty, TRUE, FALSE}
  BY DEF Receives, seenVars
<1> QED
  BY <1>1, <1>2, <1>3, <1>4, Zenon DEF Receives

LEMMA MessagesServe ==
  ASSUME Served, NEW a \in Accounts,
         Delivers(a) \/ DeliversAgain(a) \/ Passes(a) \/ IsPosted(a)
  PROVE  Served'
<1>1. /\ posted \in [Accounts -> 0..MaxMessages]
      /\ next \in [Accounts -> 1..(MaxMessages + 1)]
      /\ passed \in [Accounts -> SUBSET Messages]
  BY DEF Served, MonitorTypeOK
<1>2. /\ MessageType' /\ UNCHANGED <<rules, serviceVars, busy, restart, waiting>>
      /\ Peacefully \/ \E kind : Upset(kind)
  <2>1. CASE Delivers(a)
    <3>1. next[a] \in Messages
      BY <1>1, <2>1, Numbers DEF Delivers, Messages
    <3>2. next' \in [Accounts -> 1..(MaxMessages + 1)]
      BY <1>1, <2>1, <3>1, Numbers DEF Delivers, Messages
    <3> QED
      BY <1>1, <2>1, <3>1, <3>2, ReceivesType DEF Delivers, MessageType, Served
  <2>2. CASE DeliversAgain(a)
    <3>1. PICK m \in 1..(next[a] - 1) : Receives(a, m)
      BY <2>2 DEF DeliversAgain
    <3>2. m \in Messages
      BY <1>1, <3>1, Numbers DEF Messages
    <3> QED
      BY <1>1, <2>2, <3>1, <3>2, ReceivesType DEF DeliversAgain, MessageType, Served
  <2>3. CASE Passes(a)
    <3>1. next[a] \in Messages
      BY <1>1, <2>3, Numbers DEF Passes, Messages
    <3>2. next' \in [Accounts -> 1..(MaxMessages + 1)]
          /\ passed' \in [Accounts -> SUBSET Messages]
      BY <1>1, <2>3, <3>1, Numbers DEF Passes, Messages
    <3> QED
      BY <2>3, <3>2, MonitorTypeUnfolded DEF Passes, MessageType, Served, seenVars
  <2>4. CASE IsPosted(a)
    <3>1. posted' \in [Accounts -> 0..MaxMessages]
      BY <1>1, <2>4, Numbers DEF IsPosted
    <3> QED
      BY <2>4, <3>1, MonitorTypeUnfolded DEF IsPosted, MessageType, Served, seenVars
  <2> QED
    BY <2>1, <2>2, <2>3, <2>4
<1>3. upsets' = upsets /\ upsetCount' \in 0..MaxUpsets /\ upsetCount <= upsetCount'
  BY <1>2, UpsetCounts DEF Served
<1>4. waiting <= rules.version + upsetCount'
  BY <1>3, Numbers DEF Served, MonitorTypeOK, Arranged, RuleSets
<1>5. MonitorTypeOK'
  BY <1>2, <1>3, Zenon DEF Served, MonitorTypeOK, MessageType, serviceVars
<1>6. Arranged'
  BY <1>2, <1>4 DEF Served, Arranged, serviceVars
<1> QED
  BY <1>5, <1>6 DEF Served

-----------------------------------------------------------------------------
(* Requests, sign runs and connections. *)
LEMMA AroundServes ==
  ASSUME Served,
         SaveTasks \/ \E a \in Accounts : RunTakes(a) \/ RunGives(a) \/ Disconnects(a)
  PROVE  Served'
<1>0. /\ rules \in RuleSets /\ rules.version \in 1..(MaxEdits + 1)
      /\ waiting \in Nat /\ waiting <= rules.version + upsetCount
      /\ upsetCount \in 0..MaxUpsets /\ waiting \in 0..(MaxEdits + MaxUpsets + 1)
  BY DEF Served, MonitorTypeOK, Arranged, RuleSets
<1>1. /\ UNCHANGED <<loaded, activeKey, handlers, restart, messageVars, seenVars>>
      /\ Peacefully \/ \E kind : Upset(kind)
  BY DEF SaveTasks, RunTakes, RunGives, Disconnects, serviceVars
<1>2. upsets' = upsets /\ upsetCount' \in 0..MaxUpsets /\ upsetCount <= upsetCount'
  BY <1>1, UpsetCounts DEF Served
<1>3. linked' \subseteq Accounts /\ busy' \subseteq Accounts
  BY MonitorAssumption
     DEF SaveTasks, RunTakes, RunGives, Disconnects, serviceVars, Served, MonitorTypeOK
<1>4. /\ rules' \in RuleSets /\ waiting' \in 0..(MaxEdits + MaxUpsets + 1)
      /\ waiting' <= rules'.version + upsetCount'
  <2>1. CASE SaveTasks
    <3>1. PICK A \in SUBSET Accounts : rules' = [version |-> rules.version + 1, accounts |-> A]
      BY <2>1 DEF SaveTasks
    <3>2. rules' \in RuleSets /\ rules'.version = rules.version + 1
      BY <1>0, <2>1, <3>1, Numbers DEF SaveTasks, RuleSets
    <3>3. waiting' = waiting + 1 /\ rules'.version \in 1..(MaxEdits + 1)
      BY <2>1, <3>2 DEF SaveTasks, RuleSets
    <3> QED
      BY <1>0, <1>2, <3>2, <3>3, Numbers
  <2>2. CASE \E a \in Accounts : RunTakes(a) \/ RunGives(a)
    BY <1>0, <1>2, <2>2, Numbers DEF RunTakes, RunGives
  <2>3. CASE \E a \in Accounts : Disconnects(a)
    <3>1. rules' = rules /\ waiting' = waiting + 1 /\ upsetCount' = upsetCount + 1
      BY <2>3 DEF Disconnects, Upset
    <3> QED
      BY <1>0, <1>2, <3>1, Numbers
  <2> QED
    BY <2>1, <2>2, <2>3
<1>5. MonitorTypeOK'
  BY <1>1, <1>2, <1>3, <1>4, Zenon DEF Served, MonitorTypeOK, messageVars, seenVars
<1>6. Arranged'
  BY <1>1, <1>4 DEF Served, Arranged
<1> QED
  BY <1>5, <1>6 DEF Served

(* The end of the process and the next one. *)
LEMMA ProcessServes ==
  ASSUME Served, ShutsDown \/ MonitorDies \/ MonitorReturns
  PROVE  Served'
<1>0. MessageType /\ restart \in RestartType /\ rules \in RuleSets /\ busy \subseteq Accounts
      /\ rules.version \in 1..(MaxEdits + 1) /\ upsetCount \in 0..MaxUpsets
  BY MonitorTypeUnfolded DEF Served, RuleSets
<1>1. CASE ShutsDown \/ MonitorDies
  <2>1. /\ Emptied /\ UNCHANGED <<rules, busy, messageVars>> /\ stored' \in {stored, seen}
        /\ \E kind : Upset(kind)
    BY <1>1 DEF ShutsDown, MonitorDies
  <2>2. upsets' = upsets /\ upsetCount' \in 0..MaxUpsets /\ upsetCount <= upsetCount'
    BY <2>1, UpsetCounts DEF Served
  <2>3. restart' \in RestartType /\ restart'.at = "down"
    BY <2>1, NoRestartType DEF Emptied, RestartType
  <2>4. Nothing \in [Accounts -> 0..MaxMessages]
    BY Numbers DEF Nothing
  <2>5. MessageType'
    BY <1>0, <2>1, <2>4 DEF Emptied, MessageType, messageVars
  <2>6. ServiceType'
    BY <2>1, Numbers DEF Emptied, ServiceType
  <2>7. waiting' = 0 /\ waiting' \in 0..(MaxEdits + MaxUpsets + 1)
        /\ waiting' <= rules'.version + upsetCount'
    BY <1>0, <2>1, <2>2, Numbers DEF Emptied
  <2>8. MonitorTypeOK'
    BY <1>0, <2>1, <2>2, <2>3, <2>5, <2>6, <2>7, Zenon
       DEF Served, MonitorTypeOK, MessageType, ServiceType, RestartType
  <2>9. Arranged'
    BY <2>1, <2>3, <2>7 DEF Emptied, Arranged
  <2> QED
    BY <2>8, <2>9 DEF Served
<1>2. CASE MonitorReturns
  <2>1. /\ restart.at = "down" /\ restart' = NoRestart /\ waiting' = 1
        /\ UNCHANGED <<rules, serviceVars, busy, posted, passed, hits, seenVars>>
        /\ next' \in [Accounts -> 1..(MaxMessages + 1)] /\ Peacefully
    BY <1>2 DEF MonitorReturns
  <2>2. MessageType'
    BY <1>0, <2>1 DEF MessageType, seenVars
  <2>3. waiting' \in 0..(MaxEdits + MaxUpsets + 1) /\ waiting' <= rules'.version + upsetCount'
    BY <1>0, <2>1, Numbers DEF Peacefully
  <2>4. MonitorTypeOK'
    BY <2>1, <2>2, <2>3, NoRestartType, Zenon
       DEF Served, MonitorTypeOK, MessageType, RestartType, serviceVars, Peacefully
  <2>5. Arranged'
    BY <2>1, <2>3, NoRestartType DEF Served, Arranged, serviceVars
  <2> QED
    BY <2>4, <2>5 DEF Served
<1> QED
  BY <1>1, <1>2

LEMMA ServedStep == Served /\ [MonitorNext]_monitorVars => Served'
<1>1. CASE Served /\ UNCHANGED monitorVars
  BY <1>1, Zenon DEF Served, MonitorTypeOK, Arranged, monitorVars
<1>2. CASE Served /\ MonitorNext
  BY <1>2, RestartServes, MessagesServe, AroundServes, ProcessServes, Zenon DEF MonitorNext
<1> QED
  BY <1>1, <1>2

LEMMA ServedInit == MonitorInit => Served
<1> SUFFICES ASSUME MonitorInit PROVE Served
  OBVIOUS
<1>1. restart \in RestartType /\ restart.at = "down"
  BY NoRestartType DEF MonitorInit, RestartType
<1>2. rules \in RuleSets /\ rules.version = 1
  BY Numbers DEF MonitorInit, RuleSets
<1>3. MessageType
  <2>1. hits \in [Accounts -> [Messages -> Nat]] /\ passed \in [Accounts -> SUBSET Messages]
    BY DEF MonitorInit
  <2>2. Nothing \in [Accounts -> 0..MaxMessages]
    BY Numbers DEF Nothing
  <2>3. next \in [Accounts -> 1..(MaxMessages + 1)]
    BY Numbers DEF MonitorInit
  <2> QED
    BY <2>1, <2>2, <2>3 DEF MonitorInit, MessageType
<1>4. MonitorTypeOK
  BY <1>1, <1>2, <1>3, MonitorTypeUnfolded, Numbers DEF MonitorInit, ServiceType
<1>5. Arranged
  BY <1>1, <1>2, Numbers DEF MonitorInit, Arranged
<1> QED
  BY <1>4, <1>5 DEF Served

(* The types, and: the key of the rules is kept only if every account of   *)
(* them was started, so that a later request tries again.                  *)
THEOREM KeyServed == MonitorSpec => [](MonitorTypeOK /\ KeyMeansServed)
<1>1. Served => MonitorTypeOK /\ KeyMeansServed
  BY DEF Served, Arranged, KeyMeansServed
<1> QED
  BY <1>1, ServedInit, ServedStep, PTL DEF MonitorSpec

-----------------------------------------------------------------------------
(* The watermark.  While a handler may run, the watermark in memory is the *)
(* higher one; what is not to be written is in the file.  What is below    *)
(* either of them, or was delivered, has been handled; what is above both  *)
(* has not been, unless a crash or a failed write took the watermark back. *)
Excuse == IF upsets \cap {"crash", "disk"} = {} THEN 0 ELSE upsetCount

InMemory == handlers # {} \/ restart.at = "starting" \/ dirty

Above(a, m) == m > seen[a] /\ m > stored[a]
Behind(a, m) == m <= seen[a] \/ m <= stored[a] \/ m < next[a]

Watermark ==
  /\ \A a \in Accounts : InMemory => stored[a] <= seen[a]
  /\ \A a \in Accounts : ~dirty => seen[a] <= stored[a]
  /\ \A a \in Accounts, m \in Messages :
       /\ hits[a][m] <= 1 + Excuse
       /\ Above(a, m) => hits[a][m] <= Excuse
       /\ Behind(a, m) => hits[a][m] >= 1 \/ m \in passed[a]

Exact == Served /\ Watermark

LEMMA MonitorNumbers ==
  ASSUME MonitorTypeOK
  PROVE  /\ Excuse \in Nat /\ upsetCount \in Nat
         /\ \A a \in Accounts : /\ seen[a] \in Nat /\ stored[a] \in Nat /\ next[a] \in Nat
                               /\ \A m \in Messages : hits[a][m] \in Nat /\ m \in Nat
BY Numbers DEF MonitorTypeOK, Excuse, Messages

LEMMA ExcuseGrows ==
  ASSUME MonitorTypeOK, Peacefully \/ \E kind : Upset(kind)
  PROVE  Excuse' \in Nat /\ Excuse <= Excuse'
<1>1. upsets' = upsets /\ upsetCount' \in Nat /\ upsetCount \in Nat
      /\ upsetCount <= upsetCount'
  BY UpsetCounts, Numbers DEF MonitorTypeOK
<1> QED
  BY <1>1 DEF Excuse

(* A crash, or a failed write, excuses one repetition more. *)
LEMMA ExcuseCounts ==
  ASSUME MonitorTypeOK, Upset("crash") \/ Upset("disk")
  PROVE  Excuse' = Excuse + 1
BY DEF MonitorTypeOK, Excuse, Upset

(* Nothing about the messages changes, and no handler appears unless the   *)
(* restart was starting.                                                   *)
LEMMA WatermarkStays ==
  ASSUME Exact, UNCHANGED <<messageVars, seenVars>>,
         Peacefully \/ \E kind : Upset(kind), InMemory' => InMemory
  PROVE  Watermark'
<1>1. Excuse' \in Nat /\ Excuse <= Excuse' /\ Excuse \in Nat
  BY ExcuseGrows, MonitorNumbers DEF Exact, Served
<1>2. \A a \in Accounts, m \in Messages :
        hits'[a][m] <= 1 + Excuse' /\ (Above(a, m)' => hits'[a][m] <= Excuse')
  <2> TAKE a \in Accounts, m \in Messages
  <2>1. hits[a][m] \in Nat /\ hits[a][m] <= 1 + Excuse
        /\ (Above(a, m) => hits[a][m] <= Excuse)
    BY MonitorNumbers DEF Exact, Served, Watermark
  <2>2. hits' = hits /\ (Above(a, m)' <=> Above(a, m))
    BY DEF messageVars, seenVars, Above
  <2> QED
    BY <1>1, <2>1, <2>2
<1> QED
  BY <1>2 DEF Exact, Watermark, Behind, messageVars, seenVars

LEMMA RestartWatermark ==
  ASSUME Exact, RestartStep, ~Turns
  PROVE  Watermark'
<1>1. ASSUME InMemory' PROVE InMemory
  <2>1. dirty' = dirty
    BY RestartSeen DEF seenVars, Exact, Served
  <2>2. CASE Enters \/ \E a \in Accounts : Detaches(a)
    <3>1. handlers' \subseteq handlers
      BY <2>2 DEF Enters, Detaches, serviceVars
    <3>2. restart'.at # "starting"
      <4>1. restart \in RestartType
        BY MonitorTypeUnfolded DEF Exact, Served
      <4> QED
        BY <2>2, <4>1 DEF Enters, Detaches, RestartType
    <3> QED
      BY <1>1, <2>1, <3>1, <3>2 DEF InMemory
  <2>3. CASE \E a \in Accounts : Attaches(a) \/ AttachFails(a)
    BY <2>3 DEF Attaches, AttachFails, InMemory
  <2> QED
    BY <2>2, <2>3 DEF RestartStep
<1>2. UNCHANGED messageVars /\ (Peacefully \/ \E kind : Upset(kind))
  BY RestartKeeps DEF Exact, Served
<1>3. UNCHANGED seenVars
  BY RestartSeen DEF Exact, Served
<1> QED
  BY <1>1, <1>2, <1>3, WatermarkStays

(* No watermark of the account is lost by the step. *)
Kept(a) ==
  /\ seen[a] <= seen'[a] \/ seen[a] <= stored'[a]
  /\ stored[a] <= seen'[a] \/ stored[a] <= stored'[a]

(* The watermark moves within what it was, in memory or in the file; only  *)
(* an excused step takes it back.                                          *)
LEMMA WatermarkMoves ==
  ASSUME Exact, Peacefully \/ \E kind : Upset(kind),
         UNCHANGED <<posted, passed, hits>>, \A a \in Accounts : next'[a] <= next[a],
         MonitorTypeOK',
         \A a \in Accounts : seen'[a] <= seen[a] \/ seen'[a] <= stored[a],
         \A a \in Accounts : stored'[a] <= seen[a] \/ stored'[a] <= stored[a],
         InMemory' => \A a \in Accounts : stored'[a] <= seen'[a],
         ~dirty' => \A a \in Accounts : seen'[a] <= stored'[a],
         Upset("crash") \/ Upset("disk")
           \/ \A a \in Accounts : Kept(a)
  PROVE  Watermark'
<1>0. /\ Excuse' \in Nat /\ Excuse <= Excuse' /\ Excuse \in Nat
  BY ExcuseGrows, MonitorNumbers DEF Exact, Served
<1>1. \A a \in Accounts :
        /\ seen[a] \in Nat /\ stored[a] \in Nat /\ next[a] \in Nat
        /\ seen'[a] \in Nat /\ stored'[a] \in Nat /\ next'[a] \in Nat
        /\ \A m \in Messages : hits[a][m] \in Nat /\ m \in Nat
  BY Numbers DEF Exact, Served, MonitorTypeOK, Messages
<1>2. ASSUME NEW a \in Accounts, NEW m \in Messages
      PROVE  /\ hits'[a][m] <= 1 + Excuse'
             /\ Above(a, m)' => hits'[a][m] <= Excuse'
             /\ Behind(a, m)' => hits'[a][m] >= 1 \/ m \in passed'[a]
  <2>1. /\ hits[a][m] <= 1 + Excuse
        /\ Above(a, m) => hits[a][m] <= Excuse
        /\ Behind(a, m) => hits[a][m] >= 1 \/ m \in passed[a]
        /\ hits' = hits /\ passed' = passed
    BY DEF Exact, Watermark
  <2>2. Behind(a, m)' => Behind(a, m)
    BY <1>1 DEF Behind
  <2>3. CASE Upset("crash") \/ Upset("disk")
    <3>1. Excuse' = Excuse + 1
      BY <2>3, ExcuseCounts DEF Exact, Served
    <3>2. hits[a][m] \in Nat
      BY <1>1
    <3> QED
      BY <1>0, <2>1, <2>2, <3>1, <3>2
  <2>4. CASE Kept(a)
    <3>1. Above(a, m)' => Above(a, m)
      BY <1>1, <2>4 DEF Above, Kept
    <3>2. hits[a][m] \in Nat
      BY <1>1
    <3> QED
      BY <1>0, <2>1, <2>2, <3>1, <3>2
  <2> QED
    BY <2>3, <2>4
<1> QED
  BY <1>2 DEF Watermark

LEMMA TurnsWatermark ==
  ASSUME Exact, Turns
  PROVE  Watermark'
<1>0. MonitorTypeOK'
  BY ServedStep, Zenon DEF Exact, Served, MonitorNext, RestartStep
<1>1. \A a \in Accounts : /\ seen[a] \in Nat /\ stored[a] \in Nat /\ next[a] \in Nat
  BY MonitorNumbers DEF Exact, Served
<1>2. /\ UNCHANGED <<posted, passed, hits, next, handlers>>
      /\ Peacefully \/ \E kind : Upset(kind)
  BY DEF Turns, Persisted, messageVars
<1>3. handlers = {} /\ restart.at = "stopping" /\ dirty \in BOOLEAN
  BY DEF Turns, Exact, Served, Arranged, MonitorTypeOK
<1>4. /\ \A a \in Accounts : dirty => stored[a] <= seen[a]
      /\ \A a \in Accounts : ~dirty => seen[a] <= stored[a]
  BY DEF Exact, Watermark, InMemory
<1>5. \/ ~dirty /\ stored' = stored
      \/ dirty /\ stored' = seen
      \/ dirty /\ stored' = stored /\ Upset("disk")
  BY DEF Turns, Persisted
<1>6. \/ seen' = stored' /\ dirty' = FALSE
      \/ seen' = seen /\ dirty' = (dirty /\ stored' # seen) /\ restart'.at # "starting"
  <2>1. CASE restart.rules.accounts = {}
    BY <2>1, NoRestartType DEF Turns
  <2>2. CASE restart.rules.accounts # {}
    BY <2>2 DEF Turns
  <2> QED
    BY <2>1, <2>2
<1>7. InMemory' => \A a \in Accounts : stored'[a] <= seen'[a]
  BY <1>1, <1>2, <1>3, <1>4, <1>5, <1>6 DEF InMemory
<1>8. ~dirty' => \A a \in Accounts : seen'[a] <= stored'[a]
  BY <1>1, <1>3, <1>4, <1>5, <1>6
<1>9. /\ \A a \in Accounts : seen'[a] <= seen[a] \/ seen'[a] <= stored[a]
      /\ \A a \in Accounts : stored'[a] <= seen[a] \/ stored'[a] <= stored[a]
      /\ \A a \in Accounts : next'[a] <= next[a]
  BY <1>1, <1>2, <1>5, <1>6
<1>10. Upset("disk")
         \/ \A a \in Accounts : Kept(a)
  BY <1>1, <1>4, <1>5, <1>6 DEF Kept
<1> QED
  BY <1>0, <1>2, <1>7, <1>8, <1>9, <1>10, WatermarkMoves

LEMMA ProcessWatermark ==
  ASSUME Exact, ShutsDown \/ MonitorDies \/ MonitorReturns
  PROVE  Watermark'
<1>0. MonitorTypeOK'
  BY ProcessServes DEF Exact, Served
<1>1. \A a \in Accounts : /\ seen[a] \in Nat /\ stored[a] \in Nat /\ next[a] \in Nat
  BY MonitorNumbers DEF Exact, Served
<1>2. \A a \in Accounts : (dirty => stored[a] <= seen[a]) /\ (~dirty => seen[a] <= stored[a])
  BY DEF Exact, Watermark, InMemory
<1>3. CASE ShutsDown \/ MonitorDies
  <2>1. /\ UNCHANGED <<posted, passed, hits, next>> /\ handlers' = {} /\ dirty' = FALSE
        /\ \A a \in Accounts : seen'[a] = 0
        /\ \E kind : Upset(kind)
    BY <1>3 DEF ShutsDown, MonitorDies, Emptied, messageVars, Nothing
  <2>2. restart'.at = "down"
    BY <1>3 DEF ShutsDown, MonitorDies, Emptied, NoRestart
  <2>3. \/ stored' = (IF dirty THEN seen ELSE stored)
        \/ (stored' = stored /\ Upset("crash"))
    BY <1>3 DEF ShutsDown, MonitorDies
  <2>4. ~InMemory'
    BY <2>1, <2>2 DEF InMemory
  <2>5. \A a \in Accounts : seen'[a] <= stored'[a]
    BY <1>1, <2>1, <2>3
  <2>6. /\ \A a \in Accounts : seen'[a] <= seen[a] \/ seen'[a] <= stored[a]
        /\ \A a \in Accounts : stored'[a] <= seen[a] \/ stored'[a] <= stored[a]
        /\ \A a \in Accounts : next'[a] <= next[a]
    BY <1>1, <2>1, <2>3
  <2>7. Upset("crash")
          \/ \A a \in Accounts : Kept(a)
    BY <1>1, <1>2, <2>3 DEF Kept
  <2> QED
    BY <1>0, <2>1, <2>4, <2>5, <2>6, <2>7, WatermarkMoves
<1>4. CASE MonitorReturns
  <2>1. /\ UNCHANGED <<posted, passed, hits, handlers, seen, stored, dirty>>
        /\ \A a \in Accounts : next'[a] <= next[a]
        /\ restart' = NoRestart /\ Peacefully
    BY <1>4 DEF MonitorReturns, serviceVars, seenVars
  <2>2. InMemory' => InMemory
    BY <2>1, NoRestartType DEF InMemory
  <2>3. InMemory' => \A a \in Accounts : stored'[a] <= seen'[a]
    BY <2>1, <2>2 DEF Exact, Watermark
  <2>4. \A a \in Accounts :
          seen'[a] <= seen[a] /\ stored'[a] <= stored[a]
            /\ seen[a] <= seen'[a] /\ stored[a] <= stored'[a]
    BY <1>1, <2>1
  <2>5. ~dirty' => \A a \in Accounts : seen'[a] <= stored'[a]
    BY <2>1, <1>2
  <2>6. \A a \in Accounts : Kept(a)
    BY <2>4 DEF Kept
  <2> QED
    BY <1>0, <2>1, <2>3, <2>4, <2>5, <2>6, WatermarkMoves
<1> QED
  BY <1>3, <1>4

-----------------------------------------------------------------------------
(* A message is received. *)
LEMMA ReceivesWatermark ==
  ASSUME Exact, MonitorTypeOK', NEW a \in Accounts, NEW m \in Messages, Receives(a, m),
         \A k \in Messages : k < m => Behind(a, k),
         Peacefully \/ \E kind : Upset(kind),
         \A b \in Accounts : next'[b] = next[b] \/ (b = a /\ next'[b] = m + 1)
  PROVE  Watermark'
<1>0. /\ Excuse' \in Nat /\ Excuse <= Excuse' /\ Excuse \in Nat
  BY ExcuseGrows, MonitorNumbers DEF Exact, Served
<1>1. \A b \in Accounts :
        /\ seen[b] \in Nat /\ stored[b] \in Nat /\ next[b] \in Nat
        /\ seen'[b] \in Nat /\ stored'[b] \in Nat /\ next'[b] \in Nat
        /\ \A k \in Messages : hits[b][k] \in Nat /\ k \in Nat
  <2>1. /\ seen' \in [Accounts -> 0..MaxMessages] /\ stored' \in [Accounts -> 0..MaxMessages]
        /\ next' \in [Accounts -> 1..(MaxMessages + 1)]
    BY DEF MonitorTypeOK
  <2> QED
    BY <2>1, MonitorNumbers, Numbers DEF Exact, Served
<1>2. /\ a \in handlers /\ a \in loaded /\ UNCHANGED <<handlers, restart, passed>>
      /\ seen \in [Accounts -> 0..MaxMessages] /\ hits \in [Accounts -> [Messages -> Nat]]
  BY DEF Receives, Exact, Served, MonitorTypeOK, serviceVars
<1>3. InMemory /\ \A b \in Accounts : stored[b] <= seen[b]
  BY <1>2 DEF InMemory, Exact, Watermark
<1>4. CASE m <= seen[a]
  <2>1. UNCHANGED <<seen, stored, dirty, hits>>
    BY <1>4 DEF Receives, Seen, seenVars
  <2>2. \A b \in Accounts, k \in Messages : Behind(b, k)' => Behind(b, k)
    BY <1>1, <1>4, <2>1 DEF Behind
  <2>3. \A b \in Accounts, k \in Messages : Above(b, k)' => Above(b, k)
    BY <2>1 DEF Above
  <2>4. ASSUME NEW b \in Accounts, NEW k \in Messages
        PROVE  /\ hits'[b][k] <= 1 + Excuse'
               /\ Above(b, k)' => hits'[b][k] <= Excuse'
               /\ Behind(b, k)' => hits'[b][k] >= 1 \/ k \in passed'[b]
    <3>1. /\ hits[b][k] <= 1 + Excuse
          /\ Above(b, k) => hits[b][k] <= Excuse
          /\ Behind(b, k) => hits[b][k] >= 1 \/ k \in passed[b]
      BY DEF Exact, Watermark
    <3> QED
      BY <1>0, <1>1, <1>2, <2>1, <2>2, <2>3, <3>1
  <2>5. /\ \A b \in Accounts : stored'[b] <= seen'[b]
        /\ \A b \in Accounts : ~dirty' => seen'[b] <= stored'[b]
    BY <1>3, <2>1 DEF Exact, Watermark
  <2> QED
    BY <2>4, <2>5 DEF Watermark
<1>5. CASE m > seen[a]
  <2>1. /\ seen' = [seen EXCEPT ![a] = m] /\ hits' = [hits EXCEPT ![a][m] = @ + 1]
        /\ \/ stored' = seen' /\ dirty' = FALSE
           \/ stored' = stored /\ dirty' = TRUE
    BY <1>1, <1>2, <1>5 DEF Receives, Seen
  <2>2. \A b \in Accounts : seen'[b] = IF b = a THEN m ELSE seen[b]
    BY <1>2, <2>1
  <2>3. \A b \in Accounts, k \in Messages :
          hits'[b][k] = IF b = a /\ k = m THEN hits[b][k] + 1 ELSE hits[b][k]
    BY <1>2, <2>1
  <2>4. ASSUME NEW b \in Accounts
        PROVE  stored'[b] <= seen'[b] /\ (~dirty' => seen'[b] <= stored'[b])
    <3>1. seen[b] <= seen'[b] /\ stored[b] <= seen[b]
      BY <1>1, <1>3, <1>5, <2>2
    <3>2. CASE stored' = seen' /\ dirty' = FALSE
      BY <1>1, <3>2
    <3>3. CASE stored' = stored /\ dirty' = TRUE
      BY <1>1, <3>1, <3>3
    <3> QED
      BY <2>1, <3>2, <3>3
  <2>5. Above(a, m)
    BY <1>1, <1>3, <1>5 DEF Above
  <2>6. ASSUME NEW b \in Accounts, NEW k \in Messages
        PROVE  /\ hits'[b][k] <= 1 + Excuse'
               /\ Above(b, k)' => hits'[b][k] <= Excuse'
               /\ Behind(b, k)' => hits'[b][k] >= 1 \/ k \in passed'[b]
    <3>1. /\ hits[b][k] <= 1 + Excuse
          /\ Above(b, k) => hits[b][k] <= Excuse
          /\ Behind(b, k) => hits[b][k] >= 1 \/ k \in passed[b]
      BY DEF Exact, Watermark
    <3>2. CASE b = a /\ k = m
      <4>1. ~Above(b, k)'
        BY <1>1, <2>2, <3>2 DEF Above
      <4>2. hits'[b][k] = hits[b][k] + 1 /\ hits[b][k] <= Excuse
        BY <2>3, <2>5, <3>1, <3>2
      <4> QED
        BY <1>0, <1>1, <4>1, <4>2
    <3>3. CASE ~(b = a /\ k = m)
      <4>1. hits'[b][k] = hits[b][k]
        BY <2>3, <3>3
      <4>2. Above(b, k)' => Above(b, k)
        BY <1>1, <1>3, <1>5, <2>1, <2>2 DEF Above
      <4>3. Behind(b, k)' => Behind(b, k)
        <5>1. CASE b = a
          BY <1>1, <1>3, <1>5, <2>1, <2>2, <3>3, <5>1 DEF Behind
        <5>2. CASE b # a
          BY <1>1, <1>3, <2>1, <2>2, <5>2 DEF Behind
        <5> QED
          BY <5>1, <5>2
      <4> QED
        BY <1>0, <1>1, <1>2, <3>1, <4>1, <4>2, <4>3
    <3> QED
      BY <3>2, <3>3
  <2> QED
    BY <2>4, <2>6 DEF Watermark
<1> QED
  BY <1>1, <1>4, <1>5

LEMMA MessagesWatermark ==
  ASSUME Exact, NEW a \in Accounts,
         Delivers(a) \/ DeliversAgain(a) \/ Passes(a) \/ IsPosted(a)
  PROVE  Watermark'
<1>0. MonitorTypeOK' /\ next \in [Accounts -> 1..(MaxMessages + 1)]
      /\ posted \in [Accounts -> 0..MaxMessages] /\ passed \in [Accounts -> SUBSET Messages]
  BY MessagesServe DEF Exact, Served, MonitorTypeOK
<1>1. CASE Delivers(a)
  <2>1. next[a] \in Messages
    BY <1>0, <1>1, Numbers DEF Delivers, Messages
  <2>2. \A k \in Messages : k < next[a] => Behind(a, k)
    BY DEF Behind
  <2>3. \A b \in Accounts : next'[b] = next[b] \/ (b = a /\ next'[b] = next[a] + 1)
    BY <1>0, <1>1 DEF Delivers
  <2> QED
    BY <1>0, <1>1, <2>1, <2>2, <2>3, ReceivesWatermark DEF Delivers
<1>2. CASE DeliversAgain(a)
  <2>1. PICK m \in 1..(next[a] - 1) : Receives(a, m)
    BY <1>2 DEF DeliversAgain
  <2>2. m \in Messages
    BY <1>0, <2>1, Numbers DEF Messages
  <2>3. \A k \in Messages : k < m => Behind(a, k)
    BY <1>0, <2>1 DEF Behind, Messages
  <2>4. (\E kind : Upset(kind)) /\ next' = next
    BY <1>2 DEF DeliversAgain
  <2> QED
    BY <1>0, <2>1, <2>2, <2>3, <2>4, ReceivesWatermark
<1>3. CASE Passes(a)
  <2>1. /\ UNCHANGED <<hits, seen, stored, dirty, handlers, restart>>
        /\ \A b \in Accounts : next'[b] = IF b = a THEN next[a] + 1 ELSE next[b]
        /\ \A b \in Accounts : passed'[b] = IF b = a THEN passed[a] \cup {next[a]} ELSE passed[b]
        /\ Peacefully
    BY <1>0, <1>3 DEF Passes, seenVars, serviceVars
  <2>2. /\ Excuse' \in Nat /\ Excuse <= Excuse' /\ Excuse \in Nat
    BY <2>1, ExcuseGrows, MonitorNumbers DEF Exact, Served
  <2>3. ASSUME NEW b \in Accounts, NEW k \in Messages
        PROVE  /\ hits'[b][k] <= 1 + Excuse'
               /\ Above(b, k)' => hits'[b][k] <= Excuse'
               /\ Behind(b, k)' => hits'[b][k] >= 1 \/ k \in passed'[b]
    <3>1. /\ hits[b][k] <= 1 + Excuse /\ hits[b][k] \in Nat
          /\ Above(b, k) => hits[b][k] <= Excuse
          /\ Behind(b, k) => hits[b][k] >= 1 \/ k \in passed[b]
      BY MonitorNumbers DEF Exact, Served, Watermark
    <3>2. Above(b, k)' <=> Above(b, k)
      BY <2>1 DEF Above
    <3>3. Behind(b, k)' => Behind(b, k) \/ (b = a /\ k = next[a])
      BY <1>0, <2>1 DEF Behind, Messages
    <3> QED
      BY <2>1, <2>2, <3>1, <3>2, <3>3
  <2>4. InMemory' <=> InMemory
    BY <2>1 DEF InMemory
  <2> QED
    BY <2>1, <2>3, <2>4 DEF Exact, Watermark
<1>4. CASE IsPosted(a)
  <2>1. /\ UNCHANGED <<hits, passed, next, seen, stored, dirty, handlers, restart>>
        /\ Peacefully
    BY <1>4 DEF IsPosted, seenVars, serviceVars
  <2>2. Excuse' = Excuse
    BY <2>1 DEF Excuse, Peacefully
  <2> QED
    BY <2>1, <2>2 DEF Exact, Watermark, Above, Behind, InMemory
<1> QED
  BY <1>1, <1>2, <1>3, <1>4

LEMMA AroundWatermark ==
  ASSUME Exact,
         SaveTasks \/ \E a \in Accounts : RunTakes(a) \/ RunGives(a) \/ Disconnects(a)
  PROVE  Watermark'
<1>1. /\ UNCHANGED <<messageVars, seenVars, handlers, restart>>
      /\ Peacefully \/ \E kind : Upset(kind)
  BY DEF SaveTasks, RunTakes, RunGives, Disconnects, serviceVars
<1>2. InMemory' => InMemory
  BY <1>1 DEF InMemory, seenVars
<1> QED
  BY <1>1, <1>2, WatermarkStays

LEMMA ExactStep == Exact /\ [MonitorNext]_monitorVars => Exact'
<1>0. Exact /\ [MonitorNext]_monitorVars => Served'
  BY ServedStep DEF Exact
<1>1. CASE Exact /\ UNCHANGED monitorVars
  <2>1. Excuse' = Excuse
    BY <1>1 DEF Excuse, monitorVars
  <2>2. Watermark'
    BY <1>1, <2>1 DEF Exact, Watermark, Above, Behind, InMemory, monitorVars
  <2> QED
    BY <1>0, <1>1, <2>2 DEF Exact
<1>2. CASE Exact /\ MonitorNext
  <2>1. Watermark'
    BY <1>2, RestartWatermark, TurnsWatermark, MessagesWatermark, AroundWatermark,
       ProcessWatermark, Zenon DEF MonitorNext
  <2> QED
    BY <1>0, <1>2, <2>1 DEF Exact
<1> QED
  BY <1>1, <1>2

LEMMA ExactInit == MonitorInit => Exact
<1> SUFFICES ASSUME MonitorInit PROVE Exact
  OBVIOUS
<1>1. Served
  BY ServedInit
<1>2. \A a \in Accounts : seen[a] = 0 /\ stored[a] = 0 /\ next[a] = 1
  BY DEF MonitorInit, Nothing
<1>3. \A a \in Accounts, m \in Messages : hits[a][m] = 0 /\ ~Behind(a, m)
  BY <1>2, Numbers DEF MonitorInit, Behind, Messages
<1>4. Excuse \in Nat
  BY <1>1, MonitorNumbers DEF Served
<1>5. Watermark
  BY <1>2, <1>3, <1>4 DEF Watermark
<1> QED
  BY <1>1, <1>5 DEF Exact

(* A message that Telegram delivers again is not handled again, but for    *)
(* one repetition per crash or failed write; nothing a handler got in the  *)
(* order of the channel is swallowed; the key of the rules means that they *)
(* are served.                                                             *)
THEOREM HitsExact == MonitorSpec => []HitsAreExact
<1>1. Exact => HitsAreExact
  <2> HAVE Exact
  <2>1. MonitorTypeOK /\ KeyMeansServed
    BY DEF Exact, Served, Arranged, KeyMeansServed
  <2>2. HitOnce
    BY DEF Exact, Watermark, Excuse, HitOnce
  <2>3. ASSUME NEW a \in Accounts, NEW m \in 1..(next[a] - 1)
        PROVE  hits[a][m] >= 1 \/ m \in passed[a]
    <3>1. next[a] \in 1..(MaxMessages + 1)
      BY <2>1 DEF MonitorTypeOK
    <3>2. m \in Messages /\ m < next[a]
      BY <3>1, Numbers DEF Messages
    <3> QED
      BY <3>2 DEF Exact, Watermark, Behind
  <2> QED
    BY <2>1, <2>2, <2>3 DEF HitsAreExact, NoneMissed
<1> QED
  BY <1>1, ExactInit, ExactStep, PTL DEF MonitorSpec

-----------------------------------------------------------------------------
(***************************************************************************)
(* SignSchedule, for any clock, edits and restarts: the cron jobs follow   *)
(* the plan file, and a plan whose window lies within a day runs once on   *)
(* every day, at a time drawn from its window.                             *)
(***************************************************************************)

(* Days and slots: a moment is its slot of its day.                        *)
LEMMA DayAndSlot ==
  ASSUME NEW t \in Nat
  PROVE  DayOf(t) \in Nat /\ SlotOf(t) \in 0..(Slots - 1) /\ t = Slots * DayOf(t) + SlotOf(t)
BY ScheduleAssumption, SMT DEF DayOf, SlotOf

LEMMA OneDay ==
  ASSUME NEW t \in Nat, NEW q \in Nat, NEW r \in 0..(Slots - 1), t = Slots * q + r
  PROVE  DayOf(t) = q /\ SlotOf(t) = r
<1> DEFINE d == DayOf(t) s == SlotOf(t)
<1>1. d \in Nat /\ s \in 0..(Slots - 1) /\ t = Slots * d + s
  BY DayAndSlot
<1>2. ASSUME NEW a \in Nat, NEW b \in Nat, a < b PROVE Slots * b >= Slots * a + Slots
  <2>1. b - a - 1 \in Nat
    BY <1>2
  <2>2. Slots * (b - a - 1) >= 0
    BY <2>1, ScheduleAssumption
  <2> QED
    BY <2>2, ScheduleAssumption
<1> HIDE DEF d, s
<1>3. ~(d < q)
  BY <1>1, <1>2, ScheduleAssumption
<1>4. ~(q < d)
  BY <1>1, <1>2, ScheduleAssumption
<1>5. d = q
  BY <1>1, <1>3, <1>4
<1>6. s = r
  BY <1>1, <1>5, ScheduleAssumption
<1> QED
  BY <1>5, <1>6 DEF d, s

LEMMA NextSlot ==
  ASSUME NEW t \in Nat
  PROVE  IF SlotOf(t) = Slots - 1
           THEN DayOf(t + 1) = DayOf(t) + 1 /\ SlotOf(t + 1) = 0
           ELSE DayOf(t + 1) = DayOf(t) /\ SlotOf(t + 1) = SlotOf(t) + 1
<1>1. DayOf(t) \in Nat /\ SlotOf(t) \in 0..(Slots - 1) /\ t = Slots * DayOf(t) + SlotOf(t)
  BY DayAndSlot
<1>2. CASE SlotOf(t) = Slots - 1
  <2>1. t + 1 = Slots * (DayOf(t) + 1) + 0
    BY <1>1, <1>2, ScheduleAssumption
  <2> QED
    BY <1>1, <1>2, <2>1, OneDay, ScheduleAssumption
<1>3. CASE SlotOf(t) # Slots - 1
  <2>1. t + 1 = Slots * DayOf(t) + (SlotOf(t) + 1)
    BY <1>1, ScheduleAssumption
  <2> QED
    BY <1>1, <1>3, <2>1, OneDay, ScheduleAssumption
<1> QED
  BY <1>2, <1>3

(* A later slot of the same day.                                           *)
LEMMA LaterToday ==
  ASSUME NEW t \in Nat, NEW s \in 0..(Slots - 1), NEW u \in t..(t - SlotOf(t) + s)
  PROVE  DayOf(u) = DayOf(t)
<1>1. DayOf(t) \in Nat /\ SlotOf(t) \in 0..(Slots - 1) /\ t = Slots * DayOf(t) + SlotOf(t)
  BY DayAndSlot
<1>2. u \in Nat /\ u - t + SlotOf(t) \in 0..(Slots - 1)
  BY <1>1, ScheduleAssumption
<1>3. u = Slots * DayOf(t) + (u - t + SlotOf(t))
  BY <1>1, <1>2, ScheduleAssumption
<1> QED
  BY <1>1, <1>2, <1>3, OneDay

LEMMA DayInDays ==
  ASSUME NEW t \in Times
  PROVE  t \in Nat /\ DayOf(t) \in DaySet
<1>1. t \in Nat /\ t < Slots * Days
  <2>1. Slots * Days \in Nat
    BY ScheduleAssumption
  <2> QED
    BY <2>1 DEF Times
<1>2. DayOf(t) \in Nat /\ SlotOf(t) \in 0..(Slots - 1) /\ t = Slots * DayOf(t) + SlotOf(t)
  BY <1>1, DayAndSlot
<1>3. SUFFICES ASSUME ~(DayOf(t) < Days) PROVE FALSE
  BY <1>1, <1>2, ScheduleAssumption DEF DaySet
<1>4. DayOf(t) - Days \in Nat
  BY <1>2, <1>3, ScheduleAssumption
<1>5. Slots * (DayOf(t) - Days) >= 0
  BY <1>4, ScheduleAssumption
<1>6. Slots * DayOf(t) >= Slots * Days
  BY <1>2, <1>5, ScheduleAssumption
<1> QED
  BY <1>1, <1>2, <1>6, ScheduleAssumption

LEMMA DaysFollow ==
  ASSUME NEW t \in Nat, NEW u \in Nat, t <= u
  PROVE  DayOf(t) <= DayOf(u)
<1>1. /\ DayOf(t) \in Nat /\ SlotOf(t) \in 0..(Slots - 1) /\ t = Slots * DayOf(t) + SlotOf(t)
      /\ DayOf(u) \in Nat /\ SlotOf(u) \in 0..(Slots - 1) /\ u = Slots * DayOf(u) + SlotOf(u)
  BY DayAndSlot
<1>2. SUFFICES ASSUME DayOf(u) < DayOf(t) PROVE FALSE
  BY <1>1
<1>3. DayOf(t) - DayOf(u) - 1 \in Nat
  BY <1>1, <1>2
<1>4. Slots * (DayOf(t) - DayOf(u) - 1) >= 0
  BY <1>3, ScheduleAssumption
<1>5. Slots * DayOf(t) >= Slots * DayOf(u) + Slots
  BY <1>1, <1>4, ScheduleAssumption
<1> QED
  BY <1>1, <1>5, ScheduleAssumption
-----------------------------------------------------------------------------
(* The windows of the theorems end on the day they begin.  The code lets a *)
(* window span midnight; then a run of its morning part belongs to the day *)
(* after, and the promises below are not kept.                             *)
WithinDay == \A p \in Plans : p.mode = "range" => p.from < p.to

Today == DayOf(clock)

(* Nobody edits: the file keeps its plan, and an ending run writes it back. *)
NoEdits ==
  /\ request.at = "none" /\ file.enabled
  /\ process = "up" => cron = file.plan.from
  /\ run.at = "ending" => run.read.enabled /\ run.read.plan = file.plan

(* The cron job follows the file because no end of a run and no edit       *)
(* overlap: what the run writes back asks for the job the file asked for.  *)
CronInv ==
  "overlap" \notin chances =>
    /\ process = "up" => cron = JobOf(file) /\ (due => file.enabled)
    /\ run.at = "ending" =>
         /\ request.at # "read"
         /\ run.read.enabled = file.enabled /\ run.read.plan = file.plan

(* Today has had its run, or has it now. *)
Used == completed[Today] > 0 \/ (run.at # "none" /\ DayOf(run.began) = Today)

OnceRuns ==
  /\ run.at # "none" =>
       /\ process = "up" /\ run.by = "scheduler" /\ run.began <= clock
       /\ completed[DayOf(run.began)] = 0
  /\ \A d \in DaySet : completed[d] <= 1 /\ (d > Today => completed[d] = 0)
  /\ completed[Today] > 0 => LastIsToday(file)

OnceJobs ==
  /\ due => process = "up" /\ SlotOf(clock) = file.plan.from
  /\ \A d \in DaySet : shots[d] # NoSlot =>
       process = "up" /\ d = Today /\ DayOf(shots[d]) = d /\ clock <= shots[d]
  /\ Used => shots[Today] = NoSlot
  /\ Used \/ shots[Today] # NoSlot => file.plan.from <= SlotOf(clock) /\ ~due

OnceInv ==
  chances \cap {"edit", "manual"} = {} => NoEdits /\ OnceRuns /\ OnceJobs /\ (process # "up" => cron = NoSlot)

WindowInv ==
  chances \cap {"edit", "late"} = {} =>
    NoEdits /\ WindowIsServed
LEMMA ClockIsToday ==
  ASSUME ScheduleTypeOK
  PROVE  /\ clock \in Nat /\ Today \in DaySet /\ Today \in Nat
         /\ SlotOf(clock) \in 0..(Slots - 1)
BY DayInDays, DayAndSlot DEF ScheduleTypeOK, Today

LEMMA StartsAtZero == 0 \in Times /\ DayOf(0) = 0
<1>1. Slots * Days >= 1
  <2>1. Slots * (Days - 1) >= 0
    BY ScheduleAssumption
  <2> QED
    BY <2>1, ScheduleAssumption
<1>2. 0 = Slots * 0 + 0
  BY ScheduleAssumption
<1>3. Slots * Days \in Int
  BY ScheduleAssumption
<1>4. 0 \in Times
  BY <1>1, <1>3 DEF Times
<1> QED
  BY <1>2, <1>4, OneDay, ScheduleAssumption

LEMMA PlanParts ==
  ASSUME NEW f \in Files
  PROVE  /\ f.enabled \in BOOLEAN /\ f.plan \in Plans /\ f.last \in Times \cup {NoSlot}
         /\ f.plan.mode \in {"fixed", "range"}
         /\ f.plan.from \in 0..(Slots - 1) /\ f.plan.to \in 0..(Slots - 1)
         /\ JobOf(f) \in 0..(Slots - 1) \cup {NoSlot}
         /\ f.enabled => JobOf(f) = f.plan.from
         /\ (JobOf(f) # NoSlot) = f.enabled
BY ScheduleAssumption DEF Files, JobOf, NoSlot

(* A run that begins is a run of the type, and the only one.               *)
LEMMA BeginsType ==
  ASSUME ScheduleTypeOK, NEW who \in {"scheduler", "user"}, Begins(who)
  PROVE  /\ run'.at # "none" /\ run' \in [at : {"none", "working", "ending"}, began : Times,
              by : {"nobody", "scheduler", "user"}, read : Files]
         /\ run'.at = "ending" => run.at = "ending" /\ run' = run
         /\ \/ run.at # "none" /\ run' = run
            \/ run.at = "none" /\ run'.at = "working" /\ run'.began = clock /\ run'.by = who
BY StartsAtZero DEF ScheduleTypeOK, Begins, NoRun

LEMMA TypeStep ==
  ASSUME ScheduleTypeOK, ScheduleNext
  PROVE  ScheduleTypeOK'
<1> USE DEF ScheduleTypeOK, Usual, Occasion
<1>1. CASE Tick
  BY <1>1 DEF Tick
<1>2. CASE FireCron
  <2>1. Today \in DaySet
    BY ClockIsToday
  <2>2. run' \in [at : {"none", "working", "ending"}, began : Times,
                  by : {"nobody", "scheduler", "user"}, read : Files]
    BY <1>2, BeginsType DEF FireCron
  <2>3. shots' \in [DaySet -> Times \cup {NoSlot}]
    BY <1>2, <2>1 DEF FireCron, Today
  <2> QED
    BY <1>2, <2>2, <2>3 DEF FireCron
<1>3. CASE RunReads
  BY <1>3 DEF RunReads
<1>4. CASE RunEnds
  <2>1. file' \in Files
    BY <1>4 DEF RunEnds, Files
  <2>2. run.began \in Times /\ DayOf(run.began) \in DaySet
    BY DayInDays
  <2>3. completed' \in [DaySet -> Nat]
    BY <1>4, <2>2 DEF RunEnds
  <2> QED
    BY <1>4, <2>1, <2>3, StartsAtZero DEF RunEnds, NoRun
<1>5. CASE RunByHand
  BY <1>5, BeginsType, ScheduleAssumption DEF RunByHand
<1>6. CASE EditReads
  <2>1. request' \in [at : {"none", "read", "written"}, read : Files, wants : Files]
    BY <1>6 DEF EditReads, Files
  <2> QED
    BY <1>6, <2>1, ScheduleAssumption DEF EditReads
<1>7. CASE EditWrites
  <2>1. request.wants \in Files
    OBVIOUS
  <2> QED
    BY <1>7, <2>1, PlanParts DEF EditWrites, Registered
<1>8. CASE EditSyncs
  BY <1>8, PlanParts DEF EditSyncs, Registered, NoRequest
<1>9. CASE Boot
  <2>1. Today \in DaySet
    BY ClockIsToday
  <2> QED
    BY <1>9, <2>1, PlanParts DEF Boot, Registered, Today
<1>10. CASE Dies
  <2>1. shots' \in [DaySet -> Times \cup {NoSlot}]
    BY <1>10 DEF Dies
  <2>2. /\ run' \in [at : {"none", "working", "ending"}, began : Times,
                     by : {"nobody", "scheduler", "user"}, read : Files]
        /\ request' \in [at : {"none", "read", "written"}, read : Files, wants : Files]
    BY <1>10, StartsAtZero DEF Dies, NoRun, NoRequest
  <2>3. happened' \in 0..MaxOccasions /\ chances' = chances
    BY <1>10, ScheduleAssumption DEF Dies
  <2>4. /\ cron' \in 0..(Slots - 1) \cup {NoSlot} /\ due' \in BOOLEAN
        /\ process' \in {"up", "starting", "down"}
    BY <1>10 DEF Dies
  <2> QED
    BY <1>10, <2>1, <2>2, <2>3, <2>4 DEF Dies
<1>11. CASE ComesBack
  BY <1>11 DEF ComesBack
<1>12. CASE \E d \in DaySet : FireShot(d)
  BY <1>12, BeginsType DEF FireShot
<1> QED
  BY <1>1, <1>2, <1>3, <1>4, <1>5, <1>6, <1>7, <1>8, <1>9, <1>10, <1>11, <1>12 DEF ScheduleNext

LEMMA TypeInit == ScheduleInit => ScheduleTypeOK
<1> SUFFICES ASSUME ScheduleInit PROVE ScheduleTypeOK
  OBVIOUS
<1>1. file \in Files
  BY DEF ScheduleInit, Files
<1>2. /\ run \in [at : {"none", "working", "ending"}, began : Times,
                  by : {"nobody", "scheduler", "user"}, read : Files]
      /\ request \in [at : {"none", "read", "written"}, read : Files, wants : Files]
  BY <1>1, StartsAtZero DEF ScheduleInit, NoRun, NoRequest
<1>3. shots \in [DaySet -> Times \cup {NoSlot}]
  BY DEF ScheduleInit
<1>4. completed \in [DaySet -> Nat]
  BY DEF ScheduleInit
<1>5. cron \in 0..(Slots - 1) \cup {NoSlot} /\ happened \in 0..MaxOccasions
  BY ScheduleAssumption DEF ScheduleInit
<1> QED
  BY <1>1, <1>2, <1>3, <1>4, <1>5, StartsAtZero DEF ScheduleInit, ScheduleTypeOK

-----------------------------------------------------------------------------
LEMMA CronStep ==
  ASSUME ScheduleTypeOK, CronInv, ScheduleNext
  PROVE  CronInv'
<1> SUFFICES ASSUME "overlap" \notin chances
             PROVE  /\ process' = "up" => cron' = JobOf(file') /\ (due' => file'.enabled)
                    /\ run'.at = "ending" =>
                         /\ request'.at # "read"
                         /\ run'.read.enabled = file'.enabled /\ run'.read.plan = file'.plan
  BY DEF CronInv, JobOf, ScheduleNext, Tick, FireCron, RunReads, RunEnds, RunByHand, EditReads,
         EditWrites, EditSyncs, Boot, Dies, ComesBack, FireShot, Usual, Occasion
<1>0. /\ process = "up" => cron = JobOf(file) /\ (due => file.enabled)
      /\ run.at = "ending" =>
           /\ request.at # "read"
           /\ run.read.enabled = file.enabled /\ run.read.plan = file.plan
      /\ file \in Files /\ run.read \in Files
      /\ (JobOf(file) # NoSlot) = file.enabled
  BY PlanParts DEF CronInv, ScheduleTypeOK
<1>1. CASE Tick
  <2>1. SlotOf(clock + 1) # NoSlot
    BY DayAndSlot, DayInDays, <1>1 DEF Tick, NoSlot
  <2> QED
    BY <1>0, <1>1, <2>1 DEF Tick
<1>2. CASE FireCron
  BY <1>0, <1>2, BeginsType DEF FireCron
<1>3. CASE RunReads
  BY <1>0, <1>3 DEF RunReads, ScheduleTypeOK
<1>4. CASE RunEnds
  BY <1>0, <1>4 DEF RunEnds, NoRun, JobOf, Files
<1>5. CASE RunByHand
  BY <1>0, <1>5, BeginsType DEF RunByHand
<1>6. CASE EditReads
  BY <1>0, <1>6 DEF EditReads
<1>7. CASE EditWrites
  BY <1>0, <1>7 DEF EditWrites, Registered, ScheduleTypeOK
<1>8. CASE EditSyncs
  BY <1>0, <1>8 DEF EditSyncs, Registered, NoRequest
<1>9. CASE Boot
  BY <1>0, <1>9 DEF Boot, Registered
<1>10. CASE Dies
  BY <1>0, <1>10 DEF Dies, NoRun
<1>11. CASE ComesBack
  BY <1>0, <1>11 DEF ComesBack
<1>12. CASE \E d \in DaySet : FireShot(d)
  BY <1>0, <1>12, BeginsType DEF FireShot
<1> QED
  BY <1>1, <1>2, <1>3, <1>4, <1>5, <1>6, <1>7, <1>8, <1>9, <1>10, <1>11, <1>12 DEF ScheduleNext
-----------------------------------------------------------------------------
LEMMA ChancesStay == ScheduleNext => chances' = chances
BY DEF ScheduleNext, Tick, FireCron, RunReads, RunEnds, RunByHand, EditReads, EditWrites,
       EditSyncs, Boot, Dies, ComesBack, FireShot, Usual, Occasion

(* The window of a plan begins in the morning of the day it ends. *)
LEMMA WindowBegins ==
  ASSUME WithinDay, ScheduleTypeOK, InWindow(file.plan)
  PROVE  file.plan.from <= SlotOf(clock)
BY PlanParts, ClockIsToday DEF WithinDay, ScheduleTypeOK, InWindow

(* The moment the cron job draws lies in the day of the window.            *)
LEMMA DrawnToday ==
  ASSUME WithinDay, ScheduleTypeOK, file.plan.mode = "range",
         NEW t \in (clock..EndOfWindow(file.plan)) \cap Times
  PROVE  DayOf(t) = Today /\ clock <= t /\ t # NoSlot
<1>1. file.plan \in Plans /\ file.plan.from \in 0..(Slots - 1) /\ file.plan.to \in 0..(Slots - 1)
  BY PlanParts DEF ScheduleTypeOK
<1>2. EndOfWindow(file.plan) = clock - SlotOf(clock) + file.plan.to
  BY <1>1, ClockIsToday DEF WithinDay, EndOfWindow
<1>3. t \in clock..(clock - SlotOf(clock) + file.plan.to) /\ t \in Nat
  BY <1>2, DayInDays
<1> QED
  BY <1>1, <1>3, LaterToday, ClockIsToday DEF Today, NoSlot

LEMMA NoEditsStep ==
  ASSUME ScheduleTypeOK, NoEdits, "edit" \notin chances, ScheduleNext
  PROVE  NoEdits'
<1>0. file \in Files /\ JobOf(file) = file.plan.from
  BY PlanParts DEF ScheduleTypeOK, NoEdits
<1>1. CASE RunEnds
  BY <1>0, <1>1 DEF RunEnds, NoEdits, NoRun, Files, ScheduleTypeOK
<1>2. CASE FireCron \/ RunByHand \/ \E d \in DaySet : FireShot(d)
  <2>1. run'.at = "ending" => run.at = "ending" /\ run' = run
    BY <1>2, BeginsType DEF FireCron, RunByHand, FireShot
  <2> QED
    BY <1>2, <2>1 DEF FireCron, RunByHand, FireShot, NoEdits
<1>3. CASE EditReads \/ EditWrites \/ EditSyncs
  BY <1>3 DEF EditReads, EditWrites, EditSyncs, Occasion, NoEdits
<1>4. CASE Boot
  BY <1>0, <1>4 DEF Boot, Registered, NoEdits
<1>5. CASE RunReads
  BY <1>5 DEF RunReads, NoEdits, ScheduleTypeOK
<1>6. CASE Tick \/ Dies \/ ComesBack
  BY <1>6 DEF Tick, Dies, ComesBack, NoRun, NoRequest, NoEdits
<1> QED
  BY <1>1, <1>2, <1>3, <1>4, <1>5, <1>6 DEF ScheduleNext

(* The next slot: still today, or the first slot of tomorrow.              *)
LEMMA TimePasses ==
  ASSUME ScheduleTypeOK, Tick
  PROVE  /\ Today' \in DaySet /\ clock' = clock + 1
         /\ \/ Today' = Today /\ SlotOf(clock') = SlotOf(clock) + 1
            \/ Today' = Today + 1 /\ SlotOf(clock') = 0
BY NextSlot, ClockIsToday, DayInDays DEF Tick, Today

-----------------------------------------------------------------------------
LEMMA OnceStep ==
  ASSUME WithinDay, ScheduleTypeOK, OnceInv, ScheduleNext
  PROVE  OnceInv'
<1> DEFINE Waits == process # "up" => cron = NoSlot
<1> SUFFICES ASSUME chances \cap {"edit", "manual"} = {}
             PROVE  (NoEdits /\ OnceRuns /\ OnceJobs /\ Waits)'
  BY ChancesStay DEF OnceInv
<1>a. NoEdits /\ OnceRuns /\ OnceJobs /\ Waits
  BY DEF OnceInv
<1>b. NoEdits'
  BY <1>a, NoEditsStep
<1>c. /\ clock \in Nat /\ clock # NoSlot /\ Today \in DaySet /\ Today \in Nat /\ DayOf(clock) = Today
      /\ SlotOf(clock) \in 0..(Slots - 1)
      /\ file.enabled \in BOOLEAN /\ file.plan.from \in 0..(Slots - 1) /\ file.plan.from # NoSlot
      /\ completed \in [DaySet -> Nat] /\ shots \in [DaySet -> Times \cup {NoSlot}]
      /\ run.began \in Nat /\ DayOf(run.began) \in DaySet /\ DaySet \subseteq Int
  BY ClockIsToday, PlanParts, DayInDays, ScheduleAssumption DEF ScheduleTypeOK, Today, NoSlot, DaySet
<1>d. run.at # "none" => DayOf(run.began) <= Today
  BY <1>a, <1>c, DaysFollow DEF OnceRuns, Today
<1> HIDE DEF Waits
<1>1. CASE Tick
  <2>1. /\ Today' \in DaySet /\ clock' = clock + 1
        /\ \/ Today' = Today /\ SlotOf(clock') = SlotOf(clock) + 1
           \/ Today' = Today + 1 /\ SlotOf(clock') = 0
    BY <1>1, TimePasses
  <2>2. /\ (due' => cron = SlotOf(clock')) /\ run' = run /\ completed' = completed
        /\ file' = file /\ shots' = shots /\ process' = process /\ cron' = cron
    BY <1>1 DEF Tick
  <2>3. OnceRuns'
    BY <1>a, <1>c, <2>1, <2>2 DEF OnceRuns, LastIsToday, Today
  <2>4. \A d \in DaySet : shots[d] # NoSlot => d = Today /\ Today' = Today /\ clock' <= shots[d]
    <3> SUFFICES ASSUME NEW d \in DaySet, shots[d] # NoSlot
                 PROVE  d = Today /\ Today' = Today /\ clock' <= shots[d]
      OBVIOUS
    <3>1. d = Today /\ DayOf(shots[d]) = d /\ clock <= shots[d] /\ shots[d] \in Times
      BY <1>a, <1>c DEF OnceJobs
    <3>2. shots[d] # clock
      BY <1>1 DEF Tick, Overdue
    <3>3. clock' <= shots[d] /\ shots[d] \in Nat
      BY <3>1, <3>2, <2>1, <1>c, DayInDays
    <3>4. Today' <= Today
      BY <3>1, <3>3, <2>1, <1>c, DaysFollow DEF Today
    <3> QED
      BY <3>1, <3>3, <3>4, <2>1, <1>c
  <2>5. \/ Today' = Today /\ Used' = Used
        \/ Today' = Today + 1 /\ ~Used'
    BY <1>a, <1>c, <1>d, <2>1, <2>2 DEF Used, OnceRuns, DaySet
  <2>6. due' => process = "up" /\ SlotOf(clock') = file.plan.from
    BY <1>a, <1>c, <2>1, <2>2 DEF NoEdits, Waits, NoSlot
  <2>7. OnceJobs'
    BY <1>a, <1>c, <2>1, <2>2, <2>4, <2>5, <2>6 DEF OnceJobs
  <2> QED
    BY <1>a, <1>b, <2>2, <2>3, <2>7 DEF Waits
<1>2. CASE FireCron
  <2>0. due /\ ~Used /\ shots[Today] = NoSlot /\ completed[Today] = 0 /\ process = "up"
    BY <1>2, <1>a, <1>c DEF FireCron, OnceJobs, Used
  <2>1. /\ ~due' /\ UNCHANGED <<clock, file, cron, process, request, completed>>
        /\ \/ UNCHANGED <<run, shots>>
           \/ Begins("scheduler") /\ UNCHANGED shots
           \/ \E t \in Times : /\ t # NoSlot /\ clock <= t /\ DayOf(t) = Today
                             /\ shots' = [shots EXCEPT ![Today] = t] /\ UNCHANGED run
    BY <1>2, DrawnToday DEF FireCron, Today
  <2>2. SlotOf(clock) = file.plan.from
    BY <1>a, <2>0 DEF OnceJobs
  <2>3. CASE UNCHANGED <<run, shots>>
    BY <1>a, <1>b, <2>0, <2>1, <2>3 DEF OnceRuns, OnceJobs, Used, Today, LastIsToday, Waits
  <2>4. CASE Begins("scheduler") /\ UNCHANGED shots
    <3>1. \/ run.at # "none" /\ run' = run
          \/ run.at = "none" /\ run'.at = "working" /\ run'.began = clock /\ run'.by = "scheduler"
      BY <2>4, BeginsType
    <3>2. OnceRuns'
      BY <1>a, <1>c, <2>0, <2>1, <3>1 DEF OnceRuns, Today, LastIsToday
    <3>3. OnceJobs'
      BY <1>a, <1>c, <2>0, <2>1, <2>2, <2>4 DEF OnceJobs, Today
    <3> QED
      BY <1>a, <1>b, <2>1, <3>2, <3>3 DEF Waits
  <2>5. CASE \E t \in Times : /\ t # NoSlot /\ clock <= t /\ DayOf(t) = Today
                           /\ shots' = [shots EXCEPT ![Today] = t] /\ UNCHANGED run
    <3>1. OnceRuns'
      BY <1>a, <2>1, <2>5 DEF OnceRuns, Today, LastIsToday
    <3>2. ~Used'
      BY <2>0, <2>1, <2>5 DEF Used, Today
    <3>3. OnceJobs'
      BY <1>a, <1>c, <2>0, <2>1, <2>2, <2>5, <3>2 DEF OnceJobs, Today
    <3> QED
      BY <1>a, <1>b, <2>1, <3>1, <3>3 DEF Waits
  <2> QED
    BY <2>1, <2>3, <2>4, <2>5
<1>3. CASE \E d \in DaySet : FireShot(d)
  <2>0. PICK d \in DaySet : FireShot(d)
    BY <1>3
  <2>1. d = Today /\ shots[Today] # NoSlot
    BY <1>a, <1>c, <2>0 DEF FireShot, OnceJobs
  <2>2. ~Used /\ completed[Today] = 0 /\ process = "up" /\ ~due /\ file.plan.from <= SlotOf(clock)
    BY <1>a, <1>c, <2>1 DEF OnceJobs, Used
  <2>3. /\ shots' = [shots EXCEPT ![Today] = NoSlot] /\ Begins("scheduler")
        /\ UNCHANGED <<clock, file, cron, due, process, completed>>
    BY <2>0, <2>1 DEF FireShot
  <2>4. \/ run.at # "none" /\ run' = run
        \/ run.at = "none" /\ run'.at = "working" /\ run'.began = clock /\ run'.by = "scheduler"
    BY <2>3, BeginsType
  <2>5. OnceRuns'
    BY <1>a, <1>c, <2>2, <2>3, <2>4 DEF OnceRuns, Today, LastIsToday
  <2>6. OnceJobs'
    BY <1>a, <1>c, <2>2, <2>3 DEF OnceJobs, Today
  <2> QED
    BY <1>a, <1>b, <2>3, <2>5, <2>6 DEF Waits
<1>4. CASE RunReads
  <2>1. /\ run'.at # "none" /\ run.at # "none" /\ run'.by = run.by /\ run'.began = run.began
        /\ UNCHANGED <<clock, file, cron, due, shots, process, request, completed>>
    BY <1>4 DEF RunReads, ScheduleTypeOK
  <2>2. OnceRuns'
    BY <1>a, <2>1 DEF OnceRuns, Today, LastIsToday
  <2>3. OnceJobs'
    BY <1>a, <2>1 DEF OnceJobs, Used, Today
  <2> QED
    BY <1>a, <1>b, <2>1, <2>2, <2>3 DEF Waits
<1>5. CASE RunEnds
  <2>1. /\ run.at # "none" /\ run'.at = "none"
        /\ file'.last = clock /\ file'.plan = run.read.plan
        /\ completed' = [completed EXCEPT ![DayOf(run.began)] = @ + 1]
        /\ UNCHANGED <<clock, cron, due, shots, process, request>>
    BY <1>5, <1>a DEF RunEnds, NoRun, OnceRuns, ScheduleTypeOK, Files
  <2>2. file'.plan = file.plan
    BY <1>5, <1>a, <2>1 DEF RunEnds, NoEdits
  <2>3. OnceRuns'
    BY <1>a, <1>c, <1>d, <2>1 DEF OnceRuns, Today, LastIsToday
  <2>4. Used' => Used
    BY <1>a, <1>c, <2>1 DEF Used, Today
  <2>5. OnceJobs'
    BY <1>a, <1>c, <2>1, <2>2, <2>4 DEF OnceJobs, Today
  <2> QED
    BY <1>a, <1>b, <2>1, <2>3, <2>5 DEF Waits
<1>6. CASE RunByHand \/ EditReads \/ EditWrites \/ EditSyncs
  BY <1>6, <1>a DEF RunByHand, EditReads, EditWrites, EditSyncs, Occasion, NoEdits
<1>7. CASE Boot
  <2>1. /\ run.at = "none" /\ (\A d \in DaySet : shots[d] = NoSlot)
        /\ process' = "up" /\ ~due' /\ UNCHANGED <<clock, file, run, request, completed>>
    BY <1>7, <1>a DEF Boot, Registered, OnceRuns, OnceJobs
  <2>2. OnceRuns'
    BY <1>a, <2>1 DEF OnceRuns, Today, LastIsToday
  <2>3. Used' = Used /\ Today' = Today
    BY <2>1 DEF Used, Today
  <2>4. CASE CatchesUp(file)
    <3>1. shots' = [shots EXCEPT ![Today] = clock]
      BY <1>7, <2>4 DEF Boot, Today
    <3>2. file.plan.from <= SlotOf(clock)
      BY <2>4, WindowBegins DEF CatchesUp
    <3>3. ~Used
      BY <1>a, <2>1, <2>4 DEF Used, OnceRuns, CatchesUp
    <3>4. OnceJobs'
      BY <1>c, <2>1, <2>3, <3>1, <3>2, <3>3 DEF OnceJobs
    <3> QED
      BY <1>b, <2>1, <2>2, <3>4 DEF Waits
  <2>5. CASE ~CatchesUp(file)
    <3>1. shots' = shots
      BY <1>7, <2>5 DEF Boot
    <3>2. OnceJobs'
      BY <1>a, <1>c, <2>1, <2>3, <3>1 DEF OnceJobs
    <3> QED
      BY <1>b, <2>1, <2>2, <3>2 DEF Waits
  <2> QED
    BY <2>4, <2>5
<1>8. CASE Dies
  <2>1. /\ run'.at = "none" /\ (\A d \in DaySet : shots'[d] = NoSlot)
        /\ ~due' /\ cron' = NoSlot /\ UNCHANGED <<clock, file, completed>>
    BY <1>8 DEF Dies, NoRun
  <2>2. OnceRuns'
    BY <1>a, <2>1 DEF OnceRuns, Today, LastIsToday
  <2>3. (Used' => Used) /\ Today' = Today
    BY <2>1 DEF Used, Today
  <2>4. OnceJobs'
    BY <1>a, <1>c, <2>1, <2>3 DEF OnceJobs
  <2> QED
    BY <1>b, <2>1, <2>2, <2>4 DEF Waits
<1>9. CASE ComesBack
  <2>1. /\ process = "down" /\ process' = "starting"
        /\ UNCHANGED <<clock, file, cron, due, shots, run, request, completed>>
    BY <1>9 DEF ComesBack
  <2> QED
    BY <1>a, <1>b, <2>1 DEF OnceRuns, OnceJobs, Used, Today, LastIsToday, Waits
<1> QED
  BY <1>1, <1>2, <1>3, <1>4, <1>5, <1>6, <1>7, <1>8, <1>9 DEF ScheduleNext
-----------------------------------------------------------------------------
(* The window is entered in its first slot, in which the cron job is due.  *)
LEMMA EntersWindow ==
  ASSUME WithinDay, ScheduleTypeOK, ScheduleTypeOK', Tick,
         InWindow(file.plan)', ~InWindow(file.plan) \/ Today' # Today
  PROVE  SlotOf(clock') = file.plan.from
<1> DEFINE now == SlotOf(clock) then == SlotOf(clock')
<1>1. /\ now \in Nat /\ then \in Nat /\ file' = file
      /\ file.plan \in Plans /\ file.plan.mode \in {"fixed", "range"}
      /\ file.plan.from \in Nat /\ file.plan.to \in Nat
      /\ \/ Today' = Today /\ then = now + 1
         \/ Today' # Today /\ then = 0
  BY TimePasses, ClockIsToday, DayInDays, DayAndSlot, PlanParts DEF Tick, ScheduleTypeOK
<1> HIDE DEF now, then
<1>2. CASE file.plan.mode = "fixed"
  <2>1. file.plan.from <= then /\ (Today' = Today => ~(file.plan.from <= now))
    BY <1>1, <1>2 DEF InWindow, now, then
  <2> QED
    BY <1>1, <2>1 DEF then
<1>3. CASE file.plan.mode = "range"
  <2>1. file.plan.from < file.plan.to
    BY <1>1, <1>3 DEF WithinDay
  <2>2. /\ file.plan.from <= then /\ then <= file.plan.to
        /\ Today' = Today => ~(file.plan.from <= now /\ now <= file.plan.to)
    BY <1>1, <1>3, <2>1 DEF InWindow, now, then
  <2> QED
    BY <1>1, <2>1, <2>2 DEF then
<1> QED
  BY <1>1, <1>2, <1>3

LEMMA WindowStep ==
  ASSUME WithinDay, ScheduleTypeOK, WindowInv, ScheduleNext
  PROVE  WindowInv'
<1> DEFINE RunIsDue ==
      \/ LastIsToday(file) \/ run.at # "none" \/ due
      \/ \E d \in DaySet : shots[d] # NoSlot /\ clock <= shots[d] /\ DayOf(shots[d]) = DayOf(clock)
<1> SUFFICES ASSUME chances \cap {"edit", "late"} = {}
             PROVE  NoEdits' /\ (process' = "up" /\ InWindow(file.plan)' => RunIsDue')
  BY ChancesStay DEF WindowInv, WindowIsServed
<1>a. NoEdits /\ (process = "up" /\ InWindow(file.plan) => RunIsDue) /\ ScheduleTypeOK'
  BY TypeStep DEF WindowInv, WindowIsServed
<1>b. NoEdits'
  BY <1>a, NoEditsStep
<1>c. /\ clock \in Nat /\ clock # NoSlot /\ Today \in DaySet
      /\ shots \in [DaySet -> Times \cup {NoSlot}]
  BY ClockIsToday DEF ScheduleTypeOK, NoSlot
<1> HIDE DEF RunIsDue
<1>1. ASSUME Tick, process' = "up", InWindow(file.plan)' PROVE RunIsDue'
  <2>1. /\ file' = file /\ run' = run /\ process = "up" /\ shots' = shots /\ cron = file.plan.from
        /\ (cron = SlotOf(clock') => due') /\ clock' = clock + 1 /\ ~Overdue
    BY <1>1, <1>a DEF Tick, NoEdits
  <2>2. CASE ~InWindow(file.plan) \/ Today' # Today
    <3>1. due'
      BY <1>1, <1>a, <2>1, <2>2, EntersWindow
    <3> QED
      BY <3>1 DEF RunIsDue
  <2>3. CASE InWindow(file.plan) /\ Today' = Today
    <3>1. RunIsDue
      BY <1>a, <2>1, <2>3
    <3>2. CASE LastIsToday(file) \/ run.at # "none"
      BY <2>1, <2>3, <3>2 DEF RunIsDue, LastIsToday, Today
    <3>3. ASSUME NEW d \in DaySet, shots[d] # NoSlot, clock <= shots[d], DayOf(shots[d]) = DayOf(clock)
          PROVE  RunIsDue'
      <4>1. shots[d] # clock /\ shots[d] \in Nat
        BY <1>c, <2>1, <3>3, DayInDays DEF Overdue
      <4>2. clock' <= shots[d]
        BY <1>c, <2>1, <3>3, <4>1
      <4> QED
        BY <2>1, <2>3, <3>3, <4>2 DEF RunIsDue, Today
    <3> QED
      BY <2>1, <3>1, <3>2, <3>3 DEF RunIsDue, Overdue
  <2> QED
    BY <2>2, <2>3
<1>2. ASSUME FireCron, process' = "up", InWindow(file.plan)' PROVE RunIsDue'
  <2>1. UNCHANGED <<clock, file>>
    BY <1>2 DEF FireCron
  <2>2. CASE Begins("scheduler")
    BY <2>2, BeginsType DEF RunIsDue
  <2>3. CASE LastIsToday(file)
    BY <2>1, <2>3 DEF RunIsDue, LastIsToday
  <2>4. CASE file.plan.mode = "range" /\ ~LastIsToday(file) /\ ~Begins("scheduler")
    <3>1. PICK t \in (clock..EndOfWindow(file.plan)) \cap Times :
             shots' = [shots EXCEPT ![Today] = t]
      BY <1>2, <2>4 DEF FireCron, Today
    <3>2. DayOf(t) = Today /\ clock <= t /\ t # NoSlot
      BY <2>4, DrawnToday
    <3>3. shots'[Today] = t
      BY <1>c, <3>1
    <3> QED
      BY <1>c, <2>1, <3>2, <3>3 DEF RunIsDue, Today
  <2> QED
    BY <1>2, <2>2, <2>3, <2>4 DEF FireCron
<1>3. ASSUME \E d \in DaySet : FireShot(d) PROVE RunIsDue'
  BY <1>3, BeginsType DEF FireShot, RunIsDue
<1>4. ASSUME RunByHand PROVE RunIsDue'
  BY <1>4, BeginsType DEF RunByHand, RunIsDue
<1>5. ASSUME RunReads PROVE RunIsDue'
  BY <1>5 DEF RunReads, ScheduleTypeOK, RunIsDue
<1>6. ASSUME RunEnds PROVE RunIsDue'
  <2>1. file'.last = clock /\ clock' = clock
    BY <1>6 DEF RunEnds, ScheduleTypeOK, Files
  <2> QED
    BY <1>c, <2>1 DEF RunIsDue, LastIsToday
<1>7. ASSUME Boot, InWindow(file.plan)' PROVE RunIsDue'
  <2>1. UNCHANGED <<clock, file>>
    BY <1>7 DEF Boot
  <2>2. InWindow(file.plan)
    BY <1>7, <2>1 DEF InWindow
  <2>3. CASE LastIsToday(file)
    BY <2>1, <2>3 DEF RunIsDue, LastIsToday
  <2>4. CASE ~LastIsToday(file)
    <3>1. CatchesUp(file)
      BY <1>a, <2>2, <2>4 DEF CatchesUp, NoEdits
    <3>2. shots'[Today] = clock
      BY <1>7, <1>c, <3>1 DEF Boot, Today
    <3> QED
      BY <1>c, <2>1, <3>2 DEF RunIsDue, Today
  <2> QED
    BY <2>3, <2>4
<1>8. CASE EditReads \/ EditWrites \/ EditSyncs
  BY <1>8, <1>a DEF EditReads, EditWrites, EditSyncs, Occasion, NoEdits
<1>9. CASE Dies \/ ComesBack
  BY <1>9, <1>b DEF Dies, ComesBack
<1> QED
  BY <1>b, <1>1, <1>2, <1>3, <1>4, <1>5, <1>6, <1>7, <1>8, <1>9 DEF ScheduleNext

-----------------------------------------------------------------------------
DaysInv == ScheduleTypeOK /\ CronInv /\ (WithinDay => OnceInv /\ WindowInv)

LEMMA DaysInit == ScheduleInit => DaysInv
<1> SUFFICES ASSUME ScheduleInit PROVE DaysInv
  OBVIOUS
<1>1. ScheduleTypeOK
  BY TypeInit
<1>2. clock = 0 /\ Today = 0 /\ DaySet \subseteq Int
  BY StartsAtZero, ScheduleAssumption DEF ScheduleInit, Today, DaySet
<1>3. /\ request.at = "none" /\ run.at = "none" /\ file.enabled /\ process = "starting" /\ cron = NoSlot
      /\ ~due /\ \A d \in DaySet : completed[d] = 0 /\ shots[d] = NoSlot
  BY DEF ScheduleInit, NoRun, NoRequest
<1>4. Today \in DaySet
  BY <1>1, ClockIsToday
<1>5. NoEdits /\ CronInv /\ WindowIsServed
  BY <1>3 DEF NoEdits, CronInv, WindowIsServed
<1>6. OnceRuns /\ OnceJobs
  BY <1>3, <1>4 DEF OnceRuns, OnceJobs, Used
<1> QED
  BY <1>1, <1>3, <1>5, <1>6 DEF DaysInv, OnceInv, WindowInv

LEMMA DaysStep == DaysInv /\ [ScheduleNext]_scheduleVars => DaysInv'
<1> SUFFICES ASSUME DaysInv, [ScheduleNext]_scheduleVars PROVE DaysInv'
  OBVIOUS
<1>1. CASE ScheduleNext
  BY <1>1, TypeStep, CronStep, OnceStep, WindowStep DEF DaysInv
<1>2. CASE UNCHANGED scheduleVars
  BY <1>2 DEF scheduleVars, DaysInv, ScheduleTypeOK, CronInv, OnceInv, WindowInv, NoEdits, OnceRuns,
     OnceJobs, Used, Today, LastIsToday, WindowIsServed, InWindow, JobOf
<1> QED
  BY <1>1, <1>2

LEMMA DaysInvKept == DaysInv => (WithinDay => DaysAreKept)
<1> SUFFICES ASSUME DaysInv, WithinDay PROVE DaysAreKept
  OBVIOUS
<1>1. ScheduleTypeOK /\ OncePerDay /\ WindowIsServed
  BY DEF DaysInv, OnceInv, OnceRuns, OncePerDay, WindowInv, WindowIsServed
<1>2. CronFollowsFile
  BY DEF DaysInv, CronInv, CronFollowsFile
<1> QED
  BY <1>1, <1>2 DEF DaysAreKept

(* The cron job APScheduler holds is the one config.json asks for, whatever *)
(* the windows of the tasks are.                                           *)
THEOREM CronFollows == ScheduleSpec => []CronFollowsFile
<1>1. DaysInv => CronFollowsFile
  BY DEF DaysInv, CronInv, CronFollowsFile
<1> QED
  BY <1>1, DaysInit, DaysStep, PTL DEF ScheduleSpec

(* Every day has its one run, at the time config.json asks for, if the     *)
(* windows end on the day they begin (last_run_is_today, oneshot_job_id,   *)
(* catch_up_missed_sign_tasks).                                            *)
THEOREM DaysKept ==
  ASSUME WithinDay
  PROVE  ScheduleSpec => []DaysAreKept
<1>1. DaysInv => DaysAreKept
  BY DaysInvKept
<1> QED
  BY <1>1, DaysInit, DaysStep, PTL DEF ScheduleSpec
=============================================================================
