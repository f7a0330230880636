---------------------------- MODULE RouterProofs ----------------------------
(***************************************************************************)
(* For any plan, any messages and any handlers: the in-process router is   *)
(* the mailbox of module Mailbox, and no lane sleeps while it has work and *)
(* room.                                                                   *)
(*                                                                         *)
(* The invariant relates a lane to its history.  What was sent is what has *)
(* begun followed by what is queued, so a pump begins messages in the      *)
(* order of acceptance; and as many deliveries are in flight as have begun *)
(* and not ended, so the pump's bound is the mailbox's.                    *)
(*                                                                         *)
(* That a message is sent to a lane once makes the counters exact: what a  *)
(* lane has in flight is a set of messages, and what the router waits for  *)
(* is the sum over the lanes (CountInv).  A cause is sent before what it   *)
(* caused, to all who get both, which lanes then keep apart (CauseInv).    *)
(***************************************************************************)
EXTENDS InProcessRouter, InductionFacts, SequenceTheorems

Typed == /\ bound \subseteq Subscriptions
         /\ destinations \in [Topics -> SUBSET Subscriptions]
         /\ lanes \in [Subscriptions -> LaneState]
         /\ sent \in [Subscriptions -> Seq(Messages)]
         /\ began \in [Subscriptions -> Seq(Messages)]
         /\ settled \in [Subscriptions -> SUBSET Messages]

(* A topic's lanes are those of the bound subscriptions that select it.    *)
Wired == /\ \A t \in Topics : destinations[t] = {s \in bound : t \in Selects[s]}
         /\ sealed => bound = Subscriptions

LaneKept(s) == /\ sent[s] = began[s] \o lanes[s].queue
               /\ settled[s] \subseteq Listing(began[s])
               /\ Len(began[s]) = Cardinality(settled[s]) + lanes[s].inFlight
               /\ lanes[s].inFlight <= MaxInFlight[s]
               /\ Due(lanes[s], MaxInFlight[s]) => lanes[s].scheduled

RInv == Typed /\ Wired /\ \A s \in Subscriptions : LaneKept(s)

-----------------------------------------------------------------------------
(* The lane.                                                               *)

(* A lane put together from its parts is a lane, scheduled if it is due.   *)
LEMMA ScheduleLane ==
    ASSUME NEW q \in Seq(Messages), NEW n \in Nat, NEW b \in BOOLEAN, NEW max \in Nat,
           NEW new,
           new = Schedule([queue |-> q, inFlight |-> n, scheduled |-> b], max)
    PROVE  /\ new \in LaneState /\ new.queue = q /\ new.inFlight = n
           /\ Due(new, max) => new.scheduled
<1>. DEFINE d == b \/ (q # <<>> /\ n < max)
<1>1. d \in BOOLEAN
  OBVIOUS
<1>2. new = [queue |-> q, inFlight |-> n, scheduled |-> d]
  BY DEF Schedule, Due
<1>3. (q # <<>> /\ n < max) => d
  OBVIOUS
<1>. HIDE DEF d
<1>4. new.queue = q /\ new.inFlight = n /\ new.scheduled = d
  BY <1>2
<1>5. new \in LaneState
  BY <1>1, <1>2 DEF LaneState
<1>. QED
  BY <1>3, <1>4, <1>5 DEF Due

LEMMA EnqueueLane ==
    ASSUME NEW lane \in LaneState, NEW max \in Nat, NEW m \in Messages
    PROVE  /\ Enqueue(lane, max, m) \in LaneState
           /\ Enqueue(lane, max, m).queue = Append(lane.queue, m)
           /\ Enqueue(lane, max, m).inFlight = lane.inFlight
           /\ Due(Enqueue(lane, max, m), max) => Enqueue(lane, max, m).scheduled
<1>. DEFINE q == Append(lane.queue, m)  new == Enqueue(lane, max, m)
<1>1. /\ q \in Seq(Messages) /\ lane.inFlight \in Nat /\ lane.scheduled \in BOOLEAN
  BY DEF LaneState
<1>2. Enqueue(lane, max, m) = Schedule([lane EXCEPT !.queue = q], max)
  BY DEF Enqueue
<1>. HIDE DEF q
<1>3. [lane EXCEPT !.queue = q] =
          [queue |-> q, inFlight |-> lane.inFlight, scheduled |-> lane.scheduled]
  BY DEF LaneState
<1>4. new = Schedule([queue |-> q, inFlight |-> lane.inFlight,
                      scheduled |-> lane.scheduled], max)
  BY <1>2, <1>3
<1>. HIDE DEF new
<1>5. /\ new \in LaneState /\ new.queue = q /\ new.inFlight = lane.inFlight
      /\ Due(new, max) => new.scheduled
  BY <1>1, <1>4, ScheduleLane
<1>. QED
  BY <1>5 DEF q, new

LEMMA DeliveredLane ==
    ASSUME NEW lane \in LaneState, NEW max \in Nat, lane.inFlight > 0
    PROVE  /\ Delivered(lane, max) \in LaneState
           /\ Delivered(lane, max).queue = lane.queue
           /\ Delivered(lane, max).inFlight = lane.inFlight - 1
           /\ Due(Delivered(lane, max), max) => Delivered(lane, max).scheduled
<1>. DEFINE new == Delivered(lane, max)
<1>1. /\ lane.queue \in Seq(Messages) /\ lane.inFlight - 1 \in Nat
      /\ lane.scheduled \in BOOLEAN
  BY DEF LaneState
<1>2. [lane EXCEPT !.inFlight = @ - 1] =
          [queue |-> lane.queue, inFlight |-> lane.inFlight - 1,
           scheduled |-> lane.scheduled]
  BY DEF LaneState
<1>3. new = Schedule([queue |-> lane.queue, inFlight |-> lane.inFlight - 1,
                      scheduled |-> lane.scheduled], max)
  BY <1>2 DEF Delivered
<1>. HIDE DEF new
<1>4. /\ new \in LaneState /\ new.queue = lane.queue
      /\ new.inFlight = lane.inFlight - 1 /\ (Due(new, max) => new.scheduled)
  BY <1>1, <1>3, ScheduleLane
<1>. QED
  BY <1>4 DEF new

LEMMA PumpLane ==
    ASSUME NEW lane \in LaneState, NEW max \in Nat, lane.inFlight <= max
    PROVE  /\ Room(lane, max) \in 0 .. Len(lane.queue)
           /\ Pumped(lane, max) \in Seq(Messages)
           /\ Len(Pumped(lane, max)) = Room(lane, max)
           /\ Pump(lane, max) \in LaneState
           /\ lane.queue = Pumped(lane, max) \o Pump(lane, max).queue
           /\ Pump(lane, max).inFlight = lane.inFlight + Room(lane, max)
           /\ Pump(lane, max).inFlight <= max
           /\ ~Due(Pump(lane, max), max)
<1>. DEFINE q == lane.queue  n == lane.inFlight  r == Room(lane, max)
            taken == Pumped(lane, max)  new == Pump(lane, max)
            rest == SubSeq(q, r + 1, Len(q))
<1>1. q \in Seq(Messages) /\ n \in Nat /\ Len(q) \in Nat
  BY DEF LaneState
<1>2. r \in 0 .. Len(q) /\ r <= max - n /\ (r = Len(q) \/ r = max - n)
  BY <1>1 DEF Room
<1>3. taken = SubSeq(q, 1, r)
      /\ new = [queue |-> rest, inFlight |-> n + r, scheduled |-> FALSE]
  BY DEF Pump, Pumped
<1>. HIDE DEF q, n, r, taken, new
<1>4. /\ taken \in Seq(Messages) /\ Len(taken) = r
      /\ \A i \in 1 .. r : taken[i] = q[i]
  BY <1>1, <1>2, <1>3
<1>5. /\ rest \in Seq(Messages) /\ Len(rest) = Len(q) - r
      /\ \A i \in 1 .. Len(q) - r : rest[i] = q[r + i]
  BY <1>1, <1>2
<1>6. q = taken \o rest
  <2>1. SubSeq(q, 1, Len(q)) = q
    BY <1>1, SubSeqFull
  <2>2. SubSeq(q, 1, r) \o SubSeq(q, r + 1, Len(q)) = SubSeq(q, 1, Len(q))
    <3>1. /\ 1 \in 1 .. Len(q) + 1 /\ r \in 1 - 1 .. Len(q)
          /\ Len(q) \in r .. Len(q)
      BY <1>1, <1>2
    <3>. QED
      BY <1>1, <3>1, ConcatAdjacentSubSeq
  <2>. QED
    BY <1>3, <2>1, <2>2
<1>. HIDE DEF rest
<1>7. new.queue = rest /\ new.inFlight = n + r
  BY <1>3
<1>8. new \in LaneState /\ new.inFlight <= max
  BY <1>1, <1>2, <1>3, <1>5 DEF LaneState
<1>9. ~Due(new, max)
  <2>1. CASE r = Len(q)
    <3>1. rest = <<>>
      BY <1>5, <1>1, <2>1, EmptySeq
    <3>. QED
      BY <1>7, <3>1 DEF Due
  <2>2. CASE r = max - n
    BY <1>1, <1>7, <2>2 DEF Due
  <2>. QED
    BY <1>2, <2>1, <2>2
<1>. QED
  BY <1>2, <1>4, <1>6, <1>7, <1>8, <1>9 DEF q, n, r, taken, new

-----------------------------------------------------------------------------
(* Sequences and what they list.                                           *)

LEMMA ListingType ==
    ASSUME NEW q \in Seq(Messages)
    PROVE  /\ Listing(q) \subseteq Messages /\ IsFiniteSet(Listing(q))
           /\ Cardinality(Listing(q)) <= Len(q)
<1>. DEFINE f == [i \in 1 .. Len(q) |-> q[i]]
<1>1. Listing(q) = {f[i] : i \in 1 .. Len(q)} /\ Listing(q) \subseteq Messages
  BY DEF Listing
<1>2. IsFiniteSet(Listing(q))
  BY <1>1, SetsAssumption, FS_Subset
<1>3. f \in Surjection(1 .. Len(q), Listing(q))
  BY <1>1 DEF Surjection
<1>4. IsFiniteSet(1 .. Len(q)) /\ Cardinality(1 .. Len(q)) = Len(q)
  <2>1. Len(q) \in Nat
    OBVIOUS
  <2>. QED
    BY <2>1, FS_Interval
<1>5. Cardinality(Listing(q)) <= Cardinality(1 .. Len(q))
  BY <1>3, <1>4, FS_Surjection
<1>. QED
  BY <1>1, <1>2, <1>4, <1>5

LEMMA ListingConcat ==
    ASSUME NEW p \in Seq(Messages), NEW q \in Seq(Messages)
    PROVE  Listing(p) \subseteq Listing(p \o q)
<1>. SUFFICES ASSUME NEW i \in 1 .. Len(p) PROVE p[i] \in Listing(p \o q)
  BY DEF Listing
<1>1. (p \o q)[i] = p[i] /\ i \in DOMAIN (p \o q)
  OBVIOUS
<1>. QED
  BY <1>1 DEF Listing

LEMMA AppendConcat ==
    ASSUME NEW p \in Seq(Messages), NEW q \in Seq(Messages), NEW m \in Messages
    PROVE  Append(p \o q, m) = p \o Append(q, m)
<1>1. /\ Append(p \o q, m) = (p \o q) \o <<m>> /\ Append(q, m) = q \o <<m>>
      /\ <<m>> \in Seq(Messages) /\ p \o q \in Seq(Messages)
  BY AppendIsConcat
<1>. QED
  BY <1>1, ConcatAssociative

(* A delivery that runs is counted as in flight.                           *)
LEMMA RunningCounted ==
    ASSUME RInv, NEW s \in Subscriptions, NEW m \in Running(s)
    PROVE  /\ m \in Messages /\ lanes[s].inFlight > 0
           /\ Cardinality(settled[s] \cup {m}) = Cardinality(settled[s]) + 1
<1>1. /\ began[s] \in Seq(Messages) /\ settled[s] \subseteq Listing(began[s])
      /\ m \in Listing(began[s]) /\ m \notin settled[s]
      /\ lanes[s].inFlight \in Nat
      /\ Len(began[s]) = Cardinality(settled[s]) + lanes[s].inFlight
  BY DEF RInv, Typed, LaneKept, LaneState, Running
<1>2. /\ IsFiniteSet(Listing(began[s])) /\ Listing(began[s]) \subseteq Messages
      /\ Cardinality(Listing(began[s])) <= Len(began[s])
  BY <1>1, ListingType
<1>3. IsFiniteSet(settled[s]) /\ settled[s] \cup {m} \subseteq Listing(began[s])
  BY <1>1, <1>2, FS_Subset
<1>4. Cardinality(settled[s] \cup {m}) = Cardinality(settled[s]) + 1
  BY <1>1, <1>3, FS_AddElement
<1>5. Cardinality(settled[s] \cup {m}) <= Cardinality(Listing(began[s]))
  BY <1>2, <1>3, FS_Subset
<1>6. /\ Cardinality(settled[s]) \in Nat /\ Cardinality(Listing(began[s])) \in Nat
      /\ Len(began[s]) \in Nat
  BY <1>1, <1>2, <1>3, FS_CardinalityType
<1>. QED
  BY <1>1, <1>2, <1>4, <1>5, <1>6

-----------------------------------------------------------------------------
(* One lane's history through a publication, a pump and an ending.         *)

LEMMA EnqueueKeeps ==
    ASSUME RInv, NEW s \in Subscriptions, NEW m \in Messages,
           lanes'[s] = Enqueue(lanes[s], MaxInFlight[s], m),
           sent'[s] = Append(sent[s], m),
           began'[s] = began[s], settled'[s] = settled[s]
    PROVE  lanes'[s] \in LaneState /\ sent'[s] \in Seq(Messages) /\ LaneKept(s)'
<1>1. /\ lanes[s] \in LaneState /\ lanes[s].queue \in Seq(Messages)
      /\ MaxInFlight[s] \in Nat
      /\ sent[s] \in Seq(Messages) /\ began[s] \in Seq(Messages) /\ LaneKept(s)
  BY PlanAssumption DEF RInv, Typed, LaneState
<1>2. /\ lanes'[s] \in LaneState
      /\ lanes'[s].queue = Append(lanes[s].queue, m)
      /\ lanes'[s].inFlight = lanes[s].inFlight
      /\ Due(lanes'[s], MaxInFlight[s]) => lanes'[s].scheduled
  <2>. DEFINE old == lanes[s]  max == MaxInFlight[s]
  <2>1. old \in LaneState /\ max \in Nat /\ lanes'[s] = Enqueue(old, max, m)
    BY <1>1
  <2>. HIDE DEF old, max
  <2>2. /\ Enqueue(old, max, m) \in LaneState
        /\ Enqueue(old, max, m).queue = Append(old.queue, m)
        /\ Enqueue(old, max, m).inFlight = old.inFlight
        /\ Due(Enqueue(old, max, m), max) => Enqueue(old, max, m).scheduled
    BY <2>1, EnqueueLane
  <2>. QED
    BY <2>1, <2>2 DEF old, max
<1>3. Append(began[s] \o lanes[s].queue, m) = began[s] \o Append(lanes[s].queue, m)
  BY <1>1, AppendConcat
<1>4. sent'[s] = began'[s] \o lanes'[s].queue
  BY <1>1, <1>2, <1>3 DEF LaneKept
<1>5. LaneKept(s)'
  BY <1>1, <1>2, <1>4 DEF LaneKept
<1>. QED
  BY <1>1, <1>2, <1>5

LEMMA PumpKeeps ==
    ASSUME RInv, NEW s \in Subscriptions,
           lanes'[s] = Pump(lanes[s], MaxInFlight[s]),
           began'[s] = began[s] \o Pumped(lanes[s], MaxInFlight[s]),
           sent'[s] = sent[s], settled'[s] = settled[s]
    PROVE  lanes'[s] \in LaneState /\ began'[s] \in Seq(Messages) /\ LaneKept(s)'
<1>. DEFINE taken == Pumped(lanes[s], MaxInFlight[s])
            r == Room(lanes[s], MaxInFlight[s])
<1>1. /\ lanes[s] \in LaneState /\ lanes[s].inFlight \in Nat
      /\ lanes[s].inFlight <= MaxInFlight[s] /\ MaxInFlight[s] \in Nat
      /\ began[s] \in Seq(Messages) /\ LaneKept(s)
  BY PlanAssumption DEF RInv, Typed, LaneState, LaneKept
<1>2. /\ r \in 0 .. Len(lanes[s].queue)
      /\ taken \in Seq(Messages) /\ Len(taken) = r
      /\ lanes'[s] \in LaneState
      /\ lanes[s].queue = taken \o lanes'[s].queue
      /\ lanes'[s].inFlight = lanes[s].inFlight + r
      /\ lanes'[s].inFlight <= MaxInFlight[s]
      /\ ~Due(lanes'[s], MaxInFlight[s])
  BY <1>1, PumpLane
<1>. HIDE DEF taken, r
<1>3. lanes'[s].queue \in Seq(Messages)
  BY <1>2 DEF LaneState
<1>4. began'[s] = began[s] \o taken
  BY DEF taken
<1>5. sent'[s] = began'[s] \o lanes'[s].queue
  <2>1. \A p, q, t \in Seq(Messages) : (p \o q) \o t = p \o (q \o t)
    BY ConcatAssociative
  <2>2. sent[s] = began[s] \o lanes[s].queue
    BY <1>1 DEF LaneKept
  <2>3. began[s] \o (taken \o lanes'[s].queue) = (began[s] \o taken) \o lanes'[s].queue
    BY <1>1, <1>2, <1>3, <2>1
  <2>. QED
    BY <1>2, <1>4, <2>2, <2>3
<1>6. /\ began'[s] \in Seq(Messages) /\ Len(began'[s]) = Len(began[s]) + r
      /\ Listing(began[s]) \subseteq Listing(began'[s])
  <2>1. /\ began[s] \o taken \in Seq(Messages)
        /\ Len(began[s] \o taken) = Len(began[s]) + Len(taken)
    BY <1>1, <1>2, ConcatProperties
  <2>2. Listing(began[s]) \subseteq Listing(began[s] \o taken)
    BY <1>1, <1>2, ListingConcat
  <2>. QED
    BY <1>2, <1>4, <2>1, <2>2
<1>7. Len(began'[s]) = Cardinality(settled'[s]) + lanes'[s].inFlight
  <2>1. Len(began[s]) = Cardinality(settled[s]) + lanes[s].inFlight
    BY <1>1 DEF LaneKept
  <2>2. Cardinality(settled[s]) \in Nat
    <3>1. settled[s] \subseteq Messages
      BY DEF RInv, Typed
    <3>. QED
      BY <3>1, SetsAssumption, FS_Subset, FS_CardinalityType
  <2>. QED
    BY <1>1, <1>2, <1>6, <2>1, <2>2
<1>8. LaneKept(s)'
  BY <1>1, <1>2, <1>5, <1>6, <1>7 DEF LaneKept
<1>. QED
  BY <1>2, <1>6, <1>8

LEMMA SettleKeeps ==
    ASSUME RInv, NEW s \in Subscriptions, NEW m \in Running(s),
           lanes'[s] = Delivered(lanes[s], MaxInFlight[s]),
           settled'[s] = settled[s] \cup {m},
           began'[s] = began[s], sent'[s] = sent[s]
    PROVE  /\ lanes'[s] \in LaneState /\ settled'[s] \in SUBSET Messages
           /\ LaneKept(s)'
<1>1. /\ lanes[s] \in LaneState /\ lanes[s].inFlight \in Nat
      /\ MaxInFlight[s] \in Nat /\ settled[s] \subseteq Messages /\ LaneKept(s)
  BY PlanAssumption DEF RInv, Typed, LaneState
<1>2. /\ m \in Messages /\ lanes[s].inFlight > 0
      /\ Cardinality(settled[s] \cup {m}) = Cardinality(settled[s]) + 1
  BY RunningCounted
<1>3. /\ lanes'[s] \in LaneState
      /\ lanes'[s].queue = lanes[s].queue
      /\ lanes'[s].inFlight = lanes[s].inFlight - 1
      /\ Due(lanes'[s], MaxInFlight[s]) => lanes'[s].scheduled
  BY <1>1, <1>2, DeliveredLane
<1>4. Cardinality(settled[s]) \in Nat
  BY <1>1, SetsAssumption, FS_Subset, FS_CardinalityType
<1>5. settled'[s] \subseteq Listing(began'[s])
  BY <1>1 DEF LaneKept, Running
<1>6. Len(began'[s]) = Cardinality(settled'[s]) + lanes'[s].inFlight
  BY <1>1, <1>2, <1>3, <1>4 DEF LaneKept
<1>7. LaneKept(s)'
  BY <1>1, <1>3, <1>5, <1>6 DEF LaneKept
<1>. QED
  BY <1>1, <1>2, <1>3, <1>7

-----------------------------------------------------------------------------
(* Every step keeps the invariant.                                         *)

LEMMA RInitially == Init => RInv
<1>. SUFFICES ASSUME Init PROVE RInv
  OBVIOUS
<1>1. NewLane \in LaneState /\ NewLane.queue = <<>> /\ NewLane.inFlight = 0
  BY DEF NewLane, LaneState
<1>2. Typed
  BY <1>1 DEF Init, Typed
<1>3. Wired
  BY DEF Init, Wired
<1>4. ASSUME NEW s \in Subscriptions PROVE LaneKept(s)
  <2>1. /\ lanes[s] = NewLane /\ sent[s] = <<>> /\ began[s] = <<>> /\ settled[s] = {}
    BY DEF Init
  <2>2. <<>> \o <<>> = <<>> /\ Len(<<>>) = 0 /\ Cardinality({}) = 0
    BY FS_EmptySet
  <2>3. MaxInFlight[s] \in Nat /\ ~Due(NewLane, MaxInFlight[s])
    BY <1>1, PlanAssumption DEF Due
  <2>. QED
    BY <1>1, <2>1, <2>2, <2>3 DEF LaneKept
<1>. QED
  BY <1>2, <1>3, <1>4 DEF RInv

LEMMA Untouched ==
    ASSUME RInv, NEW s \in Subscriptions,
           lanes'[s] = lanes[s], sent'[s] = sent[s], began'[s] = began[s],
           settled'[s] = settled[s]
    PROVE  /\ lanes'[s] \in LaneState /\ sent'[s] \in Seq(Messages)
           /\ began'[s] \in Seq(Messages) /\ settled'[s] \in SUBSET Messages
           /\ LaneKept(s)'
  BY DEF RInv, Typed, LaneKept

LEMMA BindKeeps == ASSUME RInv, NEW s \in Subscriptions, Bind(s) PROVE RInv'
<1>1. UNCHANGED <<lanes, sent, began, settled>>
  BY DEF Bind, box
<1>2. Typed'
  <2>1. destinations' \in [Topics -> SUBSET Subscriptions]
    BY DEF Bind, LanesWith, RInv, Typed
  <2>. QED
    BY <1>1, <2>1 DEF Bind, RInv, Typed
<1>3. Wired'
  BY DEF Bind, LanesWith, RInv, Wired
<1>4. \A r \in Subscriptions : LaneKept(r)'
  BY <1>1 DEF RInv, LaneKept
<1>. QED
  BY <1>2, <1>3, <1>4 DEF RInv

LEMMA StillKeeps ==
    ASSUME RInv, UNCHANGED <<bound, destinations, lanes, sent, began, settled>>,
           UNCHANGED sealed \/ bound = Subscriptions
    PROVE  RInv'
  BY DEF RInv, Typed, Wired, LaneKept

LEMMA PublishKeeps ==
    ASSUME RInv, NEW m \in Messages, NEW by, Publish(m, by) PROVE RInv'
<1>. DEFINE to == destinations[TopicOf[m]]
<1>1. /\ UNCHANGED <<sealed, bound, destinations, began, settled>>
      /\ lanes' = [s \in Subscriptions |->
                       IF s \in to THEN Enqueue(lanes[s], MaxInFlight[s], m)
                                   ELSE lanes[s]]
      /\ sent' = [s \in Subscriptions |->
                      IF s \in to THEN Append(sent[s], m) ELSE sent[s]]
  BY DEF Publish, setup
<1>. HIDE DEF to
<1>2. ASSUME NEW s \in Subscriptions
      PROVE  lanes'[s] \in LaneState /\ sent'[s] \in Seq(Messages) /\ LaneKept(s)'
  <2>1. CASE s \in to
    <3>1. /\ lanes'[s] = Enqueue(lanes[s], MaxInFlight[s], m)
          /\ sent'[s] = Append(sent[s], m)
          /\ began'[s] = began[s] /\ settled'[s] = settled[s]
      BY <1>1, <2>1
    <3>. QED
      BY <3>1, EnqueueKeeps
  <2>2. CASE s \notin to
    <3>1. /\ lanes'[s] = lanes[s] /\ sent'[s] = sent[s]
          /\ began'[s] = began[s] /\ settled'[s] = settled[s]
      BY <1>1, <2>2
    <3>. QED
      BY <3>1, Untouched
  <2>. QED
    BY <2>1, <2>2
<1>3. Typed'
  BY <1>1, <1>2 DEF RInv, Typed
<1>4. Wired'
  BY <1>1 DEF RInv, Wired
<1>. QED
  BY <1>2, <1>3, <1>4 DEF RInv

LEMMA PumpRunsKeeps == ASSUME RInv, NEW s \in Subscriptions, PumpRuns(s) PROVE RInv'
<1>1. /\ UNCHANGED <<sealed, bound, destinations, sent, settled>>
      /\ lanes' = [lanes EXCEPT ![s] = Pump(lanes[s], MaxInFlight[s])]
      /\ began' = [began EXCEPT ![s] = began[s] \o Pumped(lanes[s], MaxInFlight[s])]
      /\ lanes \in [Subscriptions -> LaneState]
      /\ began \in [Subscriptions -> Seq(Messages)]
  BY DEF PumpRuns, setup, RInv, Typed
<1>2. /\ lanes'[s] = Pump(lanes[s], MaxInFlight[s])
      /\ began'[s] = began[s] \o Pumped(lanes[s], MaxInFlight[s])
      /\ sent'[s] = sent[s] /\ settled'[s] = settled[s]
      /\ \A r \in Subscriptions \ {s} :
            lanes'[r] = lanes[r] /\ sent'[r] = sent[r]
            /\ began'[r] = began[r] /\ settled'[r] = settled[r]
      /\ DOMAIN lanes' = Subscriptions /\ DOMAIN began' = Subscriptions
      /\ lanes' = [r \in Subscriptions |-> lanes'[r]]
      /\ began' = [r \in Subscriptions |-> began'[r]]
  BY <1>1
<1>3. ASSUME NEW r \in Subscriptions
      PROVE  lanes'[r] \in LaneState /\ began'[r] \in Seq(Messages) /\ LaneKept(r)'
  <2>1. CASE r = s
    BY <1>2, <2>1, PumpKeeps
  <2>2. CASE r # s
    BY <1>2, <2>2, Untouched
  <2>. QED
    BY <2>1, <2>2
<1>4. Typed'
  BY <1>1, <1>2, <1>3 DEF RInv, Typed
<1>5. Wired'
  BY <1>1 DEF RInv, Wired
<1>. QED
  BY <1>3, <1>4, <1>5 DEF RInv

LEMMA SettlesKeeps ==
    ASSUME RInv, NEW s \in Subscriptions, NEW m, NEW ok, Settles(s, m, ok) PROVE RInv'
<1>1. /\ UNCHANGED <<sealed, bound, destinations, sent, began>>
      /\ m \in Running(s)
      /\ lanes' = [lanes EXCEPT ![s] = Delivered(lanes[s], MaxInFlight[s])]
      /\ settled' = [settled EXCEPT ![s] = settled[s] \cup {m}]
      /\ lanes \in [Subscriptions -> LaneState]
      /\ settled \in [Subscriptions -> SUBSET Messages]
  BY DEF Settles, setup, RInv, Typed
<1>2. /\ lanes'[s] = Delivered(lanes[s], MaxInFlight[s])
      /\ settled'[s] = settled[s] \cup {m}
      /\ sent'[s] = sent[s] /\ began'[s] = began[s]
      /\ \A r \in Subscriptions \ {s} :
            lanes'[r] = lanes[r] /\ sent'[r] = sent[r]
            /\ began'[r] = began[r] /\ settled'[r] = settled[r]
      /\ lanes' = [r \in Subscriptions |-> lanes'[r]]
      /\ settled' = [r \in Subscriptions |-> settled'[r]]
  BY <1>1
<1>3. ASSUME NEW r \in Subscriptions
      PROVE  /\ lanes'[r] \in LaneState /\ settled'[r] \in SUBSET Messages
             /\ LaneKept(r)'
  <2>1. CASE r = s
    BY <1>1, <1>2, <2>1, SettleKeeps
  <2>2. CASE r # s
    BY <1>2, <2>2, Untouched
  <2>. QED
    BY <2>1, <2>2
<1>4. Typed'
  BY <1>1, <1>2, <1>3 DEF RInv, Typed
<1>5. Wired'
  BY <1>1 DEF RInv, Wired
<1>. QED
  BY <1>3, <1>4, <1>5 DEF RInv

LEMMA RKept == RInv /\ [Next]_vars => RInv'
<1>. SUFFICES ASSUME RInv, [Next]_vars PROVE RInv'
  OBVIOUS
<1>1. CASE Seal
  BY <1>1, StillKeeps DEF Seal, box
<1>2. CASE \E m \in Messages : \E by \in Messages \cup {Nobody} : Publish(m, by)
  BY <1>2, PublishKeeps
<1>3. CASE \E w \in Waiters : WhenIdle(w)
  BY <1>3, StillKeeps DEF WhenIdle, setup, box
<1>4. CASE \E s \in Subscriptions : Bind(s)
  BY <1>4, BindKeeps
<1>5. CASE \E s \in Subscriptions : PumpRuns(s)
  BY <1>5, PumpRunsKeeps
<1>6. CASE \E s \in Subscriptions : \E m \in Messages : \E ok \in BOOLEAN :
               Settles(s, m, ok)
  BY <1>6, SettlesKeeps
<1>7. CASE UNCHANGED vars
  BY <1>7, StillKeeps DEF vars, setup, box
<1>. QED
  BY <1>1, <1>2, <1>3, <1>4, <1>5, <1>6, <1>7 DEF Next

LEMMA RAlways == Spec => []RInv
  BY RInitially, RKept, PTL DEF Spec

(* NoLostWakeup: whatever is published, pumped or settled, in any order, a *)
(* lane with work and room has a dispatch on its way, so a queued message  *)
(* never waits for another one to be published (delivery-lane.ts).         *)
THEOREM NoSleepingLane == Spec => []NoLostWakeup
<1>1. RInv => NoLostWakeup
  BY DEF RInv, LaneKept, NoLostWakeup
<1>. QED
  BY <1>1, RAlways, PTL

-----------------------------------------------------------------------------
(* The router is the mailbox.                                              *)

LEMMA PrefixOfConcat ==
    ASSUME NEW p \in Seq(Messages), NEW q \in Seq(Messages)
    PROVE  SubSeq(p \o q, 1, Len(p)) = p
<1>1. /\ p \o q \in Seq(Messages) /\ Len(p) \in Nat /\ Len(q) \in Nat
      /\ Len(p \o q) = Len(p) + Len(q)
      /\ \A i \in 1 .. Len(p) + Len(q) : (p \o q)[i] = IF i <= Len(p) THEN p[i]
                                                     ELSE q[i - Len(p)]
  BY ConcatProperties
<1>. DEFINE w == p \o q
<1>. HIDE DEF w
<1>2. /\ SubSeq(w, 1, Len(p)) \in Seq(Messages)
      /\ Len(SubSeq(w, 1, Len(p))) = Len(p)
      /\ \A i \in 1 .. Len(p) : SubSeq(w, 1, Len(p))[i] = w[i]
  BY <1>1 DEF w
<1>3. \A i \in 1 .. Len(p) : w[i] = p[i]
  BY <1>1 DEF w
<1>4. SubSeq(w, 1, Len(p)) = p
  BY <1>2, <1>3, SeqEqual
<1>. QED
  BY <1>4 DEF w

LEMMA SameCardinality == \A S : Box!Cardinality(S) = Cardinality(S)
  BY DEF Box!Cardinality, Cardinality, Box!IsFiniteSet, IsFiniteSet

(* A publication is accepted for all its recipients at once: the lanes of  *)
(* a topic are those of the subscriptions that select it.                  *)
LEMMA PublishAccepts ==
    ASSUME RInv, NEW m \in Messages, NEW by, Publish(m, by) PROVE Box!Accept(m)
<1>. DEFINE wanted == {s \in Subscriptions : TopicOf[m] \in Selects[s]}
<1>1. destinations[TopicOf[m]] = wanted
  BY PlanAssumption DEF RInv, Wired, Publish
<1>2. \A s \in Subscriptions : m \notin Box!Listing(sent[s])
  BY DEF Publish, Published, Listing, Box!Listing
<1>3. [w \in Messages |-> {s \in Subscriptions : TopicOf[w] \in Selects[s]}][m] = wanted
  OBVIOUS
<1>4. /\ sent' = [s \in Subscriptions |->
                      IF s \in wanted THEN Append(sent[s], m) ELSE sent[s]]
      /\ UNCHANGED <<began, settled>>
  BY <1>1 DEF Publish
<1>. QED
  BY <1>2, <1>3, <1>4 DEF Box!Accept

(* A pump begins the next messages in the order of acceptance, or none.    *)
LEMMA PumpBegins ==
    ASSUME RInv, RInv', NEW s \in Subscriptions, PumpRuns(s)
    PROVE  Box!Begin(s) \/ UNCHANGED box
<1>. DEFINE taken == Pumped(lanes[s], MaxInFlight[s])  old == lanes[s]
            n == Len(began'[s])
<1>1. /\ began' = [began EXCEPT ![s] = began[s] \o taken]
      /\ UNCHANGED <<sent, settled>>
      /\ began \in [Subscriptions -> Seq(Messages)] /\ began[s] \in Seq(Messages)
  BY DEF PumpRuns, RInv, Typed
<1>2. began'[s] = began[s] \o taken
  BY <1>1
<1>3. taken \in Seq(Messages)
  <2>1. old \in LaneState /\ old.inFlight <= MaxInFlight[s] /\ MaxInFlight[s] \in Nat
    BY PlanAssumption DEF RInv, Typed, LaneKept
  <2>. QED
    BY <2>1, PumpLane
<1>. HIDE DEF taken
<1>4. CASE taken = <<>>
  <2>1. began'[s] = began[s]
    BY <1>1, <1>2, <1>4, ConcatEmptySeq
  <2>2. began' = began
    BY <1>1, <1>2, <2>1
  <2>. QED
    BY <1>1, <2>2 DEF box
<1>5. CASE taken # <<>>
  <2>1. /\ began'[s] \in Seq(Messages) /\ lanes'[s].queue \in Seq(Messages)
        /\ lanes'[s].inFlight \in Nat /\ settled'[s] \subseteq Messages
        /\ sent'[s] = began'[s] \o lanes'[s].queue
        /\ Len(began'[s]) = Cardinality(settled'[s]) + lanes'[s].inFlight
        /\ lanes'[s].inFlight <= MaxInFlight[s]
        /\ MaxInFlight[s] \in Nat
    BY PlanAssumption DEF RInv, Typed, LaneKept, LaneState
  <2>2. sent'[s] = sent[s] /\ settled'[s] = settled[s]
    BY <1>1
  <2>3. n \in Nat /\ Cardinality(settled[s]) \in Nat
        /\ n - Cardinality(settled[s]) <= MaxInFlight[s]
    <3>1. IsFiniteSet(settled[s])
      BY <2>1, <2>2, SetsAssumption, FS_Subset
    <3>. QED
      BY <2>1, <2>2, <3>1, FS_CardinalityType
  <2>4. SubSeq(sent[s], 1, n) = began'[s] /\ n <= Len(sent[s]) /\ Len(sent[s]) \in Nat
    <3>1. SubSeq(began'[s] \o lanes'[s].queue, 1, Len(began'[s])) = began'[s]
      BY <2>1, PrefixOfConcat
    <3>2. Len(began'[s] \o lanes'[s].queue) = Len(began'[s]) + Len(lanes'[s].queue)
      BY <2>1, ConcatProperties
    <3>. QED
      BY <2>1, <2>2, <3>1, <3>2
  <2>5. Len(began[s]) \in Nat /\ n >= Len(began[s]) + 1
    <3>1. Len(taken) \in Nat /\ Len(taken) >= 1
      BY <1>3, <1>5, EmptySeq
    <3>2. n = Len(began[s]) + Len(taken)
      BY <1>1, <1>2, <1>3, ConcatProperties
    <3>. QED
      BY <1>1, <3>1, <3>2
  <2>6. began' = [began EXCEPT ![s] = SubSeq(sent[s], 1, n)]
    BY <1>1, <1>2, <2>4
  <2>. HIDE DEF n
  <2>7. n \in Len(began[s]) + 1 .. Len(sent[s])
    BY <2>3, <2>4, <2>5
  <2>8. /\ n - Cardinality(settled[s]) <= MaxInFlight[s]
        /\ began' = [began EXCEPT ![s] = SubSeq(sent[s], 1, n)]
        /\ sent' = sent /\ settled' = settled
    BY <1>1, <2>3, <2>6
  <2>9. Box!Begin(s)
    BY ONLY <2>7, <2>8, SameCardinality DEF Box!Begin
  <2>. QED
    BY <2>9
<1>. QED
  BY <1>4, <1>5

LEMMA SettlesSettle ==
    ASSUME NEW s \in Subscriptions, NEW m, NEW ok, Settles(s, m, ok)
    PROVE  Box!Settle(s, m)
  BY DEF Settles, Running, Listing, Box!Settle, Box!Listing

LEMMA NextIsMailbox == RInv /\ RInv' /\ [Next]_vars => [Box!Next]_(Box!box)
<1>. SUFFICES ASSUME RInv, RInv', [Next]_vars PROVE Box!Next \/ UNCHANGED box
  BY DEF box, Box!box
<1>1. CASE Seal
  BY <1>1 DEF Seal
<1>2. CASE \E m \in Messages : \E by \in Messages \cup {Nobody} : Publish(m, by)
  BY <1>2, PublishAccepts DEF Box!Next
<1>3. CASE \E w \in Waiters : WhenIdle(w)
  BY <1>3 DEF WhenIdle
<1>4. CASE \E s \in Subscriptions : Bind(s)
  BY <1>4 DEF Bind
<1>5. CASE \E s \in Subscriptions : PumpRuns(s)
  BY <1>5, PumpBegins DEF Box!Next
<1>6. CASE \E s \in Subscriptions : \E m \in Messages : \E ok \in BOOLEAN :
               Settles(s, m, ok)
  BY <1>6, SettlesSettle DEF Box!Next
<1>7. CASE UNCHANGED vars
  BY <1>7 DEF vars
<1>. QED
  BY <1>1, <1>2, <1>3, <1>4, <1>5, <1>6, <1>7 DEF Next

(* ImplementsMailbox: for any plan, any set of messages and any handlers,  *)
(* the in-process router accepts a message for all its recipients at once, *)
(* begins each lane's messages in that order, each once, within its bound, *)
(* and ends what it began once (in-process-message-router.ts,              *)
(* delivery-lane.ts).                                                      *)
THEOREM RouterIsMailbox == Spec => ImplementsMailbox
<1>1. Init => Box!Init
  BY DEF Init, Box!Init
<1>. QED
  BY <1>1, NextIsMailbox, RAlways, PTL DEF Spec, ImplementsMailbox, Box!Spec

-----------------------------------------------------------------------------
(* The counters of the router.                                             *)

(* A message is sent to a lane once, so a lane counts what runs.           *)
SentOnce(s) == \A i, j \in DOMAIN sent[s] : sent[s][i] = sent[s][j] => i = j

Parts == [s \in Subscriptions |-> Len(lanes[s].queue) + lanes[s].inFlight]
Total == SumOver(Parts, Subscriptions)

CountInv == /\ \A s \in Subscriptions : SentOnce(s)
            /\ outstanding = Total
            /\ idleWaiters # {} => outstanding # 0

LEMMA FoldIsTotal ==
    ASSUME RInv
    PROVE  FoldFunction(LAMBDA lane, n : Len(lane.queue) + lane.inFlight + n, 0, lanes)
              = Total
<1>1. DOMAIN lanes = Subscriptions
  BY DEF RInv, Typed
<1>2. \A it : SumBy(Parts, Subscriptions, it) =
          [d \in SUBSET Subscriptions |->
              IF d = {} THEN 0
              ELSE Len(lanes[Pick1(d)].queue) + lanes[Pick1(d)].inFlight + it[d \ {Pick1(d)}]]
  <2>. TAKE it
  <2>1. \A d \in SUBSET Subscriptions : d # {} => Pick1(d) \in Subscriptions
    BY DEF Pick1
  <2>2. \A d \in SUBSET Subscriptions : d # {} =>
           Parts[Pick1(d)] = Len(lanes[Pick1(d)].queue) + lanes[Pick1(d)].inFlight
    BY <2>1 DEF Parts
  <2>. QED
    BY <2>2 DEF SumBy
<1>. DEFINE F(it) == [d \in SUBSET Subscriptions |->
              IF d = {} THEN 0
              ELSE Len(lanes[Pick1(d)].queue) + lanes[Pick1(d)].inFlight + it[d \ {Pick1(d)}]]
            it1 == CHOOSE it : it = F(it)
<1>3. FoldFunction(LAMBDA lane, n : Len(lane.queue) + lane.inFlight + n, 0, lanes)
         = it1[Subscriptions]
  BY <1>1 DEF FoldFunction, FoldFunctionOnSet, MapThenFoldSet, Pick1
<1>4. it1 = F(it1)
  <2>1. \E it : it = SumBy(Parts, Subscriptions, it)
    BY SetsAssumption, SumExists
  <2>2. \E it : it = F(it)
    BY <1>2, <2>1
  <2>. QED
    BY <2>2
<1>. HIDE DEF it1
<1>5. it1 = SumBy(Parts, Subscriptions, it1)
  BY <1>2, <1>4
<1>. QED
  BY <1>3, <1>5, SetsAssumption, SumUnique DEF Total

LEMMA PartsCount ==
    ASSUME RInv
    PROVE  /\ \A s \in Subscriptions : Parts[s] \in Nat
           /\ Total \in Nat
           /\ Total = 0 <=> \A s \in Subscriptions : Parts[s] = 0
<1>1. \A s \in Subscriptions : Parts[s] \in Nat
  <2>. SUFFICES ASSUME NEW s \in Subscriptions PROVE Parts[s] \in Nat
    OBVIOUS
  <2>1. lanes[s].queue \in Seq(Messages) /\ lanes[s].inFlight \in Nat
    BY DEF RInv, Typed, LaneState
  <2>2. Len(lanes[s].queue) \in Nat
    BY <2>1
  <2>. QED
    BY <2>1, <2>2 DEF Parts
<1>. QED
  BY <1>1, SetsAssumption, SumNat DEF Total

CountedParts == Total \in Nat /\ \A s \in Subscriptions : Parts[s] \in Nat
LEMMA CountsAreNat == RInv => CountedParts
  BY PartsCount DEF CountedParts

(* What the router's and the lanes' counters become together.              *)
LEMMA CountGrows ==
    ASSUME RInv, NEW T \in SUBSET Subscriptions,
           \A s \in Subscriptions : Parts'[s] = Parts[s] + (IF s \in T THEN 1 ELSE 0)
    PROVE  Total' = Total + Cardinality(T)
<1>. DEFINE f == Parts  g == Parts'
<1>1. \A s \in Subscriptions : f[s] \in Nat
  BY PartsCount
<1>2. \A s \in Subscriptions : g[s] = f[s] + (IF s \in T THEN 1 ELSE 0)
  OBVIOUS
<1>. HIDE DEF f, g
<1>3. SumOver(g, Subscriptions) = SumOver(f, Subscriptions) + Cardinality(Subscriptions \cap T)
  BY <1>1, <1>2, SetsAssumption, SumShift
<1>4. Subscriptions \cap T = T
  OBVIOUS
<1>. QED
  BY <1>3, <1>4 DEF f, g, Total

LEMMA CountShrinks ==
    ASSUME RInv', NEW r \in Subscriptions,
           \A s \in Subscriptions : Parts[s] = Parts'[s] + (IF s \in {r} THEN 1 ELSE 0)
    PROVE  Total = Total' + 1
<1>. DEFINE g == Parts  f == Parts'  T == {r}
<1>1. \A s \in Subscriptions : f[s] \in Nat
  <2>1. CountedParts'
    BY CountsAreNat, PTL
  <2>. QED
    BY <2>1 DEF CountedParts
<1>2. \A s \in Subscriptions : g[s] = f[s] + (IF s \in T THEN 1 ELSE 0)
  OBVIOUS
<1>4. Subscriptions \cap T = T /\ Cardinality(T) = 1
  BY FS_Singleton
<1>. HIDE DEF f, g, T
<1>3. SumOver(g, Subscriptions) = SumOver(f, Subscriptions) + Cardinality(Subscriptions \cap T)
  BY <1>1, <1>2, SetsAssumption, SumShift
<1>. QED
  BY <1>3, <1>4 DEF f, g, Total

LEMMA CountFrame ==
    ASSUME CountInv, UNCHANGED <<lanes, sent, outstanding>>,
           idleWaiters' = idleWaiters \/ outstanding # 0
    PROVE  CountInv'
<1>1. Total' = Total
  BY DEF Total, Parts
<1>2. \A s \in Subscriptions : SentOnce(s)'
  BY DEF CountInv, SentOnce
<1>. QED
  BY <1>1, <1>2 DEF CountInv

LEMMA PublishCounts ==
    ASSUME RInv, CountInv, NEW m \in Messages, NEW by, Publish(m, by) PROVE CountInv'
<1>. DEFINE to == destinations[TopicOf[m]]
<1>1. /\ outstanding' = outstanding + Cardinality(to) /\ idleWaiters' = idleWaiters
      /\ \A s \in Subscriptions :
            /\ lanes'[s] = IF s \in to THEN Enqueue(lanes[s], MaxInFlight[s], m)
                                       ELSE lanes[s]
            /\ sent'[s] = IF s \in to THEN Append(sent[s], m) ELSE sent[s]
      /\ \A s \in Subscriptions : m \notin Listing(sent[s])
  BY DEF Publish, Counted, Published
<1>2. to \in SUBSET Subscriptions
  BY PlanAssumption DEF RInv, Typed
<1>. HIDE DEF to
<1>3. ASSUME NEW s \in Subscriptions
      PROVE  Parts'[s] = Parts[s] + (IF s \in to THEN 1 ELSE 0)
  <2>1. lanes[s] \in LaneState /\ lanes[s].queue \in Seq(Messages)
        /\ lanes[s].inFlight \in Nat /\ MaxInFlight[s] \in Nat
    BY PlanAssumption DEF RInv, Typed, LaneState
  <2>2. Parts[s] = Len(lanes[s].queue) + lanes[s].inFlight
        /\ Parts'[s] = Len(lanes'[s].queue) + lanes'[s].inFlight
    BY DEF Parts
  <2>3. CASE s \in to
    <3>. DEFINE old == lanes[s]  max == MaxInFlight[s]
    <3>1. lanes'[s] = Enqueue(old, max, m) /\ old \in LaneState /\ max \in Nat
      BY <1>1, <2>1, <2>3
    <3>. HIDE DEF old, max
    <3>2. lanes'[s].queue = Append(old.queue, m) /\ lanes'[s].inFlight = old.inFlight
      BY <3>1, EnqueueLane
    <3>3. old.queue \in Seq(Messages) /\ Len(old.queue) \in Nat /\ old.inFlight \in Nat
      BY <2>1 DEF old
    <3>4. Len(Append(old.queue, m)) = Len(old.queue) + 1
      BY <3>3
    <3>5. Parts'[s] = Len(old.queue) + 1 + old.inFlight
      BY <2>2, <3>2, <3>4
    <3>6. Parts[s] = Len(old.queue) + old.inFlight
      BY <2>2 DEF old
    <3>. QED
      BY <2>3, <3>3, <3>5, <3>6
  <2>4. CASE s \notin to
    <3>1. Parts'[s] = Parts[s]
      BY <1>1, <2>2, <2>4
    <3>. QED
      BY <2>4, <3>1, PartsCount
  <2>. QED
    BY <2>3, <2>4
<1>4. Total' = Total + Cardinality(to)
  BY <1>2, <1>3, CountGrows
<1>5. outstanding' = Total' /\ (idleWaiters' # {} => outstanding' # 0)
  <2>1. Cardinality(to) \in Nat
    BY <1>2, SetsAssumption, FS_Subset, FS_CardinalityType
  <2>2. outstanding = Total /\ Total \in Nat
    BY PartsCount DEF CountInv
  <2>. QED
    BY <1>1, <1>4, <2>1, <2>2 DEF CountInv
<1>6. ASSUME NEW s \in Subscriptions PROVE SentOnce(s)'
  <2>1. SentOnce(s) /\ sent[s] \in Seq(Messages)
    BY DEF CountInv, RInv, Typed
  <2>2. CASE s \in to
    <3>1. sent'[s] = Append(sent[s], m) /\ \A i \in DOMAIN sent[s] : sent[s][i] # m
      BY <1>1, <2>2 DEF Listing
    <3>. QED
      BY <2>1, <3>1 DEF SentOnce
  <2>3. CASE s \notin to
    BY <1>1, <2>1, <2>3 DEF SentOnce
  <2>. QED
    BY <2>2, <2>3
<1>. QED
  BY <1>5, <1>6 DEF CountInv

LEMMA PumpCounts ==
    ASSUME RInv, CountInv, NEW r \in Subscriptions, PumpRuns(r) PROVE CountInv'
<1>1. /\ UNCHANGED <<sent, outstanding, idleWaiters>>
      /\ lanes'[r] = Pump(lanes[r], MaxInFlight[r])
      /\ \A s \in Subscriptions \ {r} : lanes'[s] = lanes[s]
  BY DEF PumpRuns, RInv, Typed
<1>2. ASSUME NEW s \in Subscriptions PROVE Parts'[s] = Parts[s]
  <2>1. Parts[s] = Len(lanes[s].queue) + lanes[s].inFlight
        /\ Parts'[s] = Len(lanes'[s].queue) + lanes'[s].inFlight
    BY DEF Parts
  <2>2. CASE s = r
    <3>. DEFINE old == lanes[s]  max == MaxInFlight[s]  new == Pump(old, max)
                taken == Pumped(old, max)
    <3>1. /\ old \in LaneState /\ max \in Nat /\ old.inFlight <= max
          /\ old.queue \in Seq(Messages) /\ old.inFlight \in Nat /\ lanes'[s] = new
      BY <1>1, <2>2, PlanAssumption DEF RInv, Typed, LaneKept, LaneState
    <3>. HIDE DEF old, max
    <3>2. /\ Room(old, max) \in 0 .. Len(old.queue)
          /\ taken \in Seq(Messages) /\ Len(taken) = Room(old, max)
          /\ new \in LaneState /\ old.queue = taken \o new.queue
          /\ new.inFlight = old.inFlight + Room(old, max)
      BY <3>1, PumpLane
    <3>. HIDE DEF taken, new
    <3>3. new.queue \in Seq(Messages)
      BY <3>2 DEF LaneState
    <3>4. Len(taken \o new.queue) = Len(taken) + Len(new.queue)
      BY <3>2, <3>3, ConcatProperties
    <3>5. Len(old.queue) \in Nat /\ Len(new.queue) \in Nat
      BY <3>1, <3>3
    <3>6. Len(old.queue) = Room(old, max) + Len(new.queue)
      BY <3>2, <3>4
    <3>7. Len(old.queue) + old.inFlight = Len(new.queue) + new.inFlight
      BY <3>1, <3>2, <3>5, <3>6
    <3>. QED
      BY <2>1, <3>1, <3>7 DEF old
  <2>3. CASE s # r
    BY <1>1, <2>1, <2>3
  <2>. QED
    BY <2>2, <2>3
<1>3. Parts' = Parts
  BY <1>2 DEF Parts
<1>4. Total' = Total
  BY <1>3 DEF Total
<1>5. \A s \in Subscriptions : SentOnce(s)'
  BY <1>1 DEF CountInv, SentOnce
<1>. QED
  BY <1>1, <1>4, <1>5 DEF CountInv

LEMMA SettlesCounts ==
    ASSUME RInv, RInv', CountInv, NEW r \in Subscriptions, NEW m, NEW ok,
           Settles(r, m, ok)
    PROVE  CountInv' /\ (idleWaiters' = idleWaiters \/ outstanding' = 0)
<1>1. /\ sent' = sent /\ m \in Running(r)
      /\ outstanding' = outstanding - 1
      /\ idleWaiters' = IF outstanding' > 0 THEN idleWaiters ELSE {}
      /\ lanes'[r] = Delivered(lanes[r], MaxInFlight[r])
      /\ \A s \in Subscriptions \ {r} : lanes'[s] = lanes[s]
  BY DEF Settles, OnSettled, RInv, Typed
<1>2. ASSUME NEW s \in Subscriptions
      PROVE  Parts[s] = Parts'[s] + (IF s \in {r} THEN 1 ELSE 0)
  <2>1. Parts[s] = Len(lanes[s].queue) + lanes[s].inFlight
        /\ Parts'[s] = Len(lanes'[s].queue) + lanes'[s].inFlight
    BY DEF Parts
  <2>2. CASE s = r
    <3>. DEFINE old == lanes[s]  max == MaxInFlight[s]
    <3>1. /\ old \in LaneState /\ max \in Nat /\ old.inFlight > 0
          /\ old.queue \in Seq(Messages) /\ old.inFlight \in Nat
          /\ lanes'[s] = Delivered(old, max)
      BY <1>1, <2>2, PlanAssumption, RunningCounted DEF RInv, Typed, LaneState
    <3>. HIDE DEF old, max
    <3>2. lanes'[s].queue = old.queue /\ lanes'[s].inFlight = old.inFlight - 1
      BY <3>1, DeliveredLane
    <3>3. Len(old.queue) \in Nat
      BY <3>1
    <3>4. Parts[s] = Len(old.queue) + old.inFlight
      BY <2>1 DEF old
    <3>. QED
      BY <2>1, <2>2, <3>1, <3>2, <3>3, <3>4
  <2>3. CASE s # r
    <3>1. Parts'[s] = Parts[s]
      BY <1>1, <2>1, <2>3
    <3>. QED
      BY <2>3, <3>1, PartsCount
  <2>. QED
    BY <2>2, <2>3
<1>3. Total = Total' + 1
  BY <1>2, CountShrinks
<1>4. Total' \in Nat
  <2>1. CountedParts'
    BY CountsAreNat, PTL
  <2>. QED
    BY <2>1 DEF CountedParts
<1>5. outstanding' = Total'
  <2>1. outstanding = Total /\ Total = Total' + 1
    BY <1>3 DEF CountInv
  <2>2. outstanding' = outstanding - 1
    BY <1>1
  <2>3. \A k, n \in Int : k = n + 1 => k - 1 = n
    OBVIOUS
  <2>4. Total' \in Int /\ Total \in Int
    BY <1>4, <2>1
  <2>5. Total - 1 = Total'
    BY <2>1, <2>3, <2>4
  <2>. QED
    BY <2>1, <2>2, <2>5
<1>6. \A s \in Subscriptions : SentOnce(s)'
  BY <1>1 DEF CountInv, SentOnce
<1>7. /\ idleWaiters' # {} => outstanding' # 0
      /\ idleWaiters' = idleWaiters \/ outstanding' = 0
  <2>1. outstanding' \in Nat
    BY <1>4, <1>5
  <2>2. idleWaiters' = IF outstanding' > 0 THEN idleWaiters ELSE {}
    BY <1>1
  <2>3. CASE outstanding' = 0
    BY <2>2, <2>3
  <2>4. CASE outstanding' > 0
    BY <2>1, <2>2, <2>4
  <2>. QED
    BY <2>1, <2>3, <2>4
<1>. QED
  BY <1>5, <1>6, <1>7 DEF CountInv

LEMMA CountsStep == RInv /\ RInv' /\ CountInv /\ [Next]_vars =>
                    CountInv' /\ (idleWaiters \subseteq idleWaiters' \/ outstanding' = 0)
<1>. SUFFICES ASSUME RInv, RInv', CountInv, [Next]_vars
              PROVE  CountInv' /\ (idleWaiters \subseteq idleWaiters' \/ outstanding' = 0)
  OBVIOUS
<1>1. CASE Seal
  BY <1>1, CountFrame DEF Seal, box
<1>2. CASE \E m \in Messages : \E by \in Messages \cup {Nobody} : Publish(m, by)
  BY <1>2, PublishCounts DEF Publish
<1>3. CASE \E w \in Waiters : WhenIdle(w)
  BY <1>3, CountFrame DEF WhenIdle, setup, box
<1>4. CASE \E s \in Subscriptions : Bind(s)
  BY <1>4, CountFrame DEF Bind, box
<1>5. CASE \E s \in Subscriptions : PumpRuns(s)
  BY <1>5, PumpCounts DEF PumpRuns
<1>6. CASE \E s \in Subscriptions : \E m \in Messages : \E ok \in BOOLEAN :
               Settles(s, m, ok)
  BY <1>6, SettlesCounts
<1>7. CASE UNCHANGED vars
  BY <1>7, CountFrame DEF vars, setup, box
<1>. QED
  BY <1>1, <1>2, <1>3, <1>4, <1>5, <1>6, <1>7 DEF Next

LEMMA CountsInitially == Init => CountInv
<1>. SUFFICES ASSUME Init PROVE CountInv
  OBVIOUS
<1>1. RInv
  BY RInitially
<1>2. \A s \in Subscriptions : Parts[s] = 0
  <2>. SUFFICES ASSUME NEW s \in Subscriptions PROVE Parts[s] = 0
    OBVIOUS
  <2>1. lanes[s].queue = <<>> /\ lanes[s].inFlight = 0
    BY DEF Init, NewLane
  <2>2. Len(<<>>) = 0
    OBVIOUS
  <2>. QED
    BY <2>1, <2>2 DEF Parts
<1>3. Total = 0
  BY <1>1, <1>2, PartsCount
<1>4. \A s \in Subscriptions : SentOnce(s)
  BY DEF Init, SentOnce
<1>. QED
  BY <1>3, <1>4 DEF Init, CountInv

LEMMA CountsAlways == Spec => [](RInv /\ CountInv)
  BY RAlways, CountsInitially, CountsStep, PTL DEF Spec

LEMMA Positions ==
    ASSUME NEW q \in Seq(Messages)
    PROVE  DOMAIN q = 1 .. Len(q) /\ Len(q) \in Nat
  OBVIOUS

LEMMA Appended ==
    ASSUME NEW q \in Seq(Messages), NEW m \in Messages
    PROVE  /\ DOMAIN Append(q, m) = 1 .. Len(q) + 1
           /\ Append(q, m)[Len(q) + 1] = m
           /\ \A i \in 1 .. Len(q) : Append(q, m)[i] = q[i]
  OBVIOUS

LEMMA ListingOnce ==
    ASSUME NEW q \in Seq(Messages), \A i, j \in DOMAIN q : q[i] = q[j] => i = j
    PROVE  Cardinality(Listing(q)) = Len(q)
<1>. DEFINE f == [i \in 1 .. Len(q) |-> q[i]]
<1>1. Listing(q) = {f[i] : i \in 1 .. Len(q)}
  BY DEF Listing
<1>0. DOMAIN q = 1 .. Len(q)
  BY Positions
<1>2a. f \in [1 .. Len(q) -> Listing(q)]
  BY <1>1
<1>2b. \A x \in Listing(q) : \E i \in 1 .. Len(q) : f[i] = x
  BY <1>1
<1>2c. \A i, j \in 1 .. Len(q) : f[i] = f[j] => i = j
  BY <1>0
<1>. HIDE DEF f
<1>2. f \in Surjection(1 .. Len(q), Listing(q)) /\ f \in Injection(1 .. Len(q), Listing(q))
  <2>1. f \in Surjection(1 .. Len(q), Listing(q))
    BY <1>2a, <1>2b DEF Surjection
  <2>2. f \in Injection(1 .. Len(q), Listing(q))
    BY <1>2a, <1>2c DEF Injection, IsInjective
  <2>. QED
    BY <2>1, <2>2
<1>3. IsFiniteSet(1 .. Len(q)) /\ Cardinality(1 .. Len(q)) = Len(q)
  <2>1. Len(q) \in Nat
    OBVIOUS
  <2>. QED
    BY <2>1, FS_Interval
<1>4. Cardinality(Listing(q)) = Cardinality(1 .. Len(q))
  BY <1>2, <1>3, FS_Surjection
<1>. QED
  BY <1>3, <1>4

(* A lane of the invariants, in numbers.                                   *)
LEMMA LaneNumbers ==
    ASSUME RInv, CountInv, NEW s \in Subscriptions
    PROVE  /\ began[s] \in Seq(Messages) /\ sent[s] \in Seq(Messages)
           /\ lanes[s].queue \in Seq(Messages)
           /\ Len(lanes[s].queue) \in Nat /\ Len(began[s]) \in Nat
           /\ lanes[s].inFlight \in Nat
           /\ Len(sent[s]) = Len(began[s]) + Len(lanes[s].queue)
           /\ \A i \in 1 .. Len(began[s]) : began[s][i] = sent[s][i]
           /\ IsFiniteSet(Listing(began[s]))
           /\ Cardinality(Listing(began[s])) = Len(began[s])
           /\ Cardinality(Listing(sent[s])) = Len(sent[s])
           /\ settled[s] \in SUBSET Listing(began[s])
           /\ Cardinality(settled[s]) \in Nat
           /\ Len(began[s]) = Cardinality(settled[s]) + lanes[s].inFlight
           /\ sent[s] = began[s] \o lanes[s].queue
           /\ Parts[s] = Len(lanes[s].queue) + lanes[s].inFlight
<1>1. /\ began[s] \in Seq(Messages) /\ sent[s] \in Seq(Messages)
      /\ lanes[s].queue \in Seq(Messages) /\ lanes[s].inFlight \in Nat
      /\ settled[s] \in SUBSET Listing(began[s])
      /\ Len(began[s]) = Cardinality(settled[s]) + lanes[s].inFlight
      /\ sent[s] = began[s] \o lanes[s].queue /\ SentOnce(s)
  BY DEF RInv, Typed, LaneState, LaneKept, CountInv
<1>. DEFINE b == began[s]  q == lanes[s].queue
<1>. HIDE DEF b, q
<1>2. /\ Len(b \o q) = Len(b) + Len(q)
      /\ \A i \in 1 .. Len(b) + Len(q) : (b \o q)[i] = IF i <= Len(b) THEN b[i]
                                                     ELSE q[i - Len(b)]
  BY <1>1, ConcatProperties DEF b, q
<1>3. Len(b) \in Nat /\ Len(q) \in Nat
  BY <1>1 DEF b, q
<1>4. \A i \in 1 .. Len(b) : b[i] = (b \o q)[i]
  BY <1>2, <1>3
<1>5. /\ Len(sent[s]) = Len(b) + Len(q)
      /\ \A i \in 1 .. Len(b) : b[i] = sent[s][i]
  BY <1>1, <1>2, <1>4 DEF b, q
<1>6. \A i, j \in DOMAIN b : b[i] = b[j] => i = j
  <2>. SUFFICES ASSUME NEW i \in 1 .. Len(b), NEW j \in 1 .. Len(b), b[i] = b[j]
                PROVE  i = j
    BY <1>1 DEF b
  <2>1. sent[s][i] = sent[s][j]
    BY <1>5
  <2>2. i \in DOMAIN sent[s] /\ j \in DOMAIN sent[s]
    <3>1. DOMAIN sent[s] = 1 .. Len(sent[s])
      BY <1>1, Positions
    <3>. QED
      BY <1>3, <1>5, <3>1
  <2>. QED
    BY <1>1, <2>1, <2>2 DEF SentOnce
<1>7. /\ Cardinality(Listing(b)) = Len(b)
      /\ Cardinality(Listing(sent[s])) = Len(sent[s])
      /\ IsFiniteSet(Listing(b))
  <2>1. Cardinality(Listing(b)) = Len(b)
    BY <1>1, <1>6, ListingOnce DEF b
  <2>2. Cardinality(Listing(sent[s])) = Len(sent[s])
    BY <1>1, ListingOnce DEF SentOnce
  <2>3. IsFiniteSet(Listing(b))
    BY <1>1, ListingType DEF b
  <2>. QED
    BY <2>1, <2>2, <2>3
<1>8. Cardinality(settled[s]) \in Nat
  BY <1>1, <1>7, FS_Subset, FS_CardinalityType DEF b
<1>. QED
  BY <1>1, <1>3, <1>5, <1>7, <1>8 DEF b, q, Parts

LEMMA InFlightRuns ==
    ASSUME RInv, CountInv, NEW s \in Subscriptions
    PROVE  lanes[s].inFlight = Cardinality(Running(s))
<1>. DEFINE L == Listing(began[s])
<1>1. /\ IsFiniteSet(L) /\ settled[s] \in SUBSET L
      /\ Cardinality(L) = Cardinality(settled[s]) + lanes[s].inFlight
      /\ Cardinality(settled[s]) \in Nat /\ lanes[s].inFlight \in Nat
  BY LaneNumbers
<1>2. Cardinality(L \ settled[s]) = Cardinality(L) - Cardinality(L \cap settled[s])
  BY <1>1, FS_Difference
<1>3. L \cap settled[s] = settled[s]
  BY <1>1
<1>4. Running(s) = L \ settled[s]
  BY DEF Running
<1>. HIDE DEF L
<1>5. Cardinality(L \ settled[s]) = Cardinality(L) - Cardinality(settled[s])
  BY <1>2, <1>3
<1>6. \A k, n, x \in Nat : k = n + x => k - n = x
  OBVIOUS
<1>7. Cardinality(L) - Cardinality(settled[s]) = lanes[s].inFlight
  <2>1. Cardinality(L) \in Nat
    BY <1>1, FS_CardinalityType
  <2>. QED
    BY <1>1, <1>6, <2>1
<1>. QED
  BY <1>4, <1>5, <1>7

(* CountersExact: whatever is published, pumped and settled, and however a *)
(* handler ends, a lane queues what was sent and not begun, in order, it   *)
(* counts what runs, and the router counts both (delivery-lane.ts,         *)
(* in-process-message-router.ts).                                          *)
THEOREM CountersAreExact == Spec => []CountersExact
<1>1. RInv /\ CountInv => CountersExact
  <2>. SUFFICES ASSUME RInv, CountInv PROVE CountersExact
    OBVIOUS
  <2>1. \A s \in Subscriptions :
           /\ sent[s] = began[s] \o lanes[s].queue
           /\ lanes[s].inFlight = Cardinality(Running(s))
           /\ lanes[s].inFlight <= MaxInFlight[s]
    BY InFlightRuns DEF RInv, LaneKept
  <2>2. outstanding = FoldFunction(LAMBDA lane, n : Len(lane.queue) + lane.inFlight + n,
                                   0, lanes)
    BY FoldIsTotal DEF CountInv
  <2>. QED
    BY <2>1, <2>2 DEF CountersExact
<1>. QED
  BY <1>1, CountsAlways, PTL

(* Nothing outstanding is everything settled.                              *)
LEMMA QuietIsZero == RInv /\ CountInv => (Quiet <=> outstanding = 0)
<1>. SUFFICES ASSUME RInv, CountInv PROVE Quiet <=> outstanding = 0
  OBVIOUS
<1>1. ASSUME NEW s \in Subscriptions
      PROVE  Listing(sent[s]) = settled[s] <=> Parts[s] = 0
  <2>1. CASE Listing(sent[s]) = settled[s]
    <3>1. Cardinality(settled[s]) = Len(sent[s])
      BY <2>1, LaneNumbers
    <3>2. /\ Len(lanes[s].queue) \in Nat /\ Len(began[s]) \in Nat
          /\ lanes[s].inFlight \in Nat /\ Cardinality(settled[s]) \in Nat
          /\ Len(sent[s]) = Len(began[s]) + Len(lanes[s].queue)
          /\ Len(began[s]) = Cardinality(settled[s]) + lanes[s].inFlight
          /\ Parts[s] = Len(lanes[s].queue) + lanes[s].inFlight
      BY LaneNumbers
    <3>. QED
      BY <2>1, <3>1, <3>2
  <2>2. CASE Parts[s] = 0
    <3>1. /\ Len(lanes[s].queue) \in Nat /\ Len(began[s]) \in Nat
          /\ lanes[s].inFlight \in Nat /\ Cardinality(settled[s]) \in Nat
          /\ Len(began[s]) = Cardinality(settled[s]) + lanes[s].inFlight
          /\ Parts[s] = Len(lanes[s].queue) + lanes[s].inFlight
      BY LaneNumbers
    <3>2. Len(lanes[s].queue) = 0 /\ Len(began[s]) = Cardinality(settled[s])
      BY <2>2, <3>1
    <3>3. /\ IsFiniteSet(Listing(began[s])) /\ settled[s] \in SUBSET Listing(began[s])
          /\ Cardinality(Listing(began[s])) = Len(began[s])
          /\ sent[s] = began[s] \o lanes[s].queue
          /\ lanes[s].queue \in Seq(Messages) /\ began[s] \in Seq(Messages)
      BY LaneNumbers
    <3>4. Listing(began[s]) = settled[s]
      BY <3>2, <3>3, FS_Subset
    <3>5. lanes[s].queue = <<>>
      BY <3>2, <3>3, EmptySeq
    <3>6. sent[s] = began[s]
      BY <3>3, <3>5, ConcatEmptySeq
    <3>. QED
      BY <2>2, <3>4, <3>6
  <2>. QED
    BY <2>1, <2>2
<1>2. Total = 0 <=> \A s \in Subscriptions : Parts[s] = 0
  BY PartsCount
<1>3. outstanding = Total
  BY DEF CountInv
<1>. QED
  BY <1>1, <1>2, <1>3 DEF Quiet

(* IdleIsIdle: a caller of whenIdle waits only while a delivery is queued  *)
(* or running, and is answered at a moment when none is, a message that a  *)
(* handler published meanwhile included (in-process-message-router.ts).    *)
THEOREM IdleMeansIdle == Spec => IdleIsIdle
<1>1. RInv /\ CountInv => (idleWaiters # {} => ~Quiet)
  BY QuietIsZero DEF CountInv
<1>2. RInv /\ CountInv /\ RInv' /\ CountInv' /\ [Next]_vars
         => [idleWaiters \subseteq idleWaiters' \/ Quiet']_vars
  <2>1. (Quiet <=> outstanding = 0)' \/ ~(RInv /\ CountInv)'
    BY QuietIsZero, PTL
  <2>. QED
    BY <2>1, CountsStep
<1>. QED
  BY <1>1, <1>2, CountsAlways, PTL DEF Spec, IdleIsIdle

-----------------------------------------------------------------------------
(* Causes.                                                                 *)

(* A cause was sent before what it caused, to whoever got both; and a lane *)
(* that handles one message at a time is done with all but the last it     *)
(* began.                                                                  *)
CauseSent == \A m \in Messages : cause[m] # Nobody => Published(cause[m])
CauseEarlier(s) ==
    \A i, j \in DOMAIN sent[s] : cause[sent[s][i]] = sent[s][j] => j < i
LastRuns(s) ==
    MaxInFlight[s] = 1 => \A i \in 1 .. Len(began[s]) - 1 : began[s][i] \in settled[s]
CauseInv == /\ cause \in [Messages -> Messages \cup {Nobody}]
            /\ CauseSent
            /\ \A s \in Subscriptions : CauseEarlier(s) /\ LastRuns(s)

LEMMA CauseFrame ==
    ASSUME CauseInv, UNCHANGED <<sent, cause>>,
           \A s \in Subscriptions : LastRuns(s)'
    PROVE  CauseInv'
<1>1. CauseSent'
  <2>1. \A x : Published(x)' <=> Published(x)
    BY DEF Published
  <2>. QED
    BY <2>1 DEF CauseInv, CauseSent
<1>. QED
  BY <1>1 DEF CauseInv, CauseEarlier

LEMMA PublishCauses ==
    ASSUME RInv, CauseInv, NEW m \in Messages, NEW by \in Messages \cup {Nobody},
           Publish(m, by)
    PROVE  CauseInv'
<1>. DEFINE to == destinations[TopicOf[m]]
<1>1. /\ began' = began /\ settled' = settled
      /\ cause' = [cause EXCEPT ![m] = by]
      /\ \A s \in Subscriptions :
            /\ sent'[s] = IF s \in to THEN Append(sent[s], m) ELSE sent[s]
            /\ sent[s] \in Seq(Messages)
      /\ \A s \in Subscriptions : m \notin Listing(sent[s])
      /\ by = Nobody \/ \E s \in Subscriptions : by \in Running(s)
  BY DEF Publish, Counted, Published, RInv, Typed
<1>. HIDE DEF to
<1>2. ASSUME by # Nobody PROVE Published(by)
  <2>1. PICK s \in Subscriptions : by \in Listing(began[s])
    BY <1>1, <1>2 DEF Running
  <2>2. Listing(began[s]) \subseteq Listing(sent[s])
    <3>1. /\ sent[s] = began[s] \o lanes[s].queue
          /\ began[s] \in Seq(Messages) /\ lanes[s].queue \in Seq(Messages)
      BY DEF RInv, Typed, LaneState, LaneKept
    <3>. QED
      BY <3>1, ListingConcat
  <2>. QED
    BY <2>1, <2>2 DEF Published
<1>3. ~Published(m) /\ by # m
  <2>1. ~Published(m)
    BY <1>1 DEF Published
  <2>. QED
    BY <1>2, <2>1, PlanAssumption
<1>4. ASSUME NEW x, Published(x) PROVE Published(x)'
  <2>1. PICK s \in Subscriptions : x \in Listing(sent[s])
    BY <1>4 DEF Published
  <2>2. PICK i \in DOMAIN sent[s] : x = sent[s][i]
    BY <2>1 DEF Listing
  <2>3. i \in DOMAIN sent'[s] /\ sent'[s][i] = x
    <3>1. sent[s] \in Seq(Messages)
      BY <1>1
    <3>2. DOMAIN sent[s] = 1 .. Len(sent[s]) /\ Len(sent[s]) \in Nat
      BY <3>1, Positions
    <3>3. CASE s \in to
      <4>1. sent'[s] = Append(sent[s], m)
        BY <1>1, <3>3
      <4>. QED
        BY <2>2, <3>1, <3>2, <4>1, Appended
    <3>4. CASE s \notin to
      <4>1. sent'[s] = sent[s]
        BY <1>1, <3>4
      <4>. QED
        BY <2>2, <4>1
    <3>. QED
      BY <3>3, <3>4
  <2>4. x \in Listing(sent'[s])
    BY <2>3 DEF Listing
  <2>. QED
    BY <2>4 DEF Published
<1>5. CauseSent'
  BY <1>1, <1>2, <1>4 DEF CauseInv, CauseSent
<1>6. ASSUME NEW s \in Subscriptions PROVE CauseEarlier(s)'
  <2>1. CauseEarlier(s) /\ sent[s] \in Seq(Messages)
    BY <1>1 DEF CauseInv
  <2>2. \A i \in DOMAIN sent[s] : /\ sent[s][i] \in Messages /\ sent[s][i] # m
                                  /\ cause[sent[s][i]] # m
                                  /\ cause'[sent[s][i]] = cause[sent[s][i]]
    <3>. SUFFICES ASSUME NEW i \in DOMAIN sent[s]
                  PROVE  /\ sent[s][i] \in Messages /\ sent[s][i] # m
                         /\ cause[sent[s][i]] # m
                         /\ cause'[sent[s][i]] = cause[sent[s][i]]
      OBVIOUS
    <3>1. sent[s][i] \in Messages /\ sent[s][i] # m
      BY <1>1, <2>1 DEF Listing
    <3>2. cause[sent[s][i]] # m
      BY <1>3, <3>1, PlanAssumption DEF CauseInv, CauseSent
    <3>3. cause'[sent[s][i]] = cause[sent[s][i]]
      BY <1>1, <3>1 DEF CauseInv
    <3>. QED
      BY <3>1, <3>2, <3>3
  <2>3. CASE s \in to
    <3>. DEFINE n == Len(sent[s])
    <3>1. /\ n \in Nat /\ DOMAIN sent[s] = 1 .. n /\ DOMAIN sent'[s] = 1 .. n + 1
          /\ sent'[s][n + 1] = m /\ \A i \in 1 .. n : sent'[s][i] = sent[s][i]
      <4>1. sent'[s] = Append(sent[s], m)
        BY <1>1, <2>3
      <4>. QED
        BY <2>1, <4>1, Positions, Appended
    <3>2. cause'[m] = by
      BY <1>1 DEF CauseInv
    <3>. HIDE DEF n
    <3>. SUFFICES ASSUME NEW i \in 1 .. n + 1, NEW j \in 1 .. n + 1,
                         cause'[sent'[s][i]] = sent'[s][j]
                  PROVE  j < i
      BY <3>1 DEF CauseEarlier
    <3>3. CASE i = n + 1
      BY <1>3, <3>1, <3>2, <3>3
    <3>4. CASE i \in 1 .. n /\ j = n + 1
      BY <2>2, <3>1, <3>4
    <3>5. CASE i \in 1 .. n /\ j \in 1 .. n
      BY <2>1, <2>2, <3>1, <3>5 DEF CauseEarlier
    <3>. QED
      BY <3>1, <3>3, <3>4, <3>5
  <2>4. CASE s \notin to
    <3>1. sent'[s] = sent[s]
      BY <1>1, <2>4
    <3>. QED
      BY <2>1, <2>2, <3>1 DEF CauseEarlier
  <2>. QED
    BY <2>3, <2>4
<1>7. \A s \in Subscriptions : LastRuns(s)'
  BY <1>1 DEF CauseInv, LastRuns
<1>8. cause' \in [Messages -> Messages \cup {Nobody}]
  BY <1>1 DEF CauseInv
<1>. QED
  BY <1>5, <1>6, <1>7, <1>8 DEF CauseInv

LEMMA PumpCauses ==
    ASSUME RInv, CountInv, CauseInv, NEW r \in Subscriptions, PumpRuns(r)
    PROVE  CauseInv'
<1>1. /\ UNCHANGED <<sent, cause, settled>>
      /\ began'[r] = began[r] \o Pumped(lanes[r], MaxInFlight[r])
      /\ \A s \in Subscriptions \ {r} : began'[s] = began[s]
  BY DEF PumpRuns, RInv, Typed
<1>2. ASSUME NEW s \in Subscriptions PROVE LastRuns(s)'
  <2>1. LastRuns(s)
    BY DEF CauseInv
  <2>2. CASE s = r /\ MaxInFlight[s] = 1
    <3>. DEFINE old == lanes[s]  taken == Pumped(old, 1)  b == began[s]
    <3>1. /\ old \in LaneState /\ old.inFlight \in Nat /\ old.inFlight <= 1
      BY <2>2 DEF RInv, Typed, LaneKept, LaneState
    <3>2. began'[s] = b \o taken
      BY <1>1, <2>2
    <3>3. /\ b \in Seq(Messages) /\ Len(b) \in Nat
          /\ Len(b) = Cardinality(settled[s]) + old.inFlight
          /\ settled[s] \in SUBSET Listing(b) /\ IsFiniteSet(Listing(b))
          /\ Cardinality(Listing(b)) = Len(b) /\ Cardinality(settled[s]) \in Nat
      BY LaneNumbers
    <3>. HIDE DEF old, b
    <3>4. /\ taken \in Seq(Messages) /\ Len(taken) = Room(old, 1)
          /\ Room(old, 1) <= 1 - old.inFlight /\ Room(old, 1) \in Nat
      <4>1. /\ Room(old, 1) \in 0 .. Len(old.queue) /\ Pumped(old, 1) \in Seq(Messages)
            /\ Len(Pumped(old, 1)) = Room(old, 1)
        BY <3>1, PumpLane
      <4>2. Len(old.queue) \in Nat
        BY <3>1 DEF LaneState
      <4>. QED
        BY <3>1, <4>1, <4>2 DEF Room
    <3>. HIDE DEF taken
    <3>5. Len(b \o taken) = Len(b) + Len(taken)
          /\ \A i \in 1 .. Len(b) : (b \o taken)[i] = b[i]
      <4>1. /\ Len(b \o taken) = Len(b) + Len(taken)
            /\ \A i \in 1 .. Len(b) + Len(taken) :
                  (b \o taken)[i] = IF i <= Len(b) THEN b[i] ELSE taken[i - Len(b)]
        BY <3>3, <3>4, ConcatProperties
      <4>. QED
        BY <3>3, <3>4, <4>1
    <3>6. CASE Len(taken) = 0
      <4>1. b \o taken = b
        BY <3>3, <3>4, <3>6, EmptySeq, ConcatEmptySeq
      <4>. QED
        BY <1>1, <2>1, <3>2, <4>1 DEF LastRuns, b
    <3>7. CASE Len(taken) = 1
      <4>0. \A k \in Nat : 1 <= 1 - k => k = 0
        OBVIOUS
      <4>1. old.inFlight = 0
        <5>1. 1 <= 1 - old.inFlight /\ old.inFlight \in Nat
          BY <3>1, <3>4, <3>7
        <5>. QED
          BY <5>1
      <4>2. settled[s] = Listing(b)
        BY <3>3, <4>1, FS_Subset
      <4>3. \A i \in 1 .. Len(b) : b[i] \in settled[s]
        BY <3>3, <4>2 DEF Listing
      <4>4. Len(began'[s]) - 1 = Len(b)
        BY <3>2, <3>3, <3>5, <3>7
      <4>. QED
        BY <1>1, <3>2, <3>5, <4>3, <4>4 DEF LastRuns
    <3>. QED
      BY <3>1, <3>4, <3>6, <3>7
  <2>3. CASE s # r
    BY <1>1, <2>1, <2>3 DEF LastRuns
  <2>4. CASE MaxInFlight[s] # 1
    BY <2>4 DEF LastRuns
  <2>. QED
    BY <2>2, <2>3, <2>4
<1>. QED
  BY <1>1, <1>2, CauseFrame

LEMMA CausesStep == RInv /\ CountInv /\ CauseInv /\ [Next]_vars => CauseInv'
<1>. SUFFICES ASSUME RInv, CountInv, CauseInv, [Next]_vars PROVE CauseInv'
  OBVIOUS
<1>0. ASSUME UNCHANGED <<sent, cause, began>>,
             \A s \in Subscriptions : settled[s] \subseteq settled'[s]
      PROVE  CauseInv'
  <2>1. \A s \in Subscriptions : LastRuns(s)'
    BY <1>0 DEF CauseInv, LastRuns
  <2>. QED
    BY <1>0, <2>1, CauseFrame
<1>1. CASE Seal
  BY <1>0, <1>1 DEF Seal, box
<1>2. CASE \E m \in Messages : \E by \in Messages \cup {Nobody} : Publish(m, by)
  BY <1>2, PublishCauses
<1>3. CASE \E w \in Waiters : WhenIdle(w)
  BY <1>0, <1>3 DEF WhenIdle, box
<1>4. CASE \E s \in Subscriptions : Bind(s)
  BY <1>0, <1>4 DEF Bind, box
<1>5. CASE \E s \in Subscriptions : PumpRuns(s)
  BY <1>5, PumpCauses
<1>6. CASE \E s \in Subscriptions : \E m \in Messages : \E ok \in BOOLEAN :
               Settles(s, m, ok)
  <2>1. UNCHANGED <<sent, cause, began>>
    BY <1>6 DEF Settles
  <2>2. \A s \in Subscriptions : settled[s] \subseteq settled'[s]
    BY <1>6 DEF Settles, RInv, Typed
  <2>. QED
    BY <1>0, <2>1, <2>2
<1>7. CASE UNCHANGED vars
  BY <1>0, <1>7 DEF vars, box
<1>. QED
  BY <1>1, <1>2, <1>3, <1>4, <1>5, <1>6, <1>7 DEF Next

LEMMA CausesInitially == Init => CauseInv
<1>. SUFFICES ASSUME Init PROVE CauseInv
  OBVIOUS
<1>1. /\ cause = [m \in Messages |-> Nobody]
      /\ \A s \in Subscriptions : sent[s] = <<>> /\ began[s] = <<>>
  BY DEF Init
<1>2. CauseSent
  BY <1>1 DEF CauseSent
<1>3. \A s \in Subscriptions : CauseEarlier(s) /\ LastRuns(s)
  BY <1>1 DEF CauseEarlier, LastRuns
<1>. QED
  BY <1>1, <1>2, <1>3 DEF CauseInv

(* CauseFirst: at a subscription that handles one message at a time, a     *)
(* message never begins before the one that caused it has ended, whatever  *)
(* other handlers publish in between (delivery-lane.ts; job.catalog.ts     *)
(* relies on it).                                                          *)
THEOREM CausesComeFirst == Spec => []CauseFirst
<1>1. RInv /\ CountInv /\ CauseInv => CauseFirst
  <2>. SUFFICES ASSUME RInv, CountInv, CauseInv,
                       NEW s \in Subscriptions, NEW m \in Listing(began[s]),
                       MaxInFlight[s] = 1, cause[m] \in Listing(sent[s])
                PROVE  cause[m] \in settled[s]
    BY DEF CauseFirst
  <2>1. PICK i \in DOMAIN began[s] : m = began[s][i]
    BY DEF Listing
  <2>2. PICK j \in DOMAIN sent[s] : cause[m] = sent[s][j]
    BY DEF Listing
  <2>3. /\ began[s] \in Seq(Messages) /\ sent[s] \in Seq(Messages)
        /\ Len(began[s]) \in Nat /\ Len(lanes[s].queue) \in Nat
        /\ Len(sent[s]) = Len(began[s]) + Len(lanes[s].queue)
        /\ \A k \in 1 .. Len(began[s]) : began[s][k] = sent[s][k]
    BY LaneNumbers
  <2>4. i \in 1 .. Len(began[s]) /\ i \in DOMAIN sent[s] /\ j \in 1 .. Len(sent[s])
    <3>1. DOMAIN began[s] = 1 .. Len(began[s]) /\ DOMAIN sent[s] = 1 .. Len(sent[s])
      BY <2>3, Positions
    <3>2. i \in 1 .. Len(began[s]) /\ j \in 1 .. Len(sent[s])
      BY <2>1, <2>2, <3>1
    <3>. DEFINE a == Len(began[s])  b == Len(sent[s])  c == Len(lanes[s].queue)
    <3>3a. a \in Nat /\ c \in Nat /\ b = a + c
      BY <2>3
    <3>. HIDE DEF a, b, c
    <3>3. a \in Nat /\ b \in Nat /\ a <= b
      BY <3>3a
    <3>4. \A k \in 1 .. a : k \in 1 .. b
      BY <3>3
    <3>. QED
      BY <3>1, <3>2, <3>4 DEF a, b
  <2>5. j < i
    <3>1. CauseEarlier(s) /\ m = sent[s][i]
      BY <2>1, <2>3, <2>4 DEF CauseInv
    <3>. QED
      BY <2>2, <2>4, <3>1 DEF CauseEarlier
  <2>6. j \in 1 .. Len(began[s]) - 1 /\ j \in 1 .. Len(began[s])
    BY <2>3, <2>4, <2>5
  <2>7. began[s][j] \in settled[s] /\ began[s][j] = sent[s][j]
    BY <2>3, <2>6 DEF CauseInv, LastRuns
  <2>. QED
    BY <2>2, <2>7
<1>. QED
  BY <1>1, CountsAlways, CausesInitially, CausesStep, PTL DEF Spec

=============================================================================
