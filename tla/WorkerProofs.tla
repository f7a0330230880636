---------------------------- MODULE WorkerProofs ----------------------------
(***************************************************************************)
(* For any number of jobs, keys, slots and permits: no slot of the worker  *)
(* and no permit of a resource key is ever lost or given twice, nobody is  *)
(* set back in line, the terminal of a job says what the lifecycle sink    *)
(* was told, and the first of two signals decides how a job ends.          *)
(*                                                                         *)
(* First, the operations of the semaphore keep it in balance; who its      *)
(* holders and its waiters are is the business of the module that uses it. *)
(* The three parts of IInv need each other: the queue of a semaphore tells *)
(* which jobs a release promotes, so a release of a permit must not touch  *)
(* a job that waits for a slot, and the other way round.  FactsInv follows *)
(* a job through its stages; it rests on IInv, by which a release moves    *)
(* nobody but a job that waits.  That each waiter is listed once (IInv) is *)
(* also why a place is one position, which no step moves back (Moved).     *)
(* SignalInv says who may have signalled and what may have come of it.     *)
(***************************************************************************)
EXTENDS WorkerProps, FiniteSetTheorems, TLAPS

-----------------------------------------------------------------------------
(* The semaphore.                                                          *)

(* A new semaphore is in balance: nobody holds, nobody waits.              *)
LEMMA NewBalanced ==
    ASSUME NEW max \in Nat
    PROVE  /\ NewSemaphore(max) \in SemaphoreState
           /\ Balanced(NewSemaphore(max), max, {}, {})
  BY FS_EmptySet DEF NewSemaphore, SemaphoreState, Balanced, Listed

(* Taking a free slot adds a holder.                                       *)
LEMMA TakeBalanced ==
    ASSUME NEW sem \in SemaphoreState, NEW max \in Nat, NEW H, NEW W,
           NEW j \in Jobs, IsFiniteSet(H), j \notin H,
           Balanced(sem, max, H, W), Free(sem)
    PROVE  /\ Take(sem) \in SemaphoreState
           /\ Balanced(Take(sem), max, H \cup {j}, W)
<1>1. Cardinality(H \cup {j}) = Cardinality(H) + 1
  BY FS_AddElement
<1>2. Cardinality(H) \in Nat
  BY FS_CardinalityType
<1>3. /\ Take(sem).available = sem.available - 1
      /\ Take(sem).queue = sem.queue
      /\ sem.available \in Nat /\ sem.queue \in Seq(Jobs)
  BY DEF Take, SemaphoreState
<1>4. Take(sem) \in SemaphoreState
  BY DEF Take, SemaphoreState, Free
<1>5. sem.queue = <<>>
  BY <1>3 DEF Balanced, Free
<1>. QED
  BY <1>1, <1>2, <1>3, <1>4, <1>5 DEF Balanced, Listed

(* Without a free slot the job joins the waiters.                          *)
LEMMA WaitBalanced ==
    ASSUME NEW sem \in SemaphoreState, NEW max \in Nat, NEW H, NEW W,
           NEW j \in Jobs, j \notin W,
           Balanced(sem, max, H, W), ~Free(sem)
    PROVE  /\ Wait(sem, j) \in SemaphoreState
           /\ Balanced(Wait(sem, j), max, H, W \cup {j})
<1>. DEFINE q == sem.queue  r == Append(q, j)
<1>1. q \in Seq(Jobs) /\ sem.available \in Nat
  BY DEF SemaphoreState
<1>2. /\ Wait(sem, j).queue = r /\ Wait(sem, j).available = sem.available
      /\ Wait(sem, j) \in SemaphoreState
  BY <1>1 DEF Wait, SemaphoreState
<1>3. sem.available = 0
  BY <1>1 DEF Free
<1>4. DOMAIN q = 1 .. Len(q) /\ DOMAIN r = 1 .. Len(q) + 1 /\ Len(q) \in Nat
  BY <1>1
<1>5. r[Len(q) + 1] = j /\ \A i \in DOMAIN q : r[i] = q[i]
  BY <1>1, <1>4
<1>6. \A i \in DOMAIN q : q[i] \in W
  BY DEF Balanced, Listed
<1>7. Listed(Wait(sem, j)) = W \cup {j}
  BY <1>2, <1>4, <1>5 DEF Balanced, Listed
<1>8. \A i, k \in DOMAIN r : r[i] = r[k] => i = k
  BY <1>4, <1>5, <1>6 DEF Balanced
<1>. QED
  BY <1>2, <1>3, <1>7, <1>8 DEF Balanced

(* A release takes the slot from its holder; if somebody waits, the first  *)
(* in line holds it now.                                                   *)
LEMMA ReleaseBalanced ==
    ASSUME NEW sem \in SemaphoreState, NEW max \in Nat, NEW H, NEW W,
           NEW j \in H, IsFiniteSet(H), H \cap W = {},
           Balanced(sem, max, H, W)
    PROVE  /\ Release(sem) \in SemaphoreState
           /\ Served(sem) \subseteq W
           /\ Balanced(Release(sem), max, (H \ {j}) \cup Served(sem),
                       W \ Served(sem))
<1>. DEFINE q == sem.queue  h == Head(q)  t == Tail(q)
<1>1. q \in Seq(Jobs) /\ sem.available \in Nat
  BY DEF SemaphoreState
<1>2. /\ IsFiniteSet(H \ {j}) /\ Cardinality(H \ {j}) = Cardinality(H) - 1
      /\ Cardinality(H) \in Nat
  BY FS_RemoveElement, FS_CardinalityType
<1>3. CASE q = <<>>
  <2>1. /\ Release(sem).available = sem.available + 1
        /\ Release(sem).queue = q /\ Served(sem) = {}
        /\ Release(sem) \in SemaphoreState
    BY <1>1, <1>3 DEF Release, Served, SemaphoreState
  <2>2. (H \ {j}) \cup {} = H \ {j} /\ W \ {} = W
    OBVIOUS
  <2>. QED
    BY <1>1, <1>2, <1>3, <2>1, <2>2 DEF Balanced, Listed
<1>4. CASE q # <<>>
  <2>1. /\ Release(sem).available = sem.available
        /\ Release(sem).queue = t /\ Served(sem) = {h}
        /\ Release(sem) \in SemaphoreState
    <3>1. t \in Seq(Jobs)
      BY <1>1, <1>4
    <3>. QED
      BY <1>1, <1>4, <3>1 DEF Release, Served, SemaphoreState
  <2>2. /\ DOMAIN q = 1 .. Len(q) /\ Len(q) \in Nat \ {0} /\ h = q[1]
        /\ DOMAIN t = 1 .. Len(q) - 1
        /\ \A i \in DOMAIN t : t[i] = q[i + 1]
    BY <1>1, <1>4
  <2>3. h \in W /\ sem.available = 0
    BY <1>4, <2>2 DEF Balanced, Listed
  <2>4. h \notin H \ {j}
    BY <2>3
  <2>5. Cardinality((H \ {j}) \cup {h}) = Cardinality(H)
    <3>. DEFINE rest == H \ {j}
    <3>1. Cardinality(rest \cup {h}) = Cardinality(rest) + 1
      <4>. HIDE DEF rest, h
      <4>. QED
        BY <1>2, <2>4, FS_AddElement DEF rest
    <3>. QED
      BY <1>2, <3>1
  <2>6. \A i, k \in DOMAIN t : t[i] = t[k] => i = k
    <3>1. \A i, k \in DOMAIN q : q[i] = q[k] => i = k
      BY DEF Balanced
    <3>2. \A i \in DOMAIN t : i \in Nat /\ i + 1 \in DOMAIN q /\ t[i] = q[i + 1]
      BY <2>2
    <3>3. ASSUME NEW i \in DOMAIN t, NEW k \in DOMAIN t, t[i] = t[k]
          PROVE  i = k
      <4>1. i + 1 = k + 1
        BY <3>1, <3>2, <3>3
      <4>. QED
        BY <3>2, <4>1
    <3>. QED
      BY <3>3
  <2>7. Listed(Release(sem)) = W \ {h}
    <3>1. \A i \in DOMAIN t : t[i] \in W /\ t[i] # h
      BY <2>2 DEF Balanced, Listed
    <3>2. ASSUME NEW w \in W, w # h
          PROVE  \E i \in DOMAIN t : t[i] = w
      <4>1. PICK i \in DOMAIN q : q[i] = w
        BY DEF Balanced, Listed
      <4>2. i - 1 \in DOMAIN t /\ t[i - 1] = w
        BY <2>2, <3>2, <4>1
      <4>. QED
        BY <4>2
    <3>. QED
      BY <2>1, <3>1, <3>2 DEF Listed
  <2>. QED
    BY <2>1, <2>3, <2>5, <2>6, <2>7 DEF Balanced
<1>. QED
  BY <1>3, <1>4

(* A waiter that gives up leaves everybody else where they were.           *)
LEMMA LeaveBalanced ==
    ASSUME NEW sem \in SemaphoreState, NEW max \in Nat, NEW H, NEW W,
           NEW j \in W, Balanced(sem, max, H, W)
    PROVE  /\ Leave(sem, j) \in SemaphoreState
           /\ Balanced(Leave(sem, j), max, H, W \ {j})
<1>. DEFINE q == sem.queue  p == Position(sem, j)  r == Leave(sem, j).queue
<1>1. q \in Seq(Jobs) /\ sem.available \in Nat
  BY DEF SemaphoreState
<1>2. DOMAIN q = 1 .. Len(q) /\ Len(q) \in Nat
  BY <1>1
<1>3. p \in DOMAIN q /\ q[p] = j
  <2>1. \E i \in DOMAIN q : q[i] = j
    BY DEF Balanced, Listed
  <2>. QED
    BY <2>1 DEF Position
<1>4. Len(q) - 1 \in Nat /\ q # <<>>
  BY <1>1, <1>2, <1>3
<1>5. r = [i \in 1 .. Len(q) - 1 |-> IF i < p THEN q[i] ELSE q[i + 1]]
  BY DEF Leave, SemaphoreState
<1>6. /\ Leave(sem, j).available = sem.available
      /\ DOMAIN r = 1 .. Len(q) - 1
  BY <1>5 DEF Leave, SemaphoreState
<1>7. \A i \in 1 .. Len(q) - 1 : r[i] \in Jobs
  BY <1>1, <1>2, <1>3, <1>5
<1>8. r \in Seq(Jobs)
  <2>. DEFINE n == Len(q) - 1
  <2>1. n \in Nat /\ r = [i \in 1 .. n |-> r[i]] /\ \A i \in 1 .. n : r[i] \in Jobs
    BY <1>4, <1>5, <1>7
  <2>. HIDE DEF n, r
  <2>. QED
    BY <2>1
<1>9. Leave(sem, j) \in SemaphoreState
  BY <1>1, <1>8 DEF Leave, SemaphoreState
<1>. DEFINE from(i) == IF i < p THEN i ELSE i + 1
<1>10. ASSUME NEW i \in DOMAIN r
       PROVE  from(i) \in DOMAIN q /\ from(i) # p /\ r[i] = q[from(i)]
  BY <1>2, <1>3, <1>5, <1>6
<1>11. \A i, k \in DOMAIN r : r[i] = r[k] => i = k
  <2>1. \A i, k \in DOMAIN q : q[i] = q[k] => i = k
    BY DEF Balanced
  <2>2. ASSUME NEW i \in DOMAIN r, NEW k \in DOMAIN r, r[i] = r[k]
        PROVE  from(i) = from(k)
    <3>. HIDE DEF from, r, q
    <3>. QED
      BY <1>10, <2>1, <2>2
  <2>3. p \in Int /\ \A i \in DOMAIN r : i \in Int
    BY <1>2, <1>3, <1>6
  <2>4. ASSUME NEW i \in DOMAIN r, NEW k \in DOMAIN r, from(i) = from(k)
        PROVE  i = k
    BY <2>3, <2>4
  <2>. HIDE DEF from, r
  <2>. QED
    BY <2>2, <2>4
<1>12. Listed(Leave(sem, j)) = W \ {j}
  <2>1. \A i \in DOMAIN r : r[i] \in W /\ r[i] # j
    <3>1. \A i, k \in DOMAIN q : q[i] = q[k] => i = k
      BY DEF Balanced
    <3>2. \A i \in DOMAIN q : q[i] \in W
      BY DEF Balanced, Listed
    <3>. HIDE DEF from, r, q, p
    <3>. QED
      BY <1>3, <1>10, <3>1, <3>2
  <2>2. ASSUME NEW w \in W, w # j
        PROVE  \E i \in DOMAIN r : r[i] = w
    <3>1. PICK i \in DOMAIN q : q[i] = w
      BY DEF Balanced, Listed
    <3>2. CASE i < p
      BY <1>2, <1>3, <1>5, <1>6, <3>1, <3>2
    <3>3. CASE i > p
      <4>1. i - 1 \in DOMAIN r /\ r[i - 1] = w
        BY <1>2, <1>3, <1>5, <1>6, <3>1, <3>3
      <4>. QED
        BY <4>1
    <3>. QED
      BY <1>2, <1>3, <2>2, <3>1, <3>2, <3>3
  <2>. QED
    BY <2>1, <2>2 DEF Listed
<1>. QED
  BY <1>4, <1>6, <1>9, <1>11, <1>12 DEF Balanced

-----------------------------------------------------------------------------
(* Slots and permits.                                                      *)

IInv == TypeOK /\ SlotsExact /\ PermitsExact

(* The jobs that hold or wait for something are finitely many.             *)
LEMMA JobSetsFinite ==
    ASSUME NEW S, NEW k
    PROVE  IsFiniteSet(InStages(S)) /\ IsFiniteSet(Calling(k, S))
<1>1. IsFiniteSet(Jobs) /\ InStages(S) \subseteq Jobs /\ Calling(k, S) \subseteq Jobs
  BY JobsAssumption DEF InStages, Calling
<1>. QED
  BY <1>1, FS_Subset

(* Nobody takes, frees or waits for a slot.                                *)
LEMMA SlotsFrame ==
    ASSUME SlotsExact, UNCHANGED slots,
           \A i \in Jobs : /\ stage'[i] \in WithSlot <=> stage[i] \in WithSlot
                           /\ stage'[i] = "queued" <=> stage[i] = "queued"
    PROVE  SlotsExact'
<1>1. /\ InStages(WithSlot)' = InStages(WithSlot)
      /\ InStages({"queued"})' = InStages({"queued"})
  BY DEF InStages
<1>. QED
  BY <1>1 DEF SlotsExact, Balanced, Listed

(* Nobody takes, frees or waits for a permit.                              *)
LEMMA PermitsFrame ==
    ASSUME PermitsExact, UNCHANGED <<permits, key>>,
           \A i \in Jobs : /\ stage'[i] \in WithPermit <=> stage[i] \in WithPermit
                           /\ stage'[i] = "permitQueued" <=> stage[i] = "permitQueued"
    PROVE  PermitsExact'
<1>1. \A k \in Keys :
         /\ Calling(k, WithPermit)' = Calling(k, WithPermit)
         /\ Calling(k, {"permitQueued"})' = Calling(k, {"permitQueued"})
  BY DEF Calling
<1>. QED
  BY <1>1 DEF PermitsExact, Balanced, Listed

(* A job that is in no call leaves its slot, and the next in line has it.  *)
LEMMA FreeSlotExact ==
    ASSUME IInv, NEW j \in Jobs, stage[j] \in WithSlot \ Armed,
           NEW to \in {"publishing", "rejected"},
           FreeSlot(j, to), UNCHANGED <<permits, key>>
    PROVE  /\ slots' \in SemaphoreState /\ stage' \in [Jobs -> Stages]
           /\ SlotsExact' /\ PermitsExact'
<1>. DEFINE H == InStages(WithSlot)
            W == InStages({"queued"})
            S == Served(slots)
<1>1. /\ slots \in SemaphoreState /\ stage \in [Jobs -> Stages]
      /\ Balanced(slots, MaxConcurrentJobs, H, W) /\ MaxConcurrentJobs \in Nat
  BY LimitsAssumption DEF IInv, TypeOK, SlotsExact
<1>2. j \in H /\ H \cap W = {} /\ IsFiniteSet(H)
  BY JobSetsFinite DEF InStages, WithSlot, WithPermit
<1>3. /\ Release(slots) \in SemaphoreState /\ S \subseteq W
      /\ Balanced(Release(slots), MaxConcurrentJobs, (H \ {j}) \cup S, W \ S)
  <2>. HIDE DEF H, W, S
  <2>. QED
    BY <1>1, <1>2, ReleaseBalanced DEF S
<1>4. \A i \in Jobs : i \in S => stage[i] = "queued" /\ i # j
  BY <1>3 DEF InStages, WithSlot, WithPermit, Armed
<1>5. \A i \in Jobs : stage'[i] = IF i \in S THEN "granted"
                                  ELSE IF i = j THEN to ELSE stage[i]
  BY <1>1 DEF FreeSlot, Promote
<1>6. stage' \in [Jobs -> Stages]
  BY <1>1 DEF FreeSlot, Promote, Stages, WithSlot
<1>7. H' = (H \ {j}) \cup S /\ W' = W \ S
  <2>. HIDE DEF S
  <2>. QED
    BY <1>3, <1>4, <1>5 DEF InStages, WithSlot, WithPermit
<1>8. SlotsExact'
  BY <1>3, <1>7 DEF FreeSlot, SlotsExact
<1>9. PermitsExact'
  <2>1. \A i \in Jobs : /\ stage'[i] \in WithPermit <=> stage[i] \in WithPermit
                        /\ stage'[i] = "permitQueued" <=> stage[i] = "permitQueued"
    <3>. HIDE DEF S
    <3>. QED
      BY <1>4, <1>5 DEF WithPermit, WithSlot, Armed
  <2>. QED
    BY <2>1, PermitsFrame DEF IInv
<1>. QED
  BY <1>3, <1>6, <1>8, <1>9 DEF FreeSlot

(* A call ends: the permit of its key goes to the next call of that key.   *)
LEMMA FreePermitExact ==
    ASSUME IInv, NEW j \in Jobs, stage[j] \in WithPermit,
           NEW to \in {"recording", "storing"}, NEW result,
           FreePermit(j, to, result), UNCHANGED <<slots, key>>
    PROVE  /\ permits' \in [Keys -> SemaphoreState] /\ stage' \in [Jobs -> Stages]
           /\ SlotsExact' /\ PermitsExact'
<1>. DEFINE H(k) == Calling(k, WithPermit)
            W(k) == Calling(k, {"permitQueued"})
            c == key[j]
            S == Served(permits[c])
<1>1. /\ permits \in [Keys -> SemaphoreState] /\ stage \in [Jobs -> Stages]
      /\ c \in Keys /\ MaxConcurrencyPerKey \in Nat
      /\ \A k \in Keys : Balanced(permits[k], MaxConcurrencyPerKey, H(k), W(k))
  BY LimitsAssumption DEF IInv, TypeOK, PermitsExact
<1>2. j \in H(c) /\ H(c) \cap W(c) = {} /\ IsFiniteSet(H(c))
  BY JobSetsFinite DEF Calling, WithPermit
<1>3. /\ Release(permits[c]) \in SemaphoreState /\ S \subseteq W(c)
      /\ Balanced(Release(permits[c]), MaxConcurrencyPerKey,
                  (H(c) \ {j}) \cup S, W(c) \ S)
  <2>1. permits[c] \in SemaphoreState
    BY <1>1
  <2>. HIDE DEF H, W, S, c
  <2>. QED
    BY <1>1, <1>2, <2>1, ReleaseBalanced DEF S
<1>4. \A i \in Jobs : i \in S => /\ stage[i] = "permitQueued" /\ key[i] = c
                                 /\ i # j
  BY <1>3 DEF Calling, WithPermit
<1>5. \A i \in Jobs : stage'[i] = IF i \in S THEN "permitted"
                                  ELSE IF i = j THEN to ELSE stage[i]
  BY <1>1 DEF FreePermit, Promote
<1>6. stage' \in [Jobs -> Stages]
  BY <1>1 DEF FreePermit, Promote, Stages, WithSlot, WithPermit
<1>7. permits' = [permits EXCEPT ![c] = Release(permits[c])]
  BY DEF FreePermit
<1>8. permits' \in [Keys -> SemaphoreState]
  BY <1>1, <1>3, <1>7
<1>9. SlotsExact'
  <2>1. \A i \in Jobs : /\ stage'[i] \in WithSlot <=> stage[i] \in WithSlot
                        /\ stage'[i] = "queued" <=> stage[i] = "queued"
    <3>. HIDE DEF S
    <3>. QED
      BY <1>4, <1>5 DEF WithPermit, WithSlot
  <2>. QED
    BY <2>1, SlotsFrame DEF IInv
<1>10. ASSUME NEW k \in Keys
       PROVE  Balanced(permits'[k], MaxConcurrencyPerKey, H(k)', W(k)')
  <2>1. CASE k = c
    <3>1. H(k)' = (H(c) \ {j}) \cup S /\ W(k)' = W(c) \ S
      <4>. HIDE DEF S
      <4>. QED
        BY <1>2, <1>3, <1>4, <1>5, <2>1 DEF Calling, WithPermit
    <3>2. permits'[k] = Release(permits[c])
      BY <1>1, <1>7, <2>1
    <3>. QED
      BY <1>3, <3>1, <3>2
  <2>2. CASE k # c
    <3>1. H(k)' = H(k) /\ W(k)' = W(k)
      <4>. HIDE DEF S
      <4>. QED
        BY <1>2, <1>3, <1>4, <1>5, <2>2 DEF Calling, WithPermit
    <3>2. permits'[k] = permits[k]
      BY <1>1, <1>7, <2>2
    <3>. QED
      BY <1>1, <3>1, <3>2
  <2>. QED
    BY <2>1, <2>2
<1>11. PermitsExact'
  BY <1>10 DEF PermitsExact
<1>. QED
  BY <1>6, <1>8, <1>9, <1>11

(* A submission takes a slot or waits for one.                             *)
LEMMA SubmitExact ==
    ASSUME IInv, NEW j \in Jobs, Submit(j)
    PROVE  IInv'
<1>. DEFINE H == InStages(WithSlot)
            W == InStages({"queued"})
<1>1. /\ slots \in SemaphoreState /\ stage \in [Jobs -> Stages]
      /\ Balanced(slots, MaxConcurrentJobs, H, W) /\ MaxConcurrentJobs \in Nat
      /\ stage[j] = "idle"
  BY LimitsAssumption DEF IInv, TypeOK, SlotsExact, Submit
<1>2. j \notin H /\ j \notin W /\ IsFiniteSet(H)
  BY <1>1, JobSetsFinite DEF InStages, WithSlot, WithPermit
<1>3. PermitsExact'
  <2>1. \A i \in Jobs : /\ stage'[i] \in WithPermit <=> stage[i] \in WithPermit
                        /\ stage'[i] = "permitQueued" <=> stage[i] = "permitQueued"
    BY <1>1 DEF Submit, WithPermit
  <2>. QED
    BY <2>1, PermitsFrame DEF IInv, Submit
<1>4. CASE j \in aborted
  <2>1. \A i \in Jobs : /\ stage'[i] \in WithSlot <=> stage[i] \in WithSlot
                        /\ stage'[i] = "queued" <=> stage[i] = "queued"
    BY <1>1, <1>4 DEF Submit, WithSlot, WithPermit
  <2>2. SlotsExact'
    BY <1>4, <2>1, SlotsFrame DEF IInv, Submit
  <2>3. TypeOK'
    BY <1>4 DEF IInv, TypeOK, Submit, Stages, Outcomes, talk
  <2>. QED
    BY <1>3, <2>2, <2>3 DEF IInv
<1>5. CASE j \notin aborted /\ Free(slots)
  <2>1. slots' = Take(slots) /\ stage' = [stage EXCEPT ![j] = "granted"]
    BY <1>5 DEF Submit, Acquire
  <2>2. H' = H \cup {j} /\ W' = W
    BY <1>1, <2>1 DEF InStages, WithSlot, WithPermit
  <2>3. /\ Take(slots) \in SemaphoreState
        /\ Balanced(Take(slots), MaxConcurrentJobs, H \cup {j}, W)
    <3>. HIDE DEF H, W
    <3>. QED
      BY <1>1, <1>2, <1>5, TakeBalanced
  <2>4. SlotsExact'
    BY <2>1, <2>2, <2>3 DEF SlotsExact
  <2>5. TypeOK'
    BY <1>5, <2>1, <2>3 DEF IInv, TypeOK, Submit, Stages, WithSlot, talk
  <2>. QED
    BY <1>3, <2>4, <2>5 DEF IInv
<1>6. CASE j \notin aborted /\ ~Free(slots)
  <2>1. slots' = Wait(slots, j) /\ stage' = [stage EXCEPT ![j] = "queued"]
    BY <1>6 DEF Submit, Acquire
  <2>2. H' = H /\ W' = W \cup {j}
    BY <1>1, <2>1 DEF InStages, WithSlot, WithPermit
  <2>3. /\ Wait(slots, j) \in SemaphoreState
        /\ Balanced(Wait(slots, j), MaxConcurrentJobs, H, W \cup {j})
    <3>. HIDE DEF H, W
    <3>. QED
      BY <1>1, <1>2, <1>6, WaitBalanced
  <2>4. SlotsExact'
    BY <2>1, <2>2, <2>3 DEF SlotsExact
  <2>5. TypeOK'
    BY <1>6, <2>1, <2>3 DEF IInv, TypeOK, Submit, Stages, talk
  <2>. QED
    BY <1>3, <2>4, <2>5 DEF IInv
<1>. QED
  BY <1>4, <1>5, <1>6

(* An aborted job leaves the line for a slot.                              *)
LEMMA AbortQueuedExact ==
    ASSUME IInv, NEW j \in Jobs, AbortQueued(j),
           aborted' = aborted \cup {j}, UNCHANGED <<key, talk>>
    PROVE  IInv'
<1>. DEFINE H == InStages(WithSlot)
            W == InStages({"queued"})
<1>1. /\ slots \in SemaphoreState /\ stage \in [Jobs -> Stages]
      /\ Balanced(slots, MaxConcurrentJobs, H, W) /\ MaxConcurrentJobs \in Nat
      /\ stage[j] = "queued" /\ slots' = Leave(slots, j)
      /\ stage' = [stage EXCEPT ![j] = "publishing"]
  BY LimitsAssumption DEF IInv, TypeOK, SlotsExact, AbortQueued
<1>2. H' = H /\ W' = W \ {j} /\ j \in W
  BY <1>1 DEF InStages, WithSlot, WithPermit
<1>3. /\ Leave(slots, j) \in SemaphoreState
      /\ Balanced(Leave(slots, j), MaxConcurrentJobs, H, W \ {j})
  <2>. HIDE DEF H, W
  <2>. QED
    BY <1>1, <1>2, LeaveBalanced
<1>4. SlotsExact'
  BY <1>1, <1>2, <1>3 DEF SlotsExact
<1>5. PermitsExact'
  <2>1. \A i \in Jobs : /\ stage'[i] \in WithPermit <=> stage[i] \in WithPermit
                        /\ stage'[i] = "permitQueued" <=> stage[i] = "permitQueued"
    BY <1>1 DEF WithPermit
  <2>. QED
    BY <2>1, PermitsFrame DEF IInv, AbortQueued
<1>6. TypeOK'
  BY <1>1, <1>3 DEF IInv, TypeOK, AbortQueued, Stages, Outcomes, talk
<1>. QED
  BY <1>4, <1>5, <1>6 DEF IInv

(* The permits of one key change, and nobody else's holders or waiters do. *)
LEMMA OneKeyExact ==
    ASSUME IInv, NEW c \in Keys, NEW sem \in SemaphoreState,
           permits' = [permits EXCEPT ![c] = sem], UNCHANGED key,
           \A i \in Jobs : key[i] # c => stage'[i] = stage[i],
           Balanced(sem, MaxConcurrencyPerKey, Calling(c, WithPermit)',
                    Calling(c, {"permitQueued"})')
    PROVE  permits' \in [Keys -> SemaphoreState] /\ PermitsExact'
<1>1. permits \in [Keys -> SemaphoreState]
  BY DEF IInv, TypeOK
<1>2. ASSUME NEW k \in Keys
      PROVE  Balanced(permits'[k], MaxConcurrencyPerKey, Calling(k, WithPermit)',
                      Calling(k, {"permitQueued"})')
  <2>1. CASE k = c
    BY <1>1, <2>1
  <2>2. CASE k # c
    <3>1. /\ Calling(k, WithPermit)' = Calling(k, WithPermit)
          /\ Calling(k, {"permitQueued"})' = Calling(k, {"permitQueued"})
      BY <2>2 DEF Calling
    <3>2. permits'[k] = permits[k]
      BY <1>1, <2>2
    <3>. QED
      BY <3>1, <3>2 DEF IInv, PermitsExact
  <2>. QED
    BY <2>1, <2>2
<1>. QED
  BY <1>1, <1>2 DEF PermitsExact

(* A prepared job takes a permit of its key or waits for one.              *)
LEMMA PreparedExact ==
    ASSUME IInv, NEW j \in Jobs, Prepared(j)
    PROVE  IInv'
<1>. DEFINE c == key[j]
            sem == permits[c]
            H == Calling(c, WithPermit)
            W == Calling(c, {"permitQueued"})
<1>1. /\ stage \in [Jobs -> Stages] /\ stage[j] = "preparing"
      /\ c \in Keys /\ sem \in SemaphoreState /\ MaxConcurrencyPerKey \in Nat
      /\ Balanced(sem, MaxConcurrencyPerKey, H, W)
  BY LimitsAssumption DEF IInv, TypeOK, PermitsExact, Prepared
<1>2. j \notin H /\ j \notin W /\ IsFiniteSet(H)
  BY <1>1, JobSetsFinite DEF Calling, WithPermit
<1>3. SlotsExact'
  <2>1. \A i \in Jobs : /\ stage'[i] \in WithSlot <=> stage[i] \in WithSlot
                        /\ stage'[i] = "queued" <=> stage[i] = "queued"
    BY <1>1 DEF Prepared, WithSlot, WithPermit
  <2>. QED
    BY <2>1, SlotsFrame DEF IInv, Prepared
<1>4. CASE j \in aborted
  <2>1. \A i \in Jobs : /\ stage'[i] \in WithPermit <=> stage[i] \in WithPermit
                        /\ stage'[i] = "permitQueued" <=> stage[i] = "permitQueued"
    BY <1>1, <1>4 DEF Prepared, WithPermit
  <2>2. PermitsExact'
    BY <1>4, <2>1, PermitsFrame DEF IInv, Prepared
  <2>3. TypeOK'
    BY <1>4 DEF IInv, TypeOK, Prepared, Stages, WithSlot, Causes, Outcomes, talk
  <2>. QED
    BY <1>3, <2>2, <2>3 DEF IInv
<1>5. CASE j \notin aborted /\ Free(sem)
  <2>1. /\ permits' = [permits EXCEPT ![c] = Take(sem)] /\ key' = key
        /\ stage' = [stage EXCEPT ![j] = "permitted"]
    BY <1>5 DEF Prepared, Acquire
  <2>2. H' = H \cup {j} /\ W' = W
    BY <1>1, <2>1 DEF Calling, WithPermit
  <2>3. /\ Take(sem) \in SemaphoreState
        /\ Balanced(Take(sem), MaxConcurrencyPerKey, H \cup {j}, W)
    <3>. HIDE DEF H, W, sem
    <3>. QED
      BY <1>1, <1>2, <1>5, TakeBalanced
  <2>4. \A i \in Jobs : key[i] # c => stage'[i] = stage[i]
    BY <1>1, <2>1
  <2>5. permits' \in [Keys -> SemaphoreState] /\ PermitsExact'
    <3>. HIDE DEF sem
    <3>. QED
      BY <1>1, <2>1, <2>2, <2>3, <2>4, OneKeyExact
  <2>6. TypeOK'
    BY <1>5, <2>1, <2>5
       DEF IInv, TypeOK, Prepared, Stages, WithSlot, WithPermit, talk
  <2>. QED
    BY <1>3, <2>5, <2>6 DEF IInv
<1>6. CASE j \notin aborted /\ ~Free(sem)
  <2>1. /\ permits' = [permits EXCEPT ![c] = Wait(sem, j)] /\ key' = key
        /\ stage' = [stage EXCEPT ![j] = "permitQueued"]
    BY <1>6 DEF Prepared, Acquire
  <2>2. H' = H /\ W' = W \cup {j}
    BY <1>1, <2>1 DEF Calling, WithPermit
  <2>3. /\ Wait(sem, j) \in SemaphoreState
        /\ Balanced(Wait(sem, j), MaxConcurrencyPerKey, H, W \cup {j})
    <3>. HIDE DEF H, W, sem
    <3>. QED
      BY <1>1, <1>2, <1>6, WaitBalanced
  <2>4. \A i \in Jobs : key[i] # c => stage'[i] = stage[i]
    BY <1>1, <2>1
  <2>5. permits' \in [Keys -> SemaphoreState] /\ PermitsExact'
    <3>. HIDE DEF sem
    <3>. QED
      BY <1>1, <2>1, <2>2, <2>3, <2>4, OneKeyExact
  <2>6. TypeOK'
    BY <1>6, <2>1, <2>5
       DEF IInv, TypeOK, Prepared, Stages, WithSlot, WithPermit, talk
  <2>. QED
    BY <1>3, <2>5, <2>6 DEF IInv
<1>. QED
  BY <1>4, <1>5, <1>6

(* An aborted job leaves the line for a permit.                            *)
LEMMA AbortPermitQueuedExact ==
    ASSUME IInv, NEW j \in Jobs, AbortPermitQueued(j),
           aborted' = aborted \cup {j}, UNCHANGED <<key, talk>>
    PROVE  IInv'
<1>. DEFINE c == key[j]
            sem == permits[c]
            H == Calling(c, WithPermit)
            W == Calling(c, {"permitQueued"})
<1>1. /\ stage \in [Jobs -> Stages] /\ stage[j] = "permitQueued"
      /\ c \in Keys /\ sem \in SemaphoreState /\ MaxConcurrencyPerKey \in Nat
      /\ Balanced(sem, MaxConcurrencyPerKey, H, W)
      /\ permits' = [permits EXCEPT ![c] = Leave(sem, j)] /\ key' = key
      /\ stage' = [stage EXCEPT ![j] = "recording"]
  BY LimitsAssumption DEF IInv, TypeOK, PermitsExact, AbortPermitQueued
<1>2. SlotsExact'
  <2>1. \A i \in Jobs : /\ stage'[i] \in WithSlot <=> stage[i] \in WithSlot
                        /\ stage'[i] = "queued" <=> stage[i] = "queued"
    BY <1>1 DEF WithSlot, WithPermit
  <2>. QED
    BY <2>1, SlotsFrame DEF IInv, AbortPermitQueued
<1>3. H' = H /\ W' = W \ {j} /\ j \in W
  BY <1>1 DEF Calling, WithPermit
<1>4. /\ Leave(sem, j) \in SemaphoreState
      /\ Balanced(Leave(sem, j), MaxConcurrencyPerKey, H, W \ {j})
  <2>. HIDE DEF H, W, sem
  <2>. QED
    BY <1>1, <1>3, LeaveBalanced
<1>5. \A i \in Jobs : key[i] # c => stage'[i] = stage[i]
  BY <1>1
<1>6. permits' \in [Keys -> SemaphoreState] /\ PermitsExact'
  <2>1. Balanced(Leave(sem, j), MaxConcurrencyPerKey, H', W')
    BY <1>3, <1>4
  <2>. DEFINE new == Leave(sem, j)
  <2>2. new \in SemaphoreState /\ permits' = [permits EXCEPT ![c] = new]
    BY <1>1, <1>4
  <2>. HIDE DEF new
  <2>. QED
    BY <1>1, <1>5, <2>1, <2>2, OneKeyExact DEF new
<1>7. cause' \in [Jobs -> Causes] /\ outcome' \in [Jobs -> Outcomes]
  BY DEF IInv, TypeOK, AbortPermitQueued, Causes, Outcomes, FailedRuns
<1>8. TypeOK'
  BY <1>1, <1>6, <1>7
     DEF IInv, TypeOK, AbortPermitQueued, Stages, WithSlot, talk
<1>. QED
  BY <1>2, <1>6, <1>8 DEF IInv

(* A step that moves one job on without taking or freeing anything.        *)
LEMMA MovesOnExact ==
    ASSUME IInv, NEW j \in Jobs, NEW to \in Stages,
           stage' = [stage EXCEPT ![j] = to], UNCHANGED <<slots, permits, key>>,
           \/ stage[j] \in {"starting", "preparing", "storing", "granted"}
                 /\ to \in {"starting", "preparing", "recording"}
           \/ stage[j] \in WithPermit /\ to \in WithPermit
           \/ stage[j] = "publishing" /\ to \in {"done", "rejected"}
    PROVE  stage' \in [Jobs -> Stages] /\ SlotsExact' /\ PermitsExact'
<1>1. stage \in [Jobs -> Stages]
  BY DEF IInv, TypeOK
<1>2. \A i \in Jobs : /\ stage'[i] \in WithSlot <=> stage[i] \in WithSlot
                      /\ stage'[i] = "queued" <=> stage[i] = "queued"
  BY <1>1 DEF WithSlot, WithPermit
<1>3. \A i \in Jobs : /\ stage'[i] \in WithPermit <=> stage[i] \in WithPermit
                      /\ stage'[i] = "permitQueued" <=> stage[i] = "permitQueued"
  BY <1>1 DEF WithSlot, WithPermit
<1>. QED
  BY <1>1, <1>2, <1>3, SlotsFrame, PermitsFrame DEF IInv

(* A step that leaves every job where it stands.                           *)
LEMMA StandsExact ==
    ASSUME IInv, UNCHANGED <<slots, permits, stage, key>>
    PROVE  SlotsExact' /\ PermitsExact'
  BY SlotsFrame, PermitsFrame DEF IInv

(* The initial states are in balance.                                      *)
LEMMA InitExact == Init => IInv
<1>. SUFFICES ASSUME Init PROVE IInv
  OBVIOUS
<1>. USE DEF Init
<1>1. /\ NewSemaphore(MaxConcurrentJobs) \in SemaphoreState
      /\ NewSemaphore(MaxConcurrencyPerKey) \in SemaphoreState
      /\ Balanced(NewSemaphore(MaxConcurrentJobs), MaxConcurrentJobs, {}, {})
      /\ Balanced(NewSemaphore(MaxConcurrencyPerKey), MaxConcurrencyPerKey, {}, {})
  BY LimitsAssumption, NewBalanced
<1>2. TypeOK
  BY <1>1 DEF TypeOK, Stages, Causes, Outcomes, Facts, Terminals
<1>3. InStages(WithSlot) = {} /\ InStages({"queued"}) = {}
  BY DEF InStages, WithSlot, WithPermit
<1>4. \A k : Calling(k, WithPermit) = {} /\ Calling(k, {"permitQueued"}) = {}
  BY DEF Calling, WithPermit
<1>. QED
  BY <1>1, <1>2, <1>3, <1>4 DEF IInv, SlotsExact, PermitsExact

(* Every step of every job keeps the balance.                              *)
LEMMA StepExact == IInv /\ [Next]_vars => IInv'
<1>. SUFFICES ASSUME IInv, [Next]_vars PROVE IInv'
  OBVIOUS
<1>0. CASE UNCHANGED vars
  BY <1>0, StandsExact DEF IInv, TypeOK, vars
<1>. SUFFICES ASSUME NEW j \in Jobs,
                     \/ Submit(j) \/ Abort(j) \/ TimerFires(j)
                     \/ Own(j) \/ Network(j)
              PROVE  IInv'
  BY <1>0 DEF Next
<1>t. TypeOK
  BY DEF IInv
<1>f. \A f \in Facts : [facts EXCEPT ![j] = @ \cup {f}] \in [Jobs -> SUBSET Facts]
  BY <1>t DEF TypeOK
<1>1. CASE Submit(j)
  BY <1>1, SubmitExact
<1>2. CASE Abort(j)
  <2>1. aborted' = aborted \cup {j} /\ UNCHANGED <<key, talk>>
    BY <1>2 DEF Abort
  <2>2. CASE AbortQueued(j)
    BY <2>1, <2>2, AbortQueuedExact
  <2>3. CASE AbortPermitQueued(j)
    BY <2>1, <2>3, AbortPermitQueuedExact
  <2>4. CASE AbortElsewhere(j)
    <3>1. TypeOK'
      BY <1>t, <2>1, <2>4 DEF TypeOK, AbortElsewhere, Causes, talk
    <3>. QED
      BY <2>1, <2>4, <3>1, StandsExact DEF AbortElsewhere, IInv
  <2>. QED
    BY <1>2, <2>2, <2>3, <2>4 DEF Abort
<1>3. CASE TimerFires(j)
  <2>1. TypeOK'
    BY <1>t, <1>3 DEF TypeOK, TimerFires, Causes, talk
  <2>. QED
    BY <1>3, <2>1, StandsExact DEF TimerFires, IInv
<1>4. CASE Admit(j)
  <2>1. CASE j \in aborted
    <3>1. /\ stage[j] \in WithSlot \ Armed /\ FreeSlot(j, "publishing")
          /\ UNCHANGED <<permits, key>>
      BY <1>4, <2>1 DEF Admit, WithSlot, Armed, WithPermit
    <3>2. /\ slots' \in SemaphoreState /\ stage' \in [Jobs -> Stages]
          /\ SlotsExact' /\ PermitsExact'
      BY <3>1, FreeSlotExact
    <3>3. TypeOK'
      BY <1>t, <1>4, <2>1, <3>2 DEF TypeOK, Admit, Outcomes, talk
    <3>. QED
      BY <3>2, <3>3 DEF IInv
  <2>2. CASE j \notin aborted
    <3>1. /\ stage[j] = "granted" /\ stage' = [stage EXCEPT ![j] = "starting"]
          /\ UNCHANGED <<slots, permits, key>>
      BY <1>4, <2>2 DEF Admit
    <3>2. stage' \in [Jobs -> Stages] /\ SlotsExact' /\ PermitsExact'
      BY <3>1, MovesOnExact DEF Stages, WithSlot
    <3>3. TypeOK'
      BY <1>t, <1>4, <2>2, <3>2 DEF TypeOK, Admit, talk
    <3>. QED
      BY <3>2, <3>3 DEF IInv
  <2>. QED
    BY <2>1, <2>2
<1>5. CASE Started(j)
  <2>1. stage' \in [Jobs -> Stages] /\ SlotsExact' /\ PermitsExact'
    BY <1>5, MovesOnExact DEF Started, Stages, WithSlot
  <2>2. facts' \in [Jobs -> SUBSET Facts]
    BY <1>f, <1>5 DEF Started, Facts
  <2>3. TypeOK'
    BY <1>t, <1>5, <2>1, <2>2 DEF TypeOK, Started
  <2>. QED
    BY <2>1, <2>3 DEF IInv
<1>6. CASE PrepareFails(j)
  <2>1. stage' \in [Jobs -> Stages] /\ SlotsExact' /\ PermitsExact'
    BY <1>6, MovesOnExact DEF PrepareFails, Stages, WithSlot
  <2>2. TypeOK'
    BY <1>t, <1>6, <2>1 DEF TypeOK, PrepareFails, Outcomes, FailedRuns, talk
  <2>. QED
    BY <2>1, <2>2 DEF IInv
<1>7. CASE Prepared(j)
  BY <1>7, PreparedExact
<1>8. CASE CallStarts(j)
  <2>1. stage' \in [Jobs -> Stages] /\ SlotsExact' /\ PermitsExact'
    BY <1>8, MovesOnExact DEF CallStarts, Stages, WithSlot, WithPermit
  <2>2. TypeOK'
    BY <1>t, <1>8, <2>1 DEF TypeOK, CallStarts, talk
  <2>. QED
    BY <2>1, <2>2 DEF IInv
<1>9. CASE Responds(j)
  <2>1. stage' \in [Jobs -> Stages] /\ SlotsExact' /\ PermitsExact'
    BY <1>9, MovesOnExact DEF Responds, Stages, WithSlot, WithPermit
  <2>2. TypeOK'
    BY <1>t, <1>9, <2>1 DEF TypeOK, Responds, talk
  <2>. QED
    BY <2>1, <2>2 DEF IInv
<1>10. ASSUME NEW to \in {"recording", "storing"}, NEW result \in Outcomes,
              stage[j] \in WithPermit, FreePermit(j, to, result),
              UNCHANGED <<slots, key, aborted, cause, talk>>
       PROVE  IInv'
  <2>1. /\ permits' \in [Keys -> SemaphoreState] /\ stage' \in [Jobs -> Stages]
        /\ SlotsExact' /\ PermitsExact'
    BY <1>10, FreePermitExact
  <2>2. outcome' = [outcome EXCEPT ![j] = result]
    BY <1>10 DEF FreePermit
  <2>3. TypeOK'
    BY <1>t, <1>10, <2>1, <2>2 DEF TypeOK, talk
  <2>. QED
    BY <2>1, <2>3 DEF IInv
<1>11. CASE CallRefused(j)
  BY <1>10, <1>11 DEF CallRefused, Outcomes, FailedRuns, WithPermit
<1>12. CASE CallEnds(j)
  BY <1>10, <1>12
     DEF CallEnds, FetchRejects, BodyRejects, Classified, Outcomes, FailedRuns,
         WithPermit
<1>13. ASSUME NEW result \in {"completed", "protocol"}, BodyRead(j, result)
       PROVE  IInv'
  BY <1>10, <1>13 DEF BodyRead, Outcomes, FailedRuns, WithPermit
<1>14. ASSUME NEW saved \in BOOLEAN, Stored(j, saved)
       PROVE  IInv'
  <2>1. stage' \in [Jobs -> Stages] /\ SlotsExact' /\ PermitsExact'
    BY <1>14, MovesOnExact DEF Stored, Stages, WithSlot
  <2>2. outcome' \in [Jobs -> Outcomes]
    BY <1>t, <1>14 DEF TypeOK, Stored, Outcomes, FailedRuns
  <2>3. TypeOK'
    BY <1>t, <1>14, <2>1, <2>2 DEF TypeOK, Stored, talk
  <2>. QED
    BY <2>1, <2>3 DEF IInv
<1>15. CASE Recorded(j)
  <2>1. /\ stage[j] \in WithSlot \ Armed /\ FreeSlot(j, "publishing")
        /\ UNCHANGED <<permits, key>>
    BY <1>15 DEF Recorded, WithSlot, Armed, WithPermit
  <2>2. /\ slots' \in SemaphoreState /\ stage' \in [Jobs -> Stages]
        /\ SlotsExact' /\ PermitsExact'
    BY <2>1, FreeSlotExact
  <2>3. facts' \in [Jobs -> SUBSET Facts]
    <3>1. Fact(outcome[j]) \in Facts
      BY DEF Fact, Facts
    <3>. QED
      BY <1>f, <1>15, <3>1 DEF Recorded
  <2>4. TypeOK'
    BY <1>t, <1>15, <2>2, <2>3 DEF TypeOK, Recorded
  <2>. QED
    BY <2>2, <2>4 DEF IInv
<1>16. CASE Published(j)
  <2>1. stage' \in [Jobs -> Stages] /\ SlotsExact' /\ PermitsExact'
    BY <1>16, MovesOnExact DEF Published, Stages
  <2>2. terminals' \in [Jobs -> SUBSET Terminals]
    BY <1>t, <1>16 DEF TypeOK, Published, Terminal, Terminals
  <2>3. TypeOK'
    BY <1>t, <1>16, <2>1, <2>2 DEF TypeOK, Published
  <2>. QED
    BY <2>1, <2>3 DEF IInv
<1>17. CASE PublishRefused(j)
  <2>1. stage' \in [Jobs -> Stages] /\ SlotsExact' /\ PermitsExact'
    BY <1>17, MovesOnExact DEF PublishRefused, Stages
  <2>2. TypeOK'
    BY <1>t, <1>17, <2>1 DEF TypeOK, PublishRefused, talk
  <2>. QED
    BY <2>1, <2>2 DEF IInv
<1>18. CASE Throws(j)
  <2>1. /\ stage[j] \in WithSlot \ Armed /\ FreeSlot(j, "rejected")
        /\ UNCHANGED <<permits, key>>
    BY <1>18 DEF Throws, WithSlot, Armed, WithPermit
  <2>2. /\ slots' \in SemaphoreState /\ stage' \in [Jobs -> Stages]
        /\ SlotsExact' /\ PermitsExact'
    BY <2>1, FreeSlotExact
  <2>3. TypeOK'
    BY <1>t, <1>18, <2>2 DEF TypeOK, Throws, talk
  <2>. QED
    BY <2>2, <2>3 DEF IInv
<1>. QED
  BY <1>1, <1>2, <1>3, <1>4, <1>5, <1>6, <1>7, <1>8, <1>9, <1>11, <1>12, <1>13,
     <1>14, <1>15, <1>16, <1>17, <1>18 DEF Own, Network

(* The invariant holds in every reachable state, for all constants.        *)
THEOREM Inductive == Spec => []IInv
  BY InitExact, StepExact, PTL DEF Spec

(* Every variable stays in its set.                                        *)
THEOREM TypeCorrect == Spec => []TypeOK
<1>1. IInv => TypeOK
  BY DEF IInv
<1>. QED
  BY <1>1, Inductive, PTL

(* Every slot is free or held by exactly one admitted job; nobody waits    *)
(* while one is free.                                                      *)
THEOREM SlotsAreExact == Spec => []SlotsExact
<1>1. IInv => SlotsExact
  BY DEF IInv
<1>. QED
  BY <1>1, Inductive, PTL

(* The same for the permits of every resource key.                         *)
THEOREM PermitsAreExact == Spec => []PermitsExact
<1>1. IInv => PermitsExact
  BY DEF IInv
<1>. QED
  BY <1>1, Inductive, PTL

-----------------------------------------------------------------------------
(* What a terminal tells.                                                  *)

Unstarted == {"idle", "queued", "granted", "starting"}
UnderWay == {"preparing", "permitQueued", "storing", "recording"} \cup WithPermit
Cancelled(j) == facts[j] = {} /\ outcome[j] = "cancelled"
Told(j) ==
    /\ stage[j] \in Unstarted => facts[j] = {}
    /\ stage[j] \in UnderWay => facts[j] = {"started"}
    /\ stage[j] \in {"publishing", "done"} =>
          Cancelled(j) \/ facts[j] = {"started", Fact(outcome[j])}
    /\ stage[j] = "rejected" =>
          facts[j] \in {{}, {"started"}, {"started", Fact(outcome[j])}}
    /\ terminals[j] = IF stage[j] = "done" THEN {Terminal(outcome[j])} ELSE {}

FactsInv == \A j \in Jobs : Told(j)

(* What a step of one job may do to another: promote it.                   *)
Bystands(i) == /\ facts'[i] = facts[i] /\ terminals'[i] = terminals[i]
               /\ outcome'[i] = outcome[i]
               /\ \/ stage'[i] = stage[i]
                  \/ stage[i] = "queued" /\ stage'[i] = "granted"
                  \/ stage[i] = "permitQueued" /\ stage'[i] = "permitted"

LEMMA BystanderTold ==
    ASSUME NEW i, Told(i), Bystands(i)
    PROVE  Told(i)'
  BY DEF Told, Bystands, Unstarted, UnderWay, WithPermit, Cancelled

(* A release of a slot moves the job that frees it and one that waits.     *)
LEMMA FreeSlotMoves ==
    ASSUME IInv, NEW j \in Jobs, stage[j] \in WithSlot \ Armed,
           NEW to, FreeSlot(j, to)
    PROVE  /\ stage'[j] = to
           /\ \A i \in Jobs \ {j} : \/ stage'[i] = stage[i]
                                    \/ stage[i] = "queued" /\ stage'[i] = "granted"
<1>1. /\ slots \in SemaphoreState /\ stage \in [Jobs -> Stages]
      /\ Balanced(slots, MaxConcurrentJobs, InStages(WithSlot), InStages({"queued"}))
      /\ MaxConcurrentJobs \in Nat
  BY LimitsAssumption DEF IInv, TypeOK, SlotsExact
<1>2. Served(slots) \subseteq InStages({"queued"})
  <2>1. j \in InStages(WithSlot) /\ IsFiniteSet(InStages(WithSlot))
        /\ InStages(WithSlot) \cap InStages({"queued"}) = {}
    BY JobSetsFinite DEF InStages, WithSlot, WithPermit
  <2>. QED
    BY <1>1, <2>1, ReleaseBalanced
<1>3. \A i \in Jobs : stage'[i] = IF i \in Served(slots) THEN "granted"
                                  ELSE IF i = j THEN to ELSE stage[i]
  BY <1>1 DEF FreeSlot, Promote
<1>4. j \notin Served(slots)
  BY <1>2 DEF InStages, WithSlot, WithPermit, Armed
<1>. HIDE DEF Served
<1>. QED
  BY <1>2, <1>3, <1>4 DEF InStages

(* The same for a permit.                                                  *)
LEMMA FreePermitMoves ==
    ASSUME IInv, NEW j \in Jobs, stage[j] \in WithPermit,
           NEW to, NEW result, FreePermit(j, to, result)
    PROVE  /\ stage'[j] = to /\ outcome' = [outcome EXCEPT ![j] = result]
           /\ \A i \in Jobs \ {j} :
                \/ stage'[i] = stage[i]
                \/ stage[i] = "permitQueued" /\ stage'[i] = "permitted"
<1>. DEFINE c == key[j]
<1>1. /\ permits[c] \in SemaphoreState /\ stage \in [Jobs -> Stages]
      /\ Balanced(permits[c], MaxConcurrencyPerKey, Calling(c, WithPermit),
                  Calling(c, {"permitQueued"}))
      /\ MaxConcurrencyPerKey \in Nat
  BY LimitsAssumption DEF IInv, TypeOK, PermitsExact
<1>2. Served(permits[c]) \subseteq Calling(c, {"permitQueued"})
  <2>1. j \in Calling(c, WithPermit) /\ IsFiniteSet(Calling(c, WithPermit))
        /\ Calling(c, WithPermit) \cap Calling(c, {"permitQueued"}) = {}
    BY JobSetsFinite DEF Calling, WithPermit
  <2>. QED
    BY <1>1, <2>1, ReleaseBalanced
<1>3. \A i \in Jobs : stage'[i] = IF i \in Served(permits[c]) THEN "permitted"
                                  ELSE IF i = j THEN to ELSE stage[i]
  BY <1>1 DEF FreePermit, Promote
<1>4. j \notin Served(permits[c])
  BY <1>2 DEF Calling, WithPermit
<1>. QED
  BY <1>2, <1>3, <1>4 DEF Calling, FreePermit

(* Every step of every job keeps the account.                              *)
LEMMA StepTold == IInv /\ FactsInv /\ [Next]_vars => FactsInv'
<1>. SUFFICES ASSUME IInv, FactsInv, [Next]_vars PROVE FactsInv'
  OBVIOUS
<1>0. CASE UNCHANGED vars
  BY <1>0 DEF vars, talk, FactsInv, Told, Cancelled
<1>. SUFFICES ASSUME NEW j \in Jobs,
                     \/ Submit(j) \/ Abort(j) \/ TimerFires(j)
                     \/ Own(j) \/ Network(j)
              PROVE  FactsInv'
  BY <1>0 DEF Next
<1>t. /\ stage \in [Jobs -> Stages] /\ outcome \in [Jobs -> Outcomes]
      /\ facts \in [Jobs -> SUBSET Facts] /\ terminals \in [Jobs -> SUBSET Terminals]
      /\ Told(j)
  BY DEF IInv, TypeOK, FactsInv
<1>. DEFINE Others == \A i \in Jobs \ {j} : Bystands(i)
<1>q. ASSUME Told(j)', Others PROVE FactsInv'
  BY <1>q, BystanderTold DEF FactsInv
(* The job moves on, and nothing else happens.                             *)
<1>m. ASSUME NEW to, stage' = [stage EXCEPT ![j] = to], UNCHANGED talk,
             NEW result, outcome' = [outcome EXCEPT ![j] = result]
      PROVE  /\ Others /\ stage'[j] = to /\ outcome'[j] = result
             /\ facts'[j] = facts[j] /\ terminals'[j] = terminals[j]
  BY <1>t, <1>m DEF Bystands, talk
<1>s. ASSUME NEW to, stage' = [stage EXCEPT ![j] = to], UNCHANGED <<outcome, talk>>
      PROVE  /\ Others /\ stage'[j] = to /\ outcome'[j] = outcome[j]
             /\ facts'[j] = facts[j] /\ terminals'[j] = terminals[j]
  BY <1>t, <1>s DEF Bystands, talk
<1>1. CASE Submit(j)
  <2>1. CASE j \in aborted
    <3>1. Others /\ Told(j)'
      BY <1>1, <1>m, <1>t, <2>1
         DEF Submit, Told, Unstarted, UnderWay, WithPermit, Cancelled
    <3>. QED
      BY <1>q, <3>1
  <2>2. CASE j \notin aborted
    <3>1. Others /\ Told(j)'
      BY <1>1, <1>s, <1>t, <2>2
         DEF Submit, Told, Unstarted, UnderWay, WithPermit, Cancelled
    <3>. QED
      BY <1>q, <3>1
  <2>. QED
    BY <2>1, <2>2
<1>2. CASE Abort(j)
  <2>0. UNCHANGED talk
    BY <1>2 DEF Abort
  <2>1. CASE AbortQueued(j)
    <3>1. Others /\ Told(j)'
      BY <1>m, <1>t, <2>0, <2>1
         DEF AbortQueued, Told, Unstarted, UnderWay, WithPermit, Cancelled
    <3>. QED
      BY <1>q, <3>1
  <2>2. CASE AbortPermitQueued(j)
    <3>1. Others /\ Told(j)'
      BY <1>m, <1>t, <2>0, <2>2
         DEF AbortPermitQueued, Told, Unstarted, UnderWay, WithPermit, Cancelled
    <3>. QED
      BY <1>q, <3>1
  <2>3. CASE AbortElsewhere(j)
    BY <2>0, <2>3 DEF AbortElsewhere, talk, FactsInv, Told, Cancelled
  <2>. QED
    BY <1>2, <2>1, <2>2, <2>3 DEF Abort
<1>3. CASE TimerFires(j)
  BY <1>3 DEF TimerFires, talk, FactsInv, Told, Cancelled
<1>4. ASSUME NEW to, stage[j] \in WithSlot \ Armed, FreeSlot(j, to)
      PROVE  /\ stage'[j] = to
             /\ \A i \in Jobs \ {j} : \/ stage'[i] = stage[i]
                                      \/ stage[i] = "queued" /\ stage'[i] = "granted"
  BY <1>4, FreeSlotMoves
<1>5. CASE Admit(j)
  <2>1. CASE j \in aborted
    <3>1. /\ stage[j] \in WithSlot \ Armed /\ FreeSlot(j, "publishing")
          /\ UNCHANGED talk /\ outcome' = [outcome EXCEPT ![j] = "cancelled"]
          /\ stage[j] = "granted"
      BY <1>5, <2>1 DEF Admit, WithSlot, Armed, WithPermit
    <3>2. Others
      BY <1>4, <1>t, <3>1 DEF Bystands, talk
    <3>3. Told(j)'
      BY <1>4, <1>t, <3>1 DEF talk, Told, Unstarted, UnderWay, WithPermit, Cancelled
    <3>. QED
      BY <1>q, <3>2, <3>3
  <2>2. CASE j \notin aborted
    <3>1. Others /\ Told(j)'
      BY <1>5, <1>s, <1>t, <2>2
         DEF Admit, Told, Unstarted, UnderWay, WithPermit, Cancelled
    <3>. QED
      BY <1>q, <3>1
  <2>. QED
    BY <2>1, <2>2
<1>6. CASE Started(j)
  <2>1. Others
    BY <1>6, <1>t DEF Started, Bystands
  <2>2. Told(j)'
    BY <1>6, <1>t DEF Started, Told, Unstarted, UnderWay, WithPermit, Cancelled
  <2>. QED
    BY <1>q, <2>1, <2>2
<1>7. CASE PrepareFails(j)
  <2>1. Others /\ Told(j)'
    BY <1>7, <1>m, <1>t
       DEF PrepareFails, Told, Unstarted, UnderWay, WithPermit, Cancelled
  <2>. QED
    BY <1>q, <2>1
<1>8. CASE Prepared(j)
  <2>1. CASE j \in aborted
    <3>1. Others /\ Told(j)'
      BY <1>8, <1>m, <1>t, <2>1
         DEF Prepared, Told, Unstarted, UnderWay, WithPermit, Cancelled
    <3>. QED
      BY <1>q, <3>1
  <2>2. CASE j \notin aborted
    <3>1. Others /\ Told(j)'
      BY <1>8, <1>s, <1>t, <2>2
         DEF Prepared, Told, Unstarted, UnderWay, WithPermit, Cancelled
    <3>. QED
      BY <1>q, <3>1
  <2>. QED
    BY <2>1, <2>2
<1>9. CASE CallStarts(j) \/ Responds(j)
  <2>1. Others /\ Told(j)'
    BY <1>9, <1>s, <1>t
       DEF CallStarts, Responds, Told, Unstarted, UnderWay, WithPermit, Cancelled
  <2>. QED
    BY <1>q, <2>1
<1>10. ASSUME NEW to \in {"recording", "storing"}, NEW result,
              stage[j] \in WithPermit, FreePermit(j, to, result), UNCHANGED talk
       PROVE  FactsInv'
  <2>1. /\ stage'[j] = to /\ outcome' = [outcome EXCEPT ![j] = result]
        /\ \A i \in Jobs \ {j} :
              \/ stage'[i] = stage[i]
              \/ stage[i] = "permitQueued" /\ stage'[i] = "permitted"
    BY <1>10, FreePermitMoves
  <2>2. Others
    BY <1>10, <1>t, <2>1 DEF Bystands, talk
  <2>3. Told(j)'
    BY <1>10, <1>t, <2>1 DEF talk, Told, Unstarted, UnderWay, WithPermit, Cancelled
  <2>. QED
    BY <1>q, <2>2, <2>3
<1>11. CASE CallRefused(j)
  BY <1>10, <1>11 DEF CallRefused, WithPermit
<1>12. CASE CallEnds(j)
  BY <1>10, <1>12 DEF CallEnds, FetchRejects, BodyRejects, WithPermit
<1>13. ASSUME NEW result \in {"completed", "protocol"}, BodyRead(j, result)
       PROVE  FactsInv'
  BY <1>10, <1>13 DEF BodyRead, WithPermit
<1>14. ASSUME NEW saved \in BOOLEAN, Stored(j, saved)
       PROVE  FactsInv'
  <2>1. Others
    BY <1>14, <1>t DEF Stored, Bystands, talk
  <2>2. Told(j)'
    BY <1>14, <1>t DEF Stored, talk, Told, Unstarted, UnderWay, WithPermit, Cancelled
  <2>. QED
    BY <1>q, <2>1, <2>2
<1>15. CASE Recorded(j)
  <2>1. stage[j] \in WithSlot \ Armed /\ FreeSlot(j, "publishing")
        /\ stage[j] = "recording" /\ UNCHANGED <<outcome, terminals>>
        /\ facts' = [facts EXCEPT ![j] = @ \cup {Fact(outcome[j])}]
    BY <1>15 DEF Recorded, WithSlot, Armed, WithPermit
  <2>2. Others
    BY <1>4, <1>t, <2>1 DEF Bystands
  <2>3. Told(j)'
    BY <1>4, <1>t, <2>1 DEF Told, Unstarted, UnderWay, WithPermit, Cancelled
  <2>. QED
    BY <1>q, <2>2, <2>3
<1>16. CASE Published(j)
  <2>1. Others
    BY <1>16, <1>t DEF Published, Bystands
  <2>2. Told(j)'
    BY <1>16, <1>t DEF Published, Told, Unstarted, UnderWay, WithPermit, Cancelled
  <2>. QED
    BY <1>q, <2>1, <2>2
<1>17. CASE PublishRefused(j)
  <2>1. stage[j] = "publishing" /\ stage' = [stage EXCEPT ![j] = "rejected"]
        /\ UNCHANGED <<outcome, talk>>
    BY <1>17 DEF PublishRefused
  <2>2. Others /\ Told(j)'
    BY <1>s, <1>t, <2>1 DEF Told, Unstarted, UnderWay, WithPermit, Cancelled
  <2>. QED
    BY <1>q, <2>2
<1>18. CASE Throws(j)
  <2>1. stage[j] \in WithSlot \ Armed /\ FreeSlot(j, "rejected")
        /\ stage[j] \in Unstarted \cup UnderWay /\ UNCHANGED <<outcome, talk>>
    BY <1>18 DEF Throws, WithSlot, Armed, WithPermit, Unstarted, UnderWay
  <2>2. Others
    BY <1>4, <1>t, <2>1 DEF Bystands, talk
  <2>3. Told(j)'
    BY <1>4, <1>t, <2>1 DEF talk, Told, Unstarted, UnderWay, WithPermit, Cancelled
  <2>. QED
    BY <1>q, <2>2, <2>3
<1>. QED
  BY <1>1, <1>2, <1>3, <1>5, <1>6, <1>7, <1>8, <1>9, <1>11, <1>12, <1>13, <1>14,
     <1>15, <1>16, <1>17, <1>18 DEF Own, Network

LEMMA InitTold == Init => FactsInv
  BY DEF Init, FactsInv, Told, Unstarted, UnderWay, WithPermit, Cancelled

LEMMA ToldTells == FactsInv /\ TypeOK => TerminalTellsFacts
<1>. SUFFICES ASSUME FactsInv, TypeOK, NEW j \in Jobs
              PROVE  /\ terminals[j] = {"completed"} => facts[j] = {"started", "completed"}
                     /\ terminals[j] = {"failed"} =>
                           facts[j] \in {{}, {"started", "failed"},
                                         {"started", "cancelled"}}
                     /\ terminals[j] # {"completed", "failed"}
                     /\ stage[j] = "rejected" => terminals[j] = {}
                     /\ Cardinality(facts[j] \ {"started"}) <= 1
  BY DEF TerminalTellsFacts
<1>1. Told(j) /\ stage[j] \in Stages
  BY DEF FactsInv, TypeOK
<1>2. stage[j] \in Unstarted \cup UnderWay \cup {"publishing", "done", "rejected"}
  BY <1>1 DEF Stages, WithSlot, Unstarted, UnderWay
<1>3. Fact(outcome[j]) \in {"completed", "failed", "cancelled"}
  BY DEF Fact
<1>4. facts[j] \in {{}, {"started"}, {"started", Fact(outcome[j])}}
  BY <1>1, <1>2 DEF Told, Cancelled
<1>5. Cardinality(facts[j] \ {"started"}) <= 1
  <2>1. facts[j] \ {"started"} \in {{}, {Fact(outcome[j])}}
    BY <1>3, <1>4
  <2>2. Cardinality({}) = 0 /\ Cardinality({Fact(outcome[j])}) = 1
    BY FS_EmptySet, FS_Singleton
  <2>. QED
    BY <2>1, <2>2
<1>6. CASE stage[j] # "done"
  BY <1>1, <1>5, <1>6 DEF Told
<1>7. CASE stage[j] = "done"
  <2>1. CASE outcome[j] = "completed"
    BY <1>1, <1>5, <1>7, <2>1 DEF Told, Cancelled, Fact, Terminal
  <2>2. CASE outcome[j] # "completed"
    <3>1. terminals[j] = {"failed"} /\ Fact(outcome[j]) \in {"failed", "cancelled"}
      BY <1>1, <1>7, <2>2 DEF Told, Fact, Terminal
    <3>. QED
      BY <1>1, <1>5, <1>7, <3>1 DEF Told, Cancelled
  <2>. QED
    BY <2>1, <2>2
<1>. QED
  BY <1>6, <1>7

(* TerminalTellsFacts: the terminal a worker publishes for a job agrees    *)
(* with what its lifecycle sink was told, whatever aborts, fails or times  *)
(* out on the way (job-runner.ts).                                         *)
THEOREM TerminalsTell == Spec => []TerminalTellsFacts
<1>1. Spec => [](IInv /\ FactsInv)
  BY Inductive, InitTold, StepTold, PTL DEF Spec
<1>2. IInv /\ FactsInv => TerminalTellsFacts
  BY ToldTells DEF IInv
<1>. QED
  BY <1>1, <1>2, PTL

-----------------------------------------------------------------------------
(* Places in line.                                                         *)

OnceEach(sem) == \A i, k \in DOMAIN sem.queue : sem.queue[i] = sem.queue[k] => i = k
NoneBack(a, b) ==
    \A j \in Listed(a) \cap Listed(b) : Position(b, j) <= Position(a, j)

(* What a step does to a semaphore.                                        *)
Moved(a, b) == \/ b = a \/ b = Take(a) \/ b = Release(a)
               \/ \E j \in Jobs \ Listed(a) : b = Wait(a, j)
               \/ \E j \in Listed(a) : b = Leave(a, j)

LEMMA PositionIs ==
    ASSUME NEW sem, OnceEach(sem), NEW i \in DOMAIN sem.queue
    PROVE  Position(sem, sem.queue[i]) = i
  BY DEF Position, OnceEach

LEMMA MovedKeepsPlaces ==
    ASSUME NEW a \in SemaphoreState, OnceEach(a), NEW b, Moved(a, b)
    PROVE  NoneBack(a, b)
<1>. SUFFICES ASSUME NEW w \in Listed(a) \cap Listed(b)
              PROVE  Position(b, w) <= Position(a, w)
  BY DEF NoneBack
<1>. DEFINE q == a.queue  r == b.queue
<1>1. /\ q \in Seq(Jobs) /\ Len(q) \in Nat /\ DOMAIN q = 1 .. Len(q)
      /\ \A i, k \in DOMAIN q : q[i] = q[k] => i = k
  BY DEF SemaphoreState, OnceEach
<1>2. PICK p \in DOMAIN q : q[p] = w
  BY DEF Listed
<1>3. Position(a, w) = p /\ p \in Nat
  BY <1>1, <1>2, PositionIs
(* It is enough to find the one place of w in the new queue.               *)
<1>4. ASSUME NEW n \in DOMAIN r, r[n] = w, n <= p,
             \A i \in DOMAIN r : r[i] = w => i = n
      PROVE  Position(b, w) <= Position(a, w)
  BY <1>3, <1>4 DEF Position
<1>5. CASE r = q
  BY <1>1, <1>2, <1>4, <1>5
<1>6. CASE b = Release(a) /\ q # <<>>
  <2>1. /\ r = Tail(q) /\ DOMAIN r = 1 .. Len(q) - 1
        /\ \A i \in DOMAIN r : i + 1 \in DOMAIN q /\ r[i] = q[i + 1]
    BY <1>1, <1>6 DEF Release, SemaphoreState
  <2>2. PICK n \in DOMAIN r : r[n] = w
    BY DEF Listed
  <2>3. n + 1 = p /\ n \in Nat
    BY <1>1, <1>2, <2>1, <2>2
  <2>4. \A i \in DOMAIN r : r[i] = w => i = n
    <3>. SUFFICES ASSUME NEW i \in DOMAIN r, r[i] = w PROVE i = n
      OBVIOUS
    <3>1. i + 1 = p /\ i \in Nat
      BY <1>1, <1>2, <2>1
    <3>. QED
      BY <2>3, <3>1
  <2>. QED
    BY <1>4, <2>2, <2>3, <2>4
<1>7. ASSUME NEW j \in Jobs \ Listed(a), b = Wait(a, j)
      PROVE  Position(b, w) <= Position(a, w)
  <2>1. r = Append(q, j)
    BY <1>7 DEF Wait, SemaphoreState
  <2>2. DOMAIN r = 1 .. Len(q) + 1 /\ r[Len(q) + 1] = j
        /\ \A i \in DOMAIN q : i \in DOMAIN r /\ r[i] = q[i]
    BY <1>1, <2>1
  <2>3. w # j
    BY <1>7
  <2>4. \A i \in DOMAIN r : r[i] = w => i = p
    <3>. SUFFICES ASSUME NEW i \in DOMAIN r, r[i] = w PROVE i = p
      OBVIOUS
    <3>1. i \in DOMAIN q
      BY <1>1, <2>2, <2>3
    <3>. QED
      BY <1>1, <1>2, <2>2, <3>1
  <2>. QED
    BY <1>2, <1>3, <1>4, <2>2, <2>4
<1>8. ASSUME NEW j \in Listed(a), b = Leave(a, j)
      PROVE  Position(b, w) <= Position(a, w)
  <2>1. PICK d \in DOMAIN q : q[d] = j
    BY DEF Listed
  <2>2. Position(a, j) = d
    BY <1>1, <2>1, PositionIs
  <2>3. r = [i \in 1 .. Len(q) - 1 |-> IF i < d THEN q[i] ELSE q[i + 1]]
    BY <1>8, <2>2 DEF Leave, SemaphoreState
  <2>4. \A i \in DOMAIN r :
           /\ i < d => i \in DOMAIN q /\ r[i] = q[i]
           /\ ~(i < d) => i + 1 \in DOMAIN q /\ r[i] = q[i + 1]
           /\ i \in Nat
    BY <1>1, <2>1, <2>3
  <2>5. PICK n \in DOMAIN r : r[n] = w
    BY DEF Listed
  <2>6. ASSUME NEW i \in DOMAIN r, r[i] = w
        PROVE  i = IF p < d THEN p ELSE p - 1
    <3>1. CASE i < d
      <4>1. i = p
        BY <1>1, <1>2, <2>4, <2>6, <3>1
      <4>. QED
        BY <3>1, <4>1
    <3>2. CASE ~(i < d)
      <4>1. i + 1 = p /\ i \in Nat /\ d \in Nat
        BY <1>1, <1>2, <2>1, <2>4, <2>6, <3>2
      <4>. QED
        BY <3>2, <4>1
    <3>. QED
      BY <3>1, <3>2
  <2>7. n <= p
    BY <1>3, <2>5, <2>6
  <2>. HIDE DEF r, q
  <2>. QED
    BY <1>4, <2>5, <2>6, <2>7
<1>9. b = Take(a) => r = q
  BY DEF Take, SemaphoreState
<1>10. b = Release(a) /\ q = <<>> => r = q
  BY DEF Release, SemaphoreState
<1>. QED
  BY <1>5, <1>6, <1>7, <1>8, <1>9, <1>10 DEF Moved

(* A step that takes a place finds it free, or is not yet in line.         *)
LEMMA AcquireMoves ==
    ASSUME NEW sem, NEW j \in Jobs \ Listed(sem)
    PROVE  Moved(sem, Acquire(sem, j))
  BY DEF Acquire, Moved

(* Every step moves the slots and the permits of each key so.              *)
LEMMA StepMoves ==
    ASSUME IInv, [Next]_vars
    PROVE  Moved(slots, slots') /\ \A k \in Keys : Moved(permits[k], permits'[k])
<1>. DEFINE Fixed == permits' = permits
            Goal == /\ Moved(slots, slots')
                    /\ \A k \in Keys : Moved(permits[k], permits'[k])
<1>0. ASSUME UNCHANGED slots, UNCHANGED permits PROVE Goal
  BY <1>0 DEF Moved
<1>1. ASSUME Moved(slots, slots'), UNCHANGED permits PROVE Goal
  BY <1>1 DEF Moved
<1>2. ASSUME UNCHANGED slots, NEW c \in Keys, NEW to, Moved(permits[c], to),
             permits' = [permits EXCEPT ![c] = to]
      PROVE  Goal
  <2>1. \A k \in Keys : permits'[k] = IF k = c THEN to ELSE permits[k]
    BY <1>2 DEF IInv, TypeOK
  <2>. QED
    BY <1>2, <2>1 DEF Moved
<1>3. CASE UNCHANGED vars
  BY <1>0, <1>3 DEF vars
<1>. SUFFICES ASSUME NEW j \in Jobs,
                     \/ Submit(j) \/ Abort(j) \/ TimerFires(j)
                     \/ Own(j) \/ Network(j)
              PROVE  Goal
  BY <1>3 DEF Next
<1>4. /\ stage \in [Jobs -> Stages] /\ key[j] \in Keys
      /\ Listed(slots) = InStages({"queued"})
      /\ \A k \in Keys : Listed(permits[k]) = Calling(k, {"permitQueued"})
  BY DEF IInv, TypeOK, SlotsExact, PermitsExact, Balanced
<1>5. CASE Submit(j)
  <2>1. CASE j \in aborted
    BY <1>0, <1>5, <2>1 DEF Submit
  <2>2. CASE j \notin aborted
    <3>1. j \notin Listed(slots)
      BY <1>4, <1>5 DEF Submit, InStages
    <3>. QED
      BY <1>1, <1>5, <2>2, <3>1, AcquireMoves DEF Submit
  <2>. QED
    BY <2>1, <2>2
<1>6. CASE Abort(j)
  <2>1. CASE AbortQueued(j)
    <3>1. j \in Listed(slots)
      BY <1>4, <2>1 DEF AbortQueued, InStages
    <3>2. Moved(slots, Leave(slots, j))
      BY <3>1 DEF Moved
    <3>. QED
      BY <1>1, <2>1, <3>2 DEF AbortQueued
  <2>2. CASE AbortPermitQueued(j)
    <3>1. j \in Listed(permits[key[j]])
      BY <1>4, <2>2 DEF AbortPermitQueued, Calling
    <3>2. Moved(permits[key[j]], Leave(permits[key[j]], j))
      BY <3>1 DEF Moved
    <3>. QED
      BY <1>2, <1>4, <2>2, <3>2 DEF AbortPermitQueued
  <2>3. CASE AbortElsewhere(j)
    BY <1>0, <2>3 DEF AbortElsewhere
  <2>. QED
    BY <1>6, <2>1, <2>2, <2>3 DEF Abort
<1>7. ASSUME NEW to, FreeSlot(j, to), UNCHANGED permits PROVE Goal
  BY <1>1, <1>7 DEF FreeSlot, Moved
<1>8. ASSUME NEW to, NEW result, FreePermit(j, to, result), UNCHANGED slots
      PROVE  Goal
  <2>1. Moved(permits[key[j]], Release(permits[key[j]]))
    BY DEF Moved
  <2>. QED
    BY <1>2, <1>4, <1>8, <2>1 DEF FreePermit
<1>9. CASE Prepared(j)
  <2>1. CASE j \in aborted
    BY <1>0, <1>9, <2>1 DEF Prepared
  <2>2. CASE j \notin aborted
    <3>1. j \notin Listed(permits[key[j]])
      BY <1>4, <1>9 DEF Prepared, Calling
    <3>2. Moved(permits[key[j]], Acquire(permits[key[j]], j))
      BY <3>1, AcquireMoves
    <3>. QED
      BY <1>2, <1>4, <1>9, <2>2, <3>2 DEF Prepared
  <2>. QED
    BY <2>1, <2>2
<1>10. CASE Admit(j)
  <2>1. CASE j \in aborted
    BY <1>7, <1>10, <2>1 DEF Admit
  <2>2. CASE j \notin aborted
    BY <1>0, <1>10, <2>2 DEF Admit
  <2>. QED
    BY <2>1, <2>2
<1>11. CASE Recorded(j) \/ Throws(j)
  BY <1>7, <1>11 DEF Recorded, Throws
<1>12. CASE CallRefused(j) \/ CallEnds(j)
  BY <1>8, <1>12 DEF CallRefused, CallEnds, FetchRejects, BodyRejects
<1>13. ASSUME NEW result \in {"completed", "protocol"}, BodyRead(j, result)
       PROVE  Goal
  BY <1>8, <1>13 DEF BodyRead
<1>14. CASE \/ TimerFires(j) \/ Started(j) \/ PrepareFails(j) \/ CallStarts(j)
            \/ Responds(j) \/ Published(j) \/ PublishRefused(j)
            \/ \E saved \in BOOLEAN : Stored(j, saved)
  BY <1>0, <1>14 DEF TimerFires, Started, PrepareFails, CallStarts, Responds,
     Published, PublishRefused, Stored
<1>. QED
  BY <1>5, <1>6, <1>9, <1>10, <1>11, <1>12, <1>13, <1>14 DEF Own, Network

(* PlacesKept: whoever waits for a slot or a permit is never set back,     *)
(* neither by those who come later nor by those who leave                  *)
(* (concurrency/semaphore.ts).                                             *)
THEOREM PlacesAreKept == Spec => PlacesKept
<1>. DEFINE Kept == /\ NoneBack(slots, slots')
                    /\ \A k \in Keys : NoneBack(permits[k], permits'[k])
<1>1. IInv /\ [Next]_vars => [Kept]_vars
  <2>. SUFFICES ASSUME IInv, [Next]_vars PROVE Kept
    OBVIOUS
  <2>1. /\ slots \in SemaphoreState /\ OnceEach(slots)
        /\ \A k \in Keys : permits[k] \in SemaphoreState /\ OnceEach(permits[k])
    BY DEF IInv, TypeOK, SlotsExact, PermitsExact, Balanced, OnceEach
  <2>. QED
    BY <2>1, StepMoves, MovedKeepsPlaces
<1>2. Kept <=> /\ \A j \in Listed(slots) \cap Listed(slots)' :
                     Position(slots, j)' <= Position(slots, j)
               /\ \A k \in Keys : \A j \in Listed(permits[k]) \cap Listed(permits[k])' :
                     Position(permits[k], j)' <= Position(permits[k], j)
  BY DEF NoneBack, Listed, Position
<1>. QED
  BY <1>1, <1>2, Inductive, PTL DEF Spec, PlacesKept

-----------------------------------------------------------------------------
(* The first of two signals.                                               *)

(* Before the timeout is armed nobody has signalled the call; until a call *)
(* has ended it has no outcome; and what a timeout ended is not cancelled. *)
Unsignalled == {"idle", "queued", "granted", "starting", "preparing"}
Signalled(j) == /\ stage[j] \in Unsignalled => cause[j] = "none"
                /\ stage[j] \in Unsignalled \cup Armed => outcome[j] = "none"
                /\ cause[j] = "timeout" => outcome[j] # "cancelled"
SignalInv == \A j \in Jobs : Signalled(j)

LEMMA InitSignalled == Init => SignalInv
  BY DEF Init, SignalInv, Signalled

(* Every step keeps this, and no step takes a timeout back.                *)
LEMMA StepSignalled ==
    ASSUME IInv, SignalInv, [Next]_vars
    PROVE  SignalInv' /\ \A i \in Jobs : cause[i] = "timeout" => cause'[i] = "timeout"
<1>. DEFINE Good(i) == Signalled(i)' /\ (cause[i] = "timeout" => cause'[i] = "timeout")
<1>0. CASE UNCHANGED vars
  BY <1>0 DEF vars, SignalInv, Signalled
<1>. SUFFICES ASSUME NEW j \in Jobs,
                     \/ Submit(j) \/ Abort(j) \/ TimerFires(j)
                     \/ Own(j) \/ Network(j)
              PROVE  \A i \in Jobs : Good(i)
  BY <1>0 DEF Next, SignalInv
<1>1. /\ stage \in [Jobs -> Stages] /\ outcome \in [Jobs -> Outcomes]
      /\ cause \in [Jobs -> Causes] /\ \A i \in Jobs : Signalled(i)
  BY DEF IInv, TypeOK, SignalInv
<1>2. ASSUME NEW i \in Jobs, i # j,
             \/ stage'[i] = stage[i]
             \/ stage[i] = "queued" /\ stage'[i] = "granted"
             \/ stage[i] = "permitQueued" /\ stage'[i] = "permitted",
             outcome'[i] = outcome[i], cause'[i] = cause[i]
      PROVE  Good(i)
  BY <1>1, <1>2 DEF Signalled, Unsignalled, Armed, WithPermit
<1>3. ASSUME NEW to, stage[j] \in WithSlot \ Armed, FreeSlot(j, to)
      PROVE  /\ stage'[j] = to
             /\ \A i \in Jobs \ {j} : \/ stage'[i] = stage[i]
                                      \/ stage[i] = "queued" /\ stage'[i] = "granted"
  BY <1>3, FreeSlotMoves
<1>4. ASSUME NEW to \in {"recording", "storing"}, NEW result,
             stage[j] \in WithPermit, FreePermit(j, to, result), UNCHANGED cause,
             result = "cancelled" => cause[j] # "timeout"
      PROVE  \A i \in Jobs : Good(i)
  <2>1. /\ stage'[j] = to /\ outcome' = [outcome EXCEPT ![j] = result]
        /\ \A i \in Jobs \ {j} :
              \/ stage'[i] = stage[i]
              \/ stage[i] = "permitQueued" /\ stage'[i] = "permitted"
    BY <1>4, FreePermitMoves
  <2>2. Good(j)
    BY <1>1, <1>4, <2>1 DEF Signalled, Unsignalled, Armed, WithPermit
  <2>3. \A i \in Jobs \ {j} : Good(i)
    BY <1>1, <1>2, <1>4, <2>1
  <2>. QED
    BY <2>2, <2>3
<1>. DEFINE Others == \A i \in Jobs \ {j} : /\ stage'[i] = stage[i]
                                            /\ outcome'[i] = outcome[i]
                                            /\ cause'[i] = cause[i]
<1>5. ASSUME Others, Good(j) PROVE \A i \in Jobs : Good(i)
  BY <1>2, <1>5
<1>6. CASE Submit(j)
  <2>1. Others /\ Good(j)
    BY <1>1, <1>6 DEF Submit, Signalled, Unsignalled, Armed, WithPermit
  <2>. QED
    BY <1>5, <2>1
<1>7. CASE Abort(j)
  <2>1. CASE AbortQueued(j)
    <3>1. Others /\ Good(j)
      BY <1>1, <2>1 DEF AbortQueued, Signalled, Unsignalled, Armed, WithPermit
    <3>. QED
      BY <1>5, <3>1
  <2>2. CASE AbortPermitQueued(j)
    <3>1. Others /\ Good(j)
      BY <1>1, <2>2 DEF AbortPermitQueued, Signalled, Unsignalled, Armed, WithPermit, Causes
    <3>. QED
      BY <1>5, <3>1
  <2>3. CASE AbortElsewhere(j)
    <3>1. Others /\ Good(j)
      BY <1>1, <2>3 DEF AbortElsewhere, Signalled, Unsignalled, Armed, WithPermit
    <3>. QED
      BY <1>5, <3>1
  <2>. QED
    BY <1>7, <2>1, <2>2, <2>3 DEF Abort
<1>8. CASE TimerFires(j)
  <2>1. Others /\ Good(j)
    BY <1>1, <1>8 DEF TimerFires, Signalled, Unsignalled, Armed, WithPermit
  <2>. QED
    BY <1>5, <2>1
<1>9. CASE Admit(j)
  <2>1. CASE j \in aborted
    <3>1. /\ stage[j] \in WithSlot \ Armed /\ FreeSlot(j, "publishing")
          /\ outcome' = [outcome EXCEPT ![j] = "cancelled"] /\ UNCHANGED cause
          /\ stage[j] = "granted"
      BY <1>9, <2>1 DEF Admit, WithSlot, Armed, WithPermit
    <3>2. Good(j)
      BY <1>1, <1>3, <3>1 DEF Signalled, Unsignalled, Armed, WithPermit
    <3>3. \A i \in Jobs \ {j} : Good(i)
      BY <1>1, <1>2, <1>3, <3>1
    <3>. QED
      BY <3>2, <3>3
  <2>2. CASE j \notin aborted
    <3>1. Others /\ Good(j)
      BY <1>1, <1>9, <2>2 DEF Admit, Signalled, Unsignalled, Armed, WithPermit
    <3>. QED
      BY <1>5, <3>1
  <2>. QED
    BY <2>1, <2>2
<1>10. CASE Prepared(j)
  <2>1. Others /\ Good(j)
    BY <1>1, <1>10 DEF Prepared, Signalled, Unsignalled, Armed, WithPermit
  <2>. QED
    BY <1>5, <2>1
<1>11. CASE Started(j) \/ PrepareFails(j) \/ CallStarts(j) \/ Responds(j)
            \/ Published(j) \/ PublishRefused(j)
  <2>1. Others /\ Good(j)
    BY <1>1, <1>11 DEF Started, PrepareFails, CallStarts, Responds, Published,
       PublishRefused, Signalled, Unsignalled, Armed, WithPermit
  <2>. QED
    BY <1>5, <2>1
<1>12. ASSUME NEW saved \in BOOLEAN, Stored(j, saved) PROVE \A i \in Jobs : Good(i)
  <2>1. Others /\ Good(j)
    BY <1>1, <1>12 DEF Stored, Signalled, Unsignalled, Armed, WithPermit
  <2>. QED
    BY <1>5, <2>1
<1>13. CASE CallRefused(j)
  BY <1>4, <1>13 DEF CallRefused, WithPermit
<1>14. CASE FetchRejects(j)
  <2>1. Classified(j) = "cancelled" => cause[j] # "timeout"
    BY DEF Classified
  <2>. QED
    BY <1>4, <1>14, <2>1 DEF FetchRejects, WithPermit
<1>15. CASE BodyRejects(j)
  BY <1>4, <1>15 DEF BodyRejects, WithPermit
<1>16. ASSUME NEW result \in {"completed", "protocol"}, BodyRead(j, result)
       PROVE  \A i \in Jobs : Good(i)
  BY <1>4, <1>16 DEF BodyRead, WithPermit
<1>17. CASE Recorded(j) \/ Throws(j)
  <2>1. PICK to \in {"publishing", "rejected"} : FreeSlot(j, to)
    BY <1>17 DEF Recorded, Throws
  <2>2. stage[j] \in WithSlot \ Armed /\ UNCHANGED <<outcome, cause>>
    BY <1>17 DEF Recorded, Throws, WithSlot, Armed, WithPermit
  <2>3. Good(j)
    BY <1>1, <1>3, <2>1, <2>2 DEF Signalled, Unsignalled, Armed, WithPermit
  <2>4. \A i \in Jobs \ {j} : Good(i)
    BY <1>1, <1>2, <1>3, <2>1, <2>2
  <2>. QED
    BY <2>3, <2>4
<1>. QED
  BY <1>6, <1>7, <1>8, <1>9, <1>10, <1>11, <1>12, <1>13, <1>14, <1>15, <1>16, <1>17
     DEF Own, Network, CallEnds

(* FirstSignalWins: once the timeout was the first to abort a call, the    *)
(* job is never reported as cancelled, whatever its caller does then       *)
(* (combine-for-protocol-run.ts:12-15).                                    *)
THEOREM FirstSignalDecides == Spec => FirstSignalWins
<1>. SUFFICES ASSUME NEW j \in Jobs
              PROVE  Spec => [](cause[j] = "timeout" => [](outcome[j] # "cancelled"))
  BY DEF FirstSignalWins
<1>. DEFINE P == cause[j] = "timeout"
<1>1. Spec => [](IInv /\ SignalInv)
  BY Inductive, InitSignalled, StepSignalled, PTL DEF Spec
<1>2. IInv /\ SignalInv /\ [Next]_vars => (P => P')
  BY StepSignalled
<1>3. SignalInv /\ P => outcome[j] # "cancelled"
  BY DEF SignalInv, Signalled
<1>. QED
  BY <1>1, <1>2, <1>3, PTL DEF Spec

=============================================================================
