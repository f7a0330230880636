-------------------------- MODULE ObservationProofs --------------------------
(***************************************************************************)
(* What the outside sees of a run is true: proofs about RunProjection, for *)
(* every flow, any number of requests, listeners and failing calls; and    *)
(* about Workbench, the page that shows it, for any tabs, runs and events. *)
(*                                                                         *)
(* The invariant has five parts.  The events come in the order of the      *)
(* engine, and the last one ends the run (EventsInOrder).  The shadow says *)
(* what they say (ShadowIsTrue).  The flush under way will have shown the  *)
(* shadow as it was when nothing has come in meanwhile, and a flush that   *)
(* is to end the run has nothing to come (FlushIsTrue, RowsInOrder).  A    *)
(* wait has registered before it read, so that whoever has not seen the    *)
(* end will be told of it (WaitIsTrue).  And an event of the tap is at the *)
(* same sink as one that came later, before it in the queue, or further on *)
(* (TapIsTrue): so a listener is given them one after the other, although  *)
(* the tap handles them all at once.                                       *)
(*                                                                         *)
(* Of the page there are two.  The feed: an event that was sent is kept,   *)
(* waits or was pushed out, and what is kept of a run is what is kept,     *)
(* restricted to the run (FeedInv).  The desk: what is stored is as right  *)
(* as what is shown (PanelsInv), for it may come back at a reload.         *)
(***************************************************************************)
EXTENDS RunProjection, Workbench, InductionFacts, FiniteSetTheorems, SequenceTheorems,
        WellFoundedInduction, TLAPS

-----------------------------------------------------------------------------
Ends == {"run.denied", "run.completed", "run.failed"}
Final == {"success", "failure"}
InIndex(s) == \E k \in DOMAIN index : index[k].step = s

(* The events come in the order in which the engine emits them.            *)
EventsInOrder ==
    /\ request # "emitted" => published = <<>>
    /\ \A i \in DOMAIN published : published[i].type \in Ends => i = Len(published)
    /\ \A s \in Steps : EventsOf(s) # {} => Emitted("run.started")
    /\ IsOver => \A s \in Steps : ~InProgress(s)

(* The shadow of the run says what its events say.                         *)
ShadowIsTrue ==
    /\ status = "completed" <=> Emitted("run.completed")
    /\ status = "failed" <=> Emitted("run.failed") \/ Emitted("run.denied")
    /\ \A s \in Steps : EventsOf(s) # {} <=> InIndex(s)
    /\ \A j, k \in DOMAIN index : index[j].step = index[k].step => j = k
    /\ \A k \in DOMAIN index : \A s \in Steps :
          index[k].step = s => index[k].status = Truth(s)

IsShown(k) == stepRow[index[k].step] = index[k].status

(* The flush under way will have shown the shadow as it was when nothing   *)
(* came in meanwhile.                                                      *)
FlushIsTrue ==
    /\ flush.at = "idle" => flush = Idle /\ ~dirty /\ \A k \in DOMAIN index : IsShown(k)
    /\ flush.at = "idle" /\ status \in Terminal => row = status
    /\ flush.at # "idle" /\ ~dirty => flush.status = status
    /\ flush.status \in Terminal => ~dirty
    /\ flush.at = "row" => flush.write \in RunStatus \ Terminal
    /\ flush.at = "step" =>
          /\ flush.k \in 1 .. flush.n /\ rowWritten /\ flush.write \in StepStatus
          /\ flush.write \in Final => flush.write = index[flush.k].status
          /\ ~dirty => /\ flush.n = Len(index) /\ flush.write = index[flush.k].status
                       /\ \A j \in 1 .. flush.k - 1 : IsShown(j)
    /\ flush.at \in {"final", "settle"} =>
          /\ flush.status \in Terminal /\ rowWritten /\ \A k \in DOMAIN index : IsShown(k)
          /\ flush.write = flush.status
    /\ flush.at = "settle" => row = flush.status

RowsInOrder ==
    /\ rowWritten => row # "none"
    /\ row = "none" => \A s \in Steps : stepRow[s] = "none"
    /\ \A s \in Steps : /\ stepRow[s] # "none" => EventsOf(s) # {}
                        /\ stepRow[s] \in Final => stepRow[s] = Truth(s)
    /\ row \in Terminal => /\ row = status /\ ~dirty /\ rowWritten /\ flush.at # "row"
                           /\ \A k \in DOMAIN index : IsShown(k)

(* The score is looked for when an eval run has completed.                 *)
JudgingIsTrue ==
    /\ judging.known => around.isEval
    /\ judging.event # 0 => around.isEval /\ published[judging.event].type = "run.completed"
    /\ ScoreIsOfJudge

(* Who waits has registered before it read, and has seen no end.           *)
WaitIsTrue(w) ==
    /\ wait[w].resolved => row \in Terminal
    /\ wait[w].at \in {"rereading", "reread"} => row \in Terminal
    /\ wait[w].at = "reread" => wait[w].got = row
    /\ wait[w].at = "read" /\ wait[w].got \in Terminal => wait[w].got = row
    /\ wait[w].at \in {"outputs", "steps"} => row = "completed"
    /\ wait[w].at # "unfinished"
    /\ wait[w].at = "failed" => status = "failed"
    /\ wait[w].at = "completed" => /\ status = "completed"
                                   /\ \A s \in Steps : wait[w].steps[s] = Truth(s)
    /\ wait[w].at \in {"reading", "read", "waiting"} => wait[w].resolved \/ w \in registered
    /\ /\ wait[w].at = "waiting" \/ (wait[w].at = "read" /\ wait[w].got \notin Terminal)
       /\ row \in Terminal
       => wait[w].resolved \/ flush.at # "idle"
    /\ w \in registered => wait[w].at \in Awaits \ {"none"}

(* The tap: an event is at the same sink as one that came later, and before*)
(* it in the queue, or further.                                            *)
QueueOrder(q) ==
    \A a, b \in DOMAIN q :
        /\ q[a][1] < q[b][1] => q[a][2] > q[b][2] \/ (q[a][2] = q[b][2] /\ a < b)
        /\ q[a][1] = q[b][1] => a = b
InTicks(i) == \E x \in ToSet(ticks) : x[1] = i
Pending(i) == InTicks(i) \/ judging.event = i
TicksInOrder ==
    /\ QueueOrder(ticks)
    /\ \A x \in ToSet(ticks) :
          /\ x[2] > EvalSink => sinks[x[2] - EvalSink] \notin gone
          /\ x[1] # judging.event
          /\ \A i \in x[1] .. Len(published) : Pending(i)

(* A listener that has seen an event has seen none that is yet to come to  *)
(* it, and all the later ones are.                                         *)
LastSeen(l) == seen[l][Len(seen[l])]
IsUpToDate(m, l) ==
    /\ LastSeen(l) <= Len(published)
    /\ \A i \in LastSeen(l) + 1 .. Len(published) : Pending(i)
    /\ \A x \in ToSet(ticks) : x[1] > LastSeen(l) <=> x[2] < EvalSink + m
    /\ judging.event # 0 => judging.event > LastSeen(l)
TapIsTrue ==
    /\ TicksInOrder
    /\ \A m, n \in DOMAIN sinks : sinks[m] = sinks[n] => m = n
    /\ \A l \in Listeners : seen[l] # <<>> => l \in ToSet(sinks)
    /\ \A m \in DOMAIN sinks : \A l \in Listeners \ gone :
          sinks[m] = l /\ seen[l] # <<>> => IsUpToDate(m, l)
    /\ SeenInOrder

-----------------------------------------------------------------------------
(* What an event more changes.                                             *)
LEMMA MoreEvents ==
    ASSUME NEW e, published \in Seq(Events), published' = Append(published, e)
    PROVE  /\ Len(published') = Len(published) + 1
           /\ \A i \in DOMAIN published : published'[i] = published[i] /\ i \in DOMAIN published'
           /\ published'[Len(published')] = e
           /\ DOMAIN published' = 1 .. Len(published) + 1
           /\ \A type : Emitted(type)' <=> Emitted(type) \/ e.type = type
           /\ \A s : EventsOf(s)' = IF e.step = s THEN EventsOf(s) \cup {e} ELSE EventsOf(s)
<1>1. /\ Len(published') = Len(published) + 1 /\ Len(published) \in Nat
      /\ \A i \in 1 .. Len(published) : published'[i] = published[i]
      /\ published'[Len(published) + 1] = e
      /\ DOMAIN published = 1 .. Len(published) /\ DOMAIN published' = 1 .. Len(published) + 1
  <2>1. \E T : published \in Seq(T) /\ e \in T
    <3>1. published \in Seq(Events \cup {e})
      OBVIOUS
    <3>. QED
      BY <3>1
  <2>. QED
    BY <2>1
<1>2. ToSet(published') = ToSet(published) \cup {e}
  BY <1>1 DEF ToSet
<1>. QED
  BY <1>1, <1>2 DEF Emitted, EventsOf

(* What kinds of events there are, and which of them are about a step.     *)
LEMMA EventKinds ==
    /\ \A type : RunEvent(type).type = type /\ RunEvent(type).step = NoStep
    /\ \A type, s, st : /\ StepEvent(type, s, st).type = type
                        /\ StepEvent(type, s, st).step = s /\ StepEvent(type, s, st).status = st
    /\ \A e \in Events : /\ e.step # NoStep => e.step \in Steps /\ e.status \in StepStatus
                         /\ e.step = NoStep <=> e.type \in {"run.requested", "run.started"} \cup Ends
BY JudgeIsNoStep DEF RunEvent, StepEvent, Events, Ends

Ongoing(S) == S # {} /\ \A e \in S : e.status = "started"
Told(S) == IF S = {} THEN "none" ELSE IF Ongoing(S) THEN "started"
           ELSE (CHOOSE e \in S : e.status # "started").status
LEMMA TruthIsTold ==
    /\ \A s : Truth(s) = Told(EventsOf(s)) /\ (InProgress(s) <=> Ongoing(EventsOf(s)))
    /\ \A s : Truth(s)' = Told(EventsOf(s)') /\ (InProgress(s)' <=> Ongoing(EventsOf(s)'))
BY DEF Truth, Told, Ongoing, InProgress

(* What the events say of a step, and when they say nothing or not all.    *)
LEMMA TruthKinds ==
    ASSUME published \in Seq(Events), NEW s \in Steps
    PROVE  /\ EventsOf(s) = {} <=> Truth(s) = "none"
           /\ InProgress(s) <=> Truth(s) = "started"
           /\ EventsOf(s) # {} => Truth(s) \in StepStatus
<1>1. \A e \in EventsOf(s) : e.status \in StepStatus
  <2>1. \A e \in EventsOf(s) : e \in Events /\ e.step = s
    BY DEF EventsOf, ToSet
  <2>. QED
    BY <2>1, EventKinds, JudgeIsNoStep
<1>2. CASE EventsOf(s) # {} /\ ~InProgress(s)
  <2>1. \E e \in EventsOf(s) : e.status # "started"
    BY <1>2 DEF InProgress
  <2>2. PICK e \in EventsOf(s) : /\ e.status # "started"
                                 /\ e = CHOOSE x \in EventsOf(s) : x.status # "started"
    BY <2>1
  <2>3. Truth(s) = e.status
    BY <1>2, <2>2 DEF Truth
  <2>. QED
    BY <1>1, <1>2, <2>2, <2>3 DEF StepStatus
<1>3. CASE EventsOf(s) = {} \/ InProgress(s)
  BY <1>3 DEF Truth, InProgress, StepStatus
<1>. QED
  BY <1>2, <1>3

(* What an event says of its step, and of no other.                        *)
LEMMA StepIsTold ==
    ASSUME published \in Seq(Events), NEW s \in Steps, NEW e, e.step = s,
           published' = Append(published, e), e.status \in StepStatus,
           IF e.status = "started" THEN EventsOf(s) = {} ELSE EventsOf(s) = {} \/ InProgress(s)
    PROVE  /\ Truth(s)' = e.status /\ EventsOf(s)' # {}
           /\ \A q \in Steps \ {s} : Truth(q)' = Truth(q) /\ EventsOf(q)' = EventsOf(q)
<1>1. /\ EventsOf(s)' = EventsOf(s) \cup {e}
      /\ \A q \in Steps \ {s} : EventsOf(q)' = EventsOf(q)
  BY MoreEvents
<1>2. \A q \in Steps \ {s} : Truth(q)' = Truth(q)
  BY <1>1, TruthIsTold
<1>3. Told(EventsOf(s) \cup {e}) = e.status
  <2>1. CASE e.status = "started"
    BY <2>1 DEF Told, Ongoing
  <2>2. CASE e.status # "started"
    <3>1. \A x \in EventsOf(s) \cup {e} : x.status # "started" => x = e
      BY <2>2 DEF InProgress
    <3>2. (CHOOSE x \in EventsOf(s) \cup {e} : x.status # "started") = e
      BY <2>2, <3>1
    <3>3. ~Ongoing(EventsOf(s) \cup {e})
      BY <2>2 DEF Ongoing
    <3>. QED
      BY <3>2, <3>3 DEF Told
  <2>. QED
    BY <2>1, <2>2
<1>. QED
  BY <1>1, <1>2, <1>3, TruthIsTold

(* An event of the run says nothing of its steps.                          *)
LEMMA NoStepTold ==
    ASSUME published \in Seq(Events), NEW e, e.step = NoStep,
           published' = Append(published, e)
    PROVE  \A q \in Steps : /\ Truth(q)' = Truth(q) /\ EventsOf(q)' = EventsOf(q)
                            /\ (InProgress(q)' <=> InProgress(q))
<1>1. \A q \in Steps : EventsOf(q)' = EventsOf(q)
  <2>1. \A q : EventsOf(q)' = IF e.step = q THEN EventsOf(q) \cup {e} ELSE EventsOf(q)
    BY MoreEvents
  <2>. QED
    BY <2>1, JudgeIsNoStep
<1>. QED
  BY <1>1, TruthIsTold

(* What the events say changes with the events only.                       *)
LEMMA NothingTold ==
    ASSUME published' = published
    PROVE  /\ \A q : Truth(q)' = Truth(q) /\ EventsOf(q)' = EventsOf(q) /\ (InProgress(q)' <=> InProgress(q))
           /\ \A type : (Emitted(type)' <=> Emitted(type))
           /\ (IsOver' <=> IsOver)
BY DEF Truth, InProgress, EventsOf, Emitted, IsOver

Entry == [step : Steps, status : StepStatus]
Entered(ix) == {entry.step : entry \in ToSet(ix)}
AtMostOnce(ix) == \A j, k \in DOMAIN ix : ix[j].step = ix[k].step => j = k

(* The elements of a sequence.                                             *)
LEMMA SeqSplit ==
    ASSUME NEW T, NEW q \in Seq(T)
    PROVE  /\ Len(q) \in Nat /\ DOMAIN q = 1 .. Len(q) /\ \A k \in DOMAIN q : q[k] \in T
OBVIOUS

(* The shadow after an event of a step.                                    *)
IsUpdate(ix, e, r) ==
    /\ r \in Seq(Entry) /\ DOMAIN ix \subseteq DOMAIN r /\ Len(ix) <= Len(r)
    /\ \A k \in DOMAIN ix : r[k].step = ix[k].step /\ (r[k].step # e.step => r[k] = ix[k])
    /\ \A k \in DOMAIN r : r[k].step = e.step => r[k].status = e.status
    /\ \A k \in DOMAIN r \ DOMAIN ix : r[k].step = e.step
    /\ \E k \in DOMAIN r : r[k].step = e.step
    /\ AtMostOnce(r) /\ Cardinality(Entered(r)) = Len(r) /\ IsFiniteSet(Entered(r))

(* An event of a step updates its entry, or adds one at the end.           *)
LEMMA IndexAfter ==
    ASSUME NEW ix \in Seq(Entry), NEW e, e.step \in Steps, e.status \in StepStatus,
           AtMostOnce(ix), Cardinality(Entered(ix)) = Len(ix), IsFiniteSet(Entered(ix))
    PROVE  \E r : r = UpdatedIndex(ix, e) /\ IsUpdate(ix, e, r)
<1>. DEFINE r == UpdatedIndex(ix, e)
<1>1. /\ r \in Seq(Entry) /\ DOMAIN ix \subseteq DOMAIN r /\ Len(ix) <= Len(r)
      /\ \A k \in DOMAIN ix : /\ r[k].step = ix[k].step
                              /\ r[k].step # e.step => r[k] = ix[k]
      /\ \A k \in DOMAIN r : r[k].step = e.step => r[k].status = e.status
      /\ \A k \in DOMAIN r \ DOMAIN ix : r[k].step = e.step
      /\ \E k \in DOMAIN r : r[k].step = e.step
      /\ AtMostOnce(r) /\ Cardinality(Entered(r)) = Len(r) /\ IsFiniteSet(Entered(r))
  <2>0. /\ Len(ix) \in Nat /\ DOMAIN ix = 1 .. Len(ix) /\ \A k \in DOMAIN ix : ix[k] \in Entry
        /\ e.step # NoStep
    BY SeqSplit, JudgeIsNoStep
  <2>1. CASE \E k \in DOMAIN ix : ix[k].step = e.step
    <3>1. r = [k \in DOMAIN ix |-> IF ix[k].step = e.step THEN [ix[k] EXCEPT !.status = e.status]
                                                          ELSE ix[k]]
      BY <2>0, <2>1 DEF UpdatedIndex
    <3>2. /\ DOMAIN r = DOMAIN ix
          /\ \A k \in DOMAIN ix : /\ r[k] \in Entry /\ r[k].step = ix[k].step
                                  /\ r[k].step = e.step => r[k].status = e.status
                                  /\ r[k].step # e.step => r[k] = ix[k]
      BY <2>0, <3>1 DEF Entry
    <3>3. r \in Seq(Entry) /\ Len(r) = Len(ix)
      <4>1. r \in [1 .. Len(ix) -> Entry]
        BY <2>0, <3>1, <3>2
      <4>. QED
        BY <2>0, <4>1, SeqDef
    <3>4. Entered(r) = Entered(ix)
      BY <3>2 DEF Entered, ToSet
    <3>5. AtMostOnce(r)
      BY <3>2 DEF AtMostOnce
    <3>. QED
      BY <2>0, <2>1, <3>2, <3>3, <3>4, <3>5
  <2>2. CASE \A k \in DOMAIN ix : ix[k].step # e.step
    <3>. DEFINE x == [step |-> e.step, status |-> e.status]
    <3>1. r = Append(ix, x) /\ x \in Entry /\ x.step = e.step /\ x.status = e.status
      BY <2>0, <2>2 DEF UpdatedIndex, Entry
    <3>. HIDE DEF x
    <3>2. /\ r \in Seq(Entry) /\ Len(r) = Len(ix) + 1 /\ DOMAIN r = 1 .. Len(ix) + 1
          /\ \A k \in DOMAIN ix : r[k] = ix[k]
          /\ r[Len(ix) + 1] = x
      BY <2>0, <3>1
    <3>3. Entered(r) = Entered(ix) \cup {e.step}
      <4>1. ToSet(r) = ToSet(ix) \cup {x}
        BY <2>0, <3>2 DEF ToSet
      <4>. QED
        BY <3>1, <4>1 DEF Entered
    <3>4. e.step \notin Entered(ix)
      BY <2>2 DEF Entered, ToSet
    <3>5. Cardinality(Entered(r)) = Len(r) /\ IsFiniteSet(Entered(r))
      <4>1. /\ IsFiniteSet(Entered(ix) \cup {e.step})
            /\ Cardinality(Entered(ix) \cup {e.step}) = Cardinality(Entered(ix)) + 1
        BY <3>4, FS_AddElement
      <4>. QED
        BY <3>2, <3>3, <4>1
    <3>6. AtMostOnce(r)
      BY <2>0, <2>2, <3>1, <3>2 DEF AtMostOnce
    <3>. QED
      BY <2>0, <2>2, <3>1, <3>2, <3>5, <3>6
  <2>. QED
    BY <2>1, <2>2
<1>. HIDE DEF r
<1>2. r = UpdatedIndex(ix, e)
  BY DEF r
<1>3. IsUpdate(ix, e, r)
  BY <1>1 DEF IsUpdate
<1>. QED
  BY <1>2, <1>3

(* The steps that have an entry are finitely many.                         *)
LEMMA EnteredFinite ==
    ASSUME NEW ix \in Seq(Entry)
    PROVE  IsFiniteSet(Entered(ix))
<1>. DEFINE D == 1 .. Len(ix)
            f == [k \in D |-> ix[k].step]
<1>1. Len(ix) \in Nat /\ DOMAIN ix = D
  BY SeqSplit
<1>2. IsFiniteSet(D)
  BY <1>1, FS_Interval
<1>3. f \in Surjection(D, Entered(ix))
  BY <1>1 DEF Surjection, Entered, ToSet
<1>. QED
  BY <1>2, <1>3, FS_Surjection

(* A flush that starts now.                                                *)
FlushIn(ix) == [at : {"idle", "row", "step", "final", "settle"}, status : RunStatus,
                k : 0 .. Len(ix), n : 0 .. Len(ix),
                write : RunStatus \cup StepStatus \cup {"none"}]

(* The call for a step, the last write, or the end of a flush.             *)
LEMMA WriteStepIs ==
    ASSUME NEW ix \in Seq(Entry), NEW f \in FlushIn(ix), NEW n \in 0 .. Len(ix),
           NEW k \in 1 .. n + 1, NEW g, g = WriteStep(f, k, n, ix)
    PROVE  \/ /\ k <= n /\ g.at = "step" /\ g.k = k /\ g.n = n /\ g.write = ix[k].status
              /\ g.status = f.status /\ g.write \in StepStatus /\ g \in FlushIn(ix)
           \/ /\ k = n + 1 /\ f.status \in Terminal /\ g.at = "final" /\ g.write = f.status
              /\ g.status = f.status /\ g \in FlushIn(ix)
           \/ k = n + 1 /\ f.status \notin Terminal /\ g = Idle
<1>0. /\ Len(ix) \in Nat /\ DOMAIN ix = 1 .. Len(ix) /\ \A j \in DOMAIN ix : ix[j] \in Entry
      /\ n \in Nat /\ k \in Nat /\ f.status \in RunStatus
  BY SeqSplit DEF FlushIn
<1>1. CASE k <= n
  <2>1. ix[k].status \in StepStatus /\ k \in 0 .. Len(ix)
    BY <1>0, <1>1 DEF Entry
  <2>2. g = [at |-> "step", status |-> f.status, k |-> k, n |-> n, write |-> ix[k].status]
    BY <1>1 DEF WriteStep, FlushIn
  <2>3. g \in FlushIn(ix)
    BY <1>0, <2>1, <2>2 DEF FlushIn
  <2>. QED
    BY <1>1, <2>1, <2>2, <2>3
<1>2. CASE k > n /\ f.status \in Terminal
  <2>1. g = [at |-> "final", status |-> f.status, k |-> 0, n |-> 0, write |-> f.status]
    <3>1. ~(k <= n)
      BY <1>0, <1>2
    <3>2. g = [f EXCEPT !.at = "final", !.k = 0, !.n = 0, !.write = f.status]
      BY <1>2, <3>1 DEF WriteStep
    <3>. QED
      BY <3>2 DEF FlushIn
  <2>2. g \in FlushIn(ix)
    BY <1>0, <2>1 DEF FlushIn
  <2>. QED
    BY <1>0, <1>2, <2>1, <2>2
<1>3. CASE k > n /\ f.status \notin Terminal
  BY <1>0, <1>3 DEF WriteStep
<1>. QED
  BY <1>0, <1>1, <1>2, <1>3

(* A flush starts with the row, or, when that is written and the run       *)
(* over, with a step.                                                      *)
LEMMA FlushWithIs ==
    ASSUME NEW ix \in Seq(Entry), NEW st \in RunStatus, NEW told \in BOOLEAN,
           NEW g, g = FlushWith(st, told, ix)
    PROVE  /\ g \in FlushIn(ix) /\ g.status = st
           /\ \/ /\ st \notin Terminal \/ ~told
                 /\ g.at = "row" /\ g.write \in RunStatus \ Terminal
              \/ /\ st \in Terminal /\ told /\ 1 <= Len(ix)
                 /\ g.at = "step" /\ g.k = 1 /\ g.n = Len(ix)
                 /\ g.write = ix[1].status /\ g.write \in StepStatus
              \/ /\ st \in Terminal /\ told /\ Len(ix) = 0
                 /\ g.at = "final" /\ g.write = st
<1>. DEFINE f == [Idle EXCEPT !.status = st]
<1>0. Len(ix) \in Nat /\ Len(ix) \in 0 .. Len(ix) /\ 1 \in 1 .. Len(ix) + 1
  BY SeqSplit
<1>1. f = [at |-> "idle", status |-> st, k |-> 0, n |-> 0, write |-> "none"]
  BY DEF Idle
<1>2. f \in FlushIn(ix) /\ f.status = st
  BY <1>0, <1>1 DEF FlushIn
<1>3. CASE st \notin Terminal \/ ~told
  <2>1. g = [at |-> "row", status |-> st, k |-> 0, n |-> 0,
             write |-> IF st \in Terminal THEN "started" ELSE st]
    BY <1>1, <1>3 DEF FlushWith
  <2>2. (IF st \in Terminal THEN "started" ELSE st) \in RunStatus \ Terminal
    BY DEF RunStatus, Terminal
  <2>. QED
    BY <1>0, <1>3, <2>1, <2>2 DEF FlushIn
<1>4. CASE st \in Terminal /\ told
  <2>1. g = WriteStep(f, 1, Len(ix), ix)
    BY <1>4 DEF FlushWith
  <2>. HIDE DEF f
  <2>2. \/ /\ 1 <= Len(ix) /\ g.at = "step" /\ g.k = 1 /\ g.n = Len(ix) /\ g.write = ix[1].status
           /\ g.status = f.status /\ g.write \in StepStatus /\ g \in FlushIn(ix)
        \/ /\ 1 = Len(ix) + 1 /\ f.status \in Terminal /\ g.at = "final" /\ g.write = f.status
           /\ g.status = f.status /\ g \in FlushIn(ix)
        \/ 1 = Len(ix) + 1 /\ f.status \notin Terminal /\ g = Idle
    BY <1>0, <1>2, <2>1, WriteStepIs
  <2>3. f.status = st
    BY <1>2
  <2>4. CASE 1 <= Len(ix)
    <3>1. ~(1 = Len(ix) + 1)
      BY <1>0, <2>4
    <3>. QED
      BY <1>4, <2>2, <2>3, <2>4, <3>1
  <2>5. CASE 1 = Len(ix) + 1
    <3>1. ~(1 <= Len(ix)) /\ Len(ix) = 0
      BY <1>0, <2>5
    <3>. QED
      BY <1>4, <2>2, <2>3, <2>5, <3>1
  <2>. QED
    BY <2>2, <2>4, <2>5
<1>. QED
  BY <1>3, <1>4

(* A flush that starts from the shadow as it is now.                       *)
LEMMA Launches ==
    ASSUME index' \in Seq(Entry), status' \in RunStatus, rowWritten' \in BOOLEAN,
           flush' = FlushWith(status', rowWritten', index'), dirty' = FALSE
    PROVE  /\ flush' \in FlushIn(index') /\ FlushIsTrue' /\ flush'.at # "idle"
           /\ (rowWritten' /\ status' \in Terminal => flush'.at # "row")
<1>1. /\ flush' \in FlushIn(index') /\ flush'.status = status'
      /\ \/ /\ status' \notin Terminal \/ ~rowWritten'
            /\ flush'.at = "row" /\ flush'.write \in RunStatus \ Terminal
         \/ /\ status' \in Terminal /\ rowWritten' /\ 1 <= Len(index')
            /\ flush'.at = "step" /\ flush'.k = 1 /\ flush'.n = Len(index')
            /\ flush'.write = index'[1].status /\ flush'.write \in StepStatus
         \/ /\ status' \in Terminal /\ rowWritten' /\ Len(index') = 0
            /\ flush'.at = "final" /\ flush'.write = status'
  BY FlushWithIs
<1>2. Len(index') \in Nat /\ DOMAIN index' = 1 .. Len(index')
  BY SeqSplit
<1>. QED
  BY <1>1, <1>2 DEF FlushIsTrue

CoreTyped ==
    /\ request \in {"creating", "created", "emitted", "refused"} /\ around \in Surroundings
    /\ published \in Seq(Events) /\ faults \in 0 .. around.faults
ShadowTyped ==
    /\ index \in Seq(Entry) /\ Cardinality(Entered(index)) = Len(index)
    /\ status \in RunStatus /\ dirty \in BOOLEAN /\ rowWritten \in BOOLEAN
    /\ flush \in FlushIn(index)
DbTyped == /\ row \in RunStatus \cup {"none"}
           /\ stepRow \in [Steps -> StepStatus \cup {"none"}]
AWait == [at : Awaits \cup Answers, got : RunStatus \cup {"none"},
          steps : [Steps -> StepStatus \cup {"none"}], resolved : BOOLEAN]
WaitTyped == registered \subseteq Waiters /\ wait \in [Waiters -> AWait]

-----------------------------------------------------------------------------
(* An event is published: what the three who emit one have in common.      *)
Announced(e) ==
    /\ e \in Events /\ ~IsOver /\ request' = "emitted"
    /\ e.type = "run.requested" => published = <<>>
    /\ e.step # NoStep =>
          /\ Emitted("run.started") /\ e.step \in Steps /\ e.status \in StepStatus
          /\ IF e.status = "started" THEN EventsOf(e.step) = {}
                                     ELSE EventsOf(e.step) = {} \/ InProgress(e.step)
    /\ e.type = "run.denied" => ~Emitted("run.started")
    /\ e.type \in {"run.completed", "run.failed"} => \A s \in Steps : ~InProgress(s)

(* Before the first event nothing is said.                                 *)
LEMMA NothingYet ==
    ASSUME published = <<>>
    PROVE  (\A type : ~Emitted(type)) /\ ~IsOver /\ \A s : EventsOf(s) = {}
BY DEF Emitted, IsOver, EventsOf, ToSet

(* Whoever emits an event announces it as above.                           *)
LEMMA Announces ==
    ASSUME CoreTyped, EventsInOrder,
           \/ RequestEmitted
           \/ \E type \in {"run.denied", "run.started", "run.completed", "run.failed"} :
                 RunEmits(type)
           \/ \E type \in {"step.started", "step.completed", "step.failed", "step.reused"} :
                 \E s \in Steps : StepEmits(type, s)
    PROVE  \E e : Announced(e) /\ Publish(e)
<1>1. CASE RequestEmitted
  <2>1. RunEvent("run.requested") \in Events
    BY DEF Events
  <2>2. published = <<>> /\ ~IsOver
    BY <1>1, NothingYet DEF RequestEmitted, EventsInOrder
  <2>3. Announced(RunEvent("run.requested"))
    BY <1>1, <2>1, <2>2, EventKinds DEF Announced, RequestEmitted
  <2>. QED
    BY <1>1, <2>3 DEF RequestEmitted
<1>2. ASSUME NEW type \in {"run.denied", "run.started", "run.completed", "run.failed"},
             RunEmits(type)
      PROVE  \E e : Announced(e) /\ Publish(e)
  <2>1. RunEvent(type) \in Events
    BY <1>2 DEF Events
  <2>2. Announced(RunEvent(type))
    BY <1>2, <2>1, EventKinds DEF Announced, RunEmits
  <2>. QED
    BY <1>2, <2>2 DEF RunEmits
<1>3. ASSUME NEW type \in {"step.started", "step.completed", "step.failed", "step.reused"},
             NEW s \in Steps, StepEmits(type, s)
      PROVE  \E e : Announced(e) /\ Publish(e)
  <2>. DEFINE st == CASE type = "step.started" -> "started"
                      [] type = "step.failed"  -> "failure"
                      [] OTHER -> "success"
  <2>1. st \in StepStatus /\ (st = "started" <=> type = "step.started")
    BY DEF StepStatus
  <2>2. Publish(StepEvent(type, s, st))
    BY <1>3 DEF StepEmits
  <2>. HIDE DEF st
  <2>3. StepEvent(type, s, st) \in Events
    BY <1>3, <2>1 DEF Events, StepEvent
  <2>4. request = "emitted"
    BY <1>3, NothingYet DEF StepEmits, EventsInOrder
  <2>5. Announced(StepEvent(type, s, st))
    BY <1>3, <2>1, <2>3, <2>4, EventKinds DEF Announced, StepEmits
  <2>. QED
    BY <2>2, <2>5
<1>. QED
  BY <1>1, <1>2, <1>3

(* The events stay in the order of the engine.                             *)
LEMMA PublishOrder ==
    ASSUME CoreTyped, EventsInOrder, NEW e, Announced(e), published' = Append(published, e)
    PROVE  published' \in Seq(Events) /\ EventsInOrder'
<1>1. published' \in Seq(Events)
  BY DEF CoreTyped, Announced
<1>2. /\ Len(published') = Len(published) + 1 /\ Len(published) \in Nat
      /\ \A i \in DOMAIN published : published'[i] = published[i]
      /\ DOMAIN published' = 1 .. Len(published) + 1 /\ DOMAIN published = 1 .. Len(published)
      /\ \A type : Emitted(type)' <=> Emitted(type) \/ e.type = type
  BY MoreEvents, SeqSplit DEF CoreTyped
<1>3. \A i \in DOMAIN published : published[i].type \notin Ends
  BY DEF Announced, IsOver, Emitted, Ends, ToSet
<1>4. \A i \in DOMAIN published' : published'[i].type \in Ends => i = Len(published')
  BY <1>2, <1>3
<1>5. CASE e.step = NoStep
  <2>1. \A s \in Steps : /\ EventsOf(s)' = EventsOf(s) /\ (InProgress(s)' <=> InProgress(s))
    BY <1>5, NoStepTold DEF CoreTyped
  <2>2. \A s \in Steps : EventsOf(s)' # {} => Emitted("run.started")'
    BY <1>2, <2>1 DEF EventsInOrder
  <2>3. IsOver' => \A s \in Steps : ~InProgress(s)'
    <3>1. IsOver' => e.type \in Ends
      BY <1>2 DEF IsOver, Announced, Ends
    <3>2. e.type = "run.denied" => \A s \in Steps : ~InProgress(s)
      BY DEF Announced, EventsInOrder, InProgress
    <3>. QED
      BY <2>1, <3>1, <3>2 DEF Announced, Ends
  <2>. QED
    BY <1>1, <1>4, <2>2, <2>3 DEF EventsInOrder, Announced
<1>6. CASE e.step # NoStep
  <2>1. e.type \notin Ends /\ Emitted("run.started")'
    BY <1>2, <1>6, EventKinds DEF Announced
  <2>2. ~IsOver'
    BY <1>2, <2>1 DEF IsOver, Announced, Ends
  <2>. QED
    BY <1>1, <1>4, <2>1, <2>2 DEF EventsInOrder, Announced
<1>. QED
  BY <1>5, <1>6

(* The shadow's status tells whether the run is over.                      *)
LEMMA OverIsTerminal ==
    ASSUME ShadowIsTrue
    PROVE  IsOver <=> status \in Terminal
BY DEF ShadowIsTrue, IsOver, Terminal

(* The shadow says what the events say when one comes in; a final word on  *)
(* a step stays.                                                           *)
LEMMA PublishShadow ==
    ASSUME CoreTyped, ShadowTyped, EventsInOrder, ShadowIsTrue, NEW e, Announced(e),
           published' = Append(published, e),
           index' = UpdatedIndex(index, e), status' = StatusAfter(status, e)
    PROVE  /\ ShadowIsTrue' /\ index' \in Seq(Entry) /\ Len(index) <= Len(index')
           /\ Cardinality(Entered(index')) = Len(index') /\ status' \in RunStatus
           /\ \A k \in DOMAIN index :
                 /\ k \in DOMAIN index' /\ index'[k].step = index[k].step
                 /\ index[k].status \in Final => index'[k] = index[k]
           /\ \A s \in Steps : /\ EventsOf(s) # {} => EventsOf(s)' # {}
                               /\ Truth(s) \in Final => Truth(s)' = Truth(s)
<1>0. /\ published \in Seq(Events) /\ index \in Seq(Entry) /\ AtMostOnce(index)
      /\ Cardinality(Entered(index)) = Len(index) /\ IsFiniteSet(Entered(index))
      /\ \A k \in DOMAIN index : index[k] \in Entry
      /\ \A type : Emitted(type)' <=> Emitted(type) \/ e.type = type
  BY MoreEvents, EnteredFinite, SeqSplit DEF CoreTyped, ShadowTyped, ShadowIsTrue, AtMostOnce
<1>1. status \notin Terminal /\ ~IsOver
  BY OverIsTerminal DEF Announced
<1>2. /\ status' = "completed" <=> Emitted("run.completed")'
      /\ status' = "failed" <=> Emitted("run.failed")' \/ Emitted("run.denied")'
      /\ status' \in RunStatus
  BY <1>0, <1>1 DEF StatusAfter, IsOver, Terminal, RunStatus, ShadowTyped
<1>3. CASE e.step = NoStep
  <2>1. index' = index
    BY <1>3 DEF UpdatedIndex
  <2>2. \A q \in Steps : /\ Truth(q)' = Truth(q) /\ EventsOf(q)' = EventsOf(q)
    BY <1>0, <1>3, NoStepTold
  <2>3. \A k \in DOMAIN index : index[k].step \in Steps
    BY <1>0 DEF Entry
  <2>4. Len(index) <= Len(index)
    BY <1>0
  <2>. QED
    BY <1>0, <1>2, <2>1, <2>2, <2>3, <2>4 DEF ShadowIsTrue, InIndex
<1>4. CASE e.step # NoStep
  <2>1. /\ e.step \in Steps /\ e.status \in StepStatus
        /\ IF e.status = "started" THEN EventsOf(e.step) = {}
                                   ELSE EventsOf(e.step) = {} \/ InProgress(e.step)
    BY <1>4 DEF Announced
  <2>2. /\ Truth(e.step)' = e.status /\ EventsOf(e.step)' # {}
        /\ \A q \in Steps \ {e.step} : Truth(q)' = Truth(q) /\ EventsOf(q)' = EventsOf(q)
    BY <1>0, <2>1, StepIsTold
  <2>0. \E r : r = UpdatedIndex(index, e) /\ IsUpdate(index, e, r)
    BY <1>0, <2>1, IndexAfter
  <2>9. IsUpdate(index, e, index')
    BY <2>0
  <2>3. /\ index' \in Seq(Entry) /\ DOMAIN index \subseteq DOMAIN index'
        /\ Len(index) <= Len(index')
        /\ \A k \in DOMAIN index : /\ index'[k].step = index[k].step
                                   /\ index'[k].step # e.step => index'[k] = index[k]
        /\ \A k \in DOMAIN index' : index'[k].step = e.step => index'[k].status = e.status
        /\ \A k \in DOMAIN index' \ DOMAIN index : index'[k].step = e.step
        /\ \E k \in DOMAIN index' : index'[k].step = e.step
        /\ AtMostOnce(index') /\ Cardinality(Entered(index')) = Len(index')
    BY <2>9 DEF IsUpdate
  <2>4. Truth(e.step) \notin Final
    BY <1>0, <2>1, TruthKinds DEF Final
  <2>5. \A k \in DOMAIN index : index[k].status \in Final => index[k].step # e.step
    BY <2>1, <2>4 DEF ShadowIsTrue
  <2>6. \A s \in Steps : EventsOf(s)' # {} <=> InIndex(s)'
    <3>. TAKE s \in Steps
    <3>1. CASE s = e.step
      BY <2>2, <2>3, <3>1 DEF InIndex
    <3>2. CASE s # e.step
      <4>1. InIndex(s)' <=> InIndex(s)
        BY <2>3, <3>2 DEF InIndex
      <4>. QED
        BY <2>2, <3>2, <4>1 DEF ShadowIsTrue
    <3>. QED
      BY <3>1, <3>2
  <2>7. \A k \in DOMAIN index' : \A s \in Steps : index'[k].step = s => index'[k].status = Truth(s)'
    <3>. SUFFICES ASSUME NEW k \in DOMAIN index', NEW s \in Steps, index'[k].step = s
                  PROVE  index'[k].status = Truth(s)'
      OBVIOUS
    <3>1. CASE s = e.step
      BY <2>2, <2>3, <3>1
    <3>2. CASE s # e.step
      <4>1. k \in DOMAIN index /\ index'[k] = index[k] /\ index[k].step = s
        BY <1>0, <2>3, <3>2 DEF Entry
      <4>. QED
        BY <2>2, <3>2, <4>1 DEF ShadowIsTrue
    <3>. QED
      BY <3>1, <3>2
  <2>. QED
    BY <1>2, <2>2, <2>3, <2>4, <2>5, <2>6, <2>7 DEF ShadowIsTrue, AtMostOnce
<1>. QED
  BY <1>3, <1>4

(* A longer shadow has all the flushes of a shorter one.                   *)
LEMMA FlushesGrow ==
    ASSUME NEW ix \in Seq(Entry), NEW jx \in Seq(Entry), Len(ix) <= Len(jx), NEW f \in FlushIn(ix)
    PROVE  f \in FlushIn(jx)
<1>1. 0 .. Len(ix) \subseteq 0 .. Len(jx)
  BY SeqSplit
<1>. QED
  BY <1>1 DEF FlushIn

(* Until the run is over no row says so.                                   *)
LEMMA NotOver ==
    ASSUME ShadowTyped, FlushIsTrue, RowsInOrder, status \notin Terminal
    PROVE  /\ row \notin Terminal /\ flush.status \notin Terminal
           /\ flush.at \notin {"final", "settle"}
<1>1. row \notin Terminal
  BY DEF RowsInOrder
<1>2. flush.status \notin Terminal
  <2>1. CASE flush.at = "idle"
    BY <2>1 DEF FlushIsTrue, Idle, Terminal
  <2>2. CASE flush.at # "idle"
    BY <2>2 DEF FlushIsTrue
  <2>. QED
    BY <2>1, <2>2
<1>. QED
  BY <1>1, <1>2 DEF FlushIsTrue

(* An event starts a flush, or makes the one under way go around again;    *)
(* the rows wait.                                                          *)
LEMMA PublishRows ==
    ASSUME CoreTyped, ShadowTyped, DbTyped, EventsInOrder, ShadowIsTrue, FlushIsTrue, RowsInOrder,
           NEW e, Announced(e), Publish(e)
    PROVE  /\ ShadowTyped' /\ DbTyped' /\ EventsInOrder' /\ ShadowIsTrue' /\ FlushIsTrue'
           /\ RowsInOrder' /\ published' \in Seq(Events)
           /\ status \notin Terminal /\ row \notin Terminal /\ row' = row
           /\ \A s \in Steps : Truth(s) \in Final => Truth(s)' = Truth(s)
<1>0. /\ published' = Append(published, e) /\ index' = UpdatedIndex(index, e)
      /\ status' = StatusAfter(status, e) /\ row' = row /\ stepRow' = stepRow
      /\ rowWritten' = rowWritten
      /\ IF flush = Idle THEN flush' = FlushWith(status', rowWritten, index') /\ dirty' = FALSE
                         ELSE dirty' = TRUE /\ flush' = flush
  BY DEF Publish, db
<1>1. published' \in Seq(Events) /\ EventsInOrder'
  BY <1>0, PublishOrder
<1>2. /\ ShadowIsTrue' /\ index' \in Seq(Entry) /\ Len(index) <= Len(index')
      /\ Cardinality(Entered(index')) = Len(index') /\ status' \in RunStatus
      /\ \A k \in DOMAIN index :
            /\ k \in DOMAIN index' /\ index'[k].step = index[k].step
            /\ index[k].status \in Final => index'[k] = index[k]
      /\ \A s \in Steps : /\ EventsOf(s) # {} => EventsOf(s)' # {}
                          /\ Truth(s) \in Final => Truth(s)' = Truth(s)
  BY <1>0, PublishShadow
<1>3. status \notin Terminal
  BY OverIsTerminal DEF Announced
<1>4. /\ row \notin Terminal /\ flush.status \notin Terminal
      /\ flush.at \notin {"final", "settle"}
  BY <1>3, NotOver
<1>5. RowsInOrder'
  <2>1. \A s \in Steps : /\ stepRow[s] # "none" => EventsOf(s)' # {}
                         /\ stepRow[s] \in Final => stepRow[s] = Truth(s)'
    BY <1>2 DEF RowsInOrder
  <2>. QED
    BY <1>0, <1>4, <2>1 DEF RowsInOrder
<1>6. flush' \in FlushIn(index') /\ FlushIsTrue' /\ dirty' \in BOOLEAN
  <2>1. CASE flush = Idle
    <3>1. rowWritten' \in BOOLEAN
      BY <1>0 DEF ShadowTyped
    <3>. QED
      BY <1>0, <1>2, <2>1, <3>1, Launches
  <2>2. CASE flush # Idle
    <3>1. flush' \in FlushIn(index')
      BY <1>0, <1>2, <2>2, FlushesGrow DEF ShadowTyped
    <3>2. flush.at # "idle" /\ flush' = flush /\ dirty' = TRUE
      BY <1>0, <2>2 DEF FlushIsTrue
    <3>3. flush.at = "step" => flush.k \in DOMAIN index
      <4>1. Len(index) \in Nat /\ DOMAIN index = 1 .. Len(index) /\ flush.n \in 0 .. Len(index)
        BY SeqSplit DEF ShadowTyped, FlushIn
      <4>. QED
        BY <4>1 DEF FlushIsTrue
    <3>4. flush.at = "step" /\ flush.write \in Final => flush.write = index'[flush.k].status
      BY <1>2, <3>3 DEF FlushIsTrue
    <3>. QED
      BY <1>0, <1>4, <3>1, <3>2, <3>4 DEF FlushIsTrue
  <2>. QED
    BY <2>1, <2>2
<1>7. ShadowTyped' /\ DbTyped'
  BY <1>0, <1>2, <1>6 DEF ShadowTyped, DbTyped
<1>. QED
  BY <1>0, <1>1, <1>2, <1>3, <1>4, <1>5, <1>6, <1>7

-----------------------------------------------------------------------------
(* The steps of the flush loop.  They leave alone what the events say.     *)
TruthStays == published' = published /\ status' = status /\ index' = index
LEMMA ShadowStays ==
    ASSUME TruthStays
    PROVE  /\ ShadowIsTrue <=> ShadowIsTrue'
           /\ \A s : Truth(s)' = Truth(s) /\ EventsOf(s)' = EventsOf(s)
BY NothingTold DEF TruthStays, ShadowIsTrue, InIndex

(* What the rows show is what the shadow says, for every step.             *)
LEMMA AllShown ==
    ASSUME CoreTyped, ShadowIsTrue, RowsInOrder, \A k \in DOMAIN index : IsShown(k)
    PROVE  \A s \in Steps : stepRow[s] = Truth(s)
<1>. TAKE s \in Steps
<1>1. CASE InIndex(s)
  <2>1. PICK k \in DOMAIN index : index[k].step = s
    BY <1>1 DEF InIndex
  <2>. QED
    BY <2>1 DEF IsShown, ShadowIsTrue
<1>2. CASE ~InIndex(s)
  BY <1>2, TruthKinds DEF ShadowIsTrue, RowsInOrder, CoreTyped
<1>. QED
  BY <1>1, <1>2

Projected == ShadowTyped /\ DbTyped /\ ShadowIsTrue /\ FlushIsTrue /\ RowsInOrder

(* A flush that starts again keeps the rows true, whatever the failed      *)
(* write has done.                                                         *)
LEMMA RelaunchKeeps ==
    ASSUME Projected, TruthStays, Relaunch, rowWritten' = rowWritten, DbTyped', RowsInOrder,
           rowWritten => row' # "none",
           row' = "none" => \A s \in Steps : stepRow'[s] = "none",
           \A s \in Steps : /\ stepRow'[s] # "none" => EventsOf(s) # {}
                            /\ stepRow'[s] \in Final => stepRow'[s] = Truth(s),
           row' \in Terminal => /\ row' = status /\ rowWritten
                                /\ \A k \in DOMAIN index : stepRow'[index[k].step] = index[k].status
    PROVE  Projected' /\ flush'.at # "idle"
<1>1. /\ flush' \in FlushIn(index') /\ FlushIsTrue' /\ flush'.at # "idle" /\ dirty' = FALSE
      /\ (rowWritten' /\ status' \in Terminal => flush'.at # "row")
  <2>1. /\ index' \in Seq(Entry) /\ status' \in RunStatus /\ rowWritten' \in BOOLEAN
        /\ flush' = FlushWith(status', rowWritten', index') /\ dirty' = FALSE
    BY DEF Projected, ShadowTyped, TruthStays, Relaunch
  <2>. QED
    BY <2>1, Launches
<1>2. ShadowTyped' /\ ShadowIsTrue'
  BY <1>1, ShadowStays DEF Projected, ShadowTyped, TruthStays
<1>3. RowsInOrder'
  <2>1. \A s \in Steps : /\ stepRow'[s] # "none" => EventsOf(s)' # {}
                         /\ stepRow'[s] \in Final => stepRow'[s] = Truth(s)'
    BY ShadowStays
  <2>. QED
    BY <1>1, <2>1 DEF RowsInOrder, TruthStays, IsShown
<1>. QED
  BY <1>1, <1>2, <1>3 DEF Projected

(* A write that fails, before or after it has had its effect.              *)
LEMMA RowEffect ==
    ASSUME Projected, flush.at = "row", row' = flush.write, stepRow' = stepRow
    PROVE  /\ DbTyped' /\ row' # "none" /\ row' \notin Terminal /\ row \notin Terminal
           /\ \A s \in Steps : /\ stepRow'[s] # "none" => EventsOf(s) # {}
                               /\ stepRow'[s] \in Final => stepRow'[s] = Truth(s)
<1>1. row' \in RunStatus \ Terminal
  BY DEF Projected, FlushIsTrue
<1>2. row' # "none"
  BY <1>1 DEF RunStatus, Terminal
<1>3. row \notin Terminal
  BY DEF Projected, RowsInOrder
<1>. QED
  BY <1>1, <1>2, <1>3 DEF Projected, DbTyped, RowsInOrder

(* The write of a step's row is about one step, and true when it is        *)
(* final.                                                                  *)
LEMMA StepEffect ==
    ASSUME Projected, flush.at = "step", row' = row,
           stepRow' = [stepRow EXCEPT ![index[flush.k].step] = flush.write]
    PROVE  /\ DbTyped' /\ row # "none" /\ rowWritten
           /\ flush.k \in DOMAIN index /\ flush.k \in Nat /\ flush.n \in Nat
           /\ flush.k <= flush.n /\ flush.n <= Len(index) /\ 1 <= flush.k
           /\ \A s \in Steps : /\ stepRow'[s] # "none" => EventsOf(s) # {}
                               /\ stepRow'[s] \in Final => stepRow'[s] = Truth(s)
           /\ stepRow'[index[flush.k].step] = flush.write
           /\ ~dirty => flush.write = index[flush.k].status
           /\ \A j \in DOMAIN index : j # flush.k =>
                 stepRow'[index[j].step] = stepRow[index[j].step]
<1>1. /\ Len(index) \in Nat /\ DOMAIN index = 1 .. Len(index) /\ flush.n \in 0 .. Len(index)
      /\ flush.k \in 1 .. flush.n /\ \A j \in DOMAIN index : index[j] \in Entry
      /\ rowWritten /\ flush.write \in StepStatus
      /\ flush.write \in Final => flush.write = index[flush.k].status
      /\ ~dirty => flush.write = index[flush.k].status
  BY SeqSplit DEF Projected, ShadowTyped, FlushIn, FlushIsTrue
<1>2. flush.k \in DOMAIN index /\ flush.k \in Nat /\ flush.n \in Nat
      /\ flush.k <= flush.n /\ flush.n <= Len(index) /\ 1 <= flush.k
  BY <1>1
<1>3. PICK q \in Steps : q = index[flush.k].step
  BY <1>1, <1>2 DEF Entry
<1>4. stepRow' = [stepRow EXCEPT ![q] = flush.write]
  BY <1>3
<1>5. stepRow \in [Steps -> StepStatus \cup {"none"}]
  BY DEF Projected, DbTyped
<1>6. DbTyped'
  BY <1>1, <1>4, <1>5 DEF Projected, DbTyped
<1>7. stepRow'[q] = flush.write /\ \A s \in Steps \ {q} : stepRow'[s] = stepRow[s]
  BY <1>4, <1>5
<1>8. InIndex(q) /\ EventsOf(q) # {} /\ index[flush.k].status = Truth(q)
  <2>1. InIndex(q)
    BY <1>2, <1>3 DEF InIndex
  <2>. QED
    BY <1>2, <1>3, <2>1 DEF Projected, ShadowIsTrue
<1>9. \A s \in Steps : /\ stepRow'[s] # "none" => EventsOf(s) # {}
                       /\ stepRow'[s] \in Final => stepRow'[s] = Truth(s)
  <2>. TAKE s \in Steps
  <2>1. CASE s = q
    BY <1>1, <1>7, <1>8, <2>1
  <2>2. CASE s # q
    BY <1>7, <2>2 DEF Projected, RowsInOrder
  <2>. QED
    BY <2>1, <2>2
<1>10. \A j \in DOMAIN index : j # flush.k => stepRow'[index[j].step] = stepRow[index[j].step]
  <2>1. \A j \in DOMAIN index : j # flush.k => index[j].step \in Steps \ {q}
    BY <1>1, <1>2, <1>3 DEF Projected, ShadowIsTrue, Entry
  <2>. QED
    BY <1>7, <2>1
<1>11. row # "none"
  BY <1>1 DEF Projected, RowsInOrder
<1>. QED
  BY <1>1, <1>2, <1>3, <1>6, <1>7, <1>9, <1>10, <1>11

(* The last write is made when every other row is there.                   *)
LEMMA FinalEffect ==
    ASSUME Projected, flush.at = "final", row' = flush.write, stepRow' = stepRow
    PROVE  /\ DbTyped' /\ row' = status /\ status \in Terminal /\ rowWritten /\ ~dirty
           /\ flush.status = status /\ flush.write = status
           /\ \A k \in DOMAIN index : IsShown(k)
<1>. QED
  BY DEF Projected, FlushIsTrue, DbTyped, ShadowTyped

(* A write that fails after its effect, or before it.                      *)
LEMMA FailureKeeps ==
    ASSUME Projected, TruthStays, Relaunch, rowWritten' = rowWritten,
           \/ flush.at = "row" /\ row' = flush.write /\ stepRow' = stepRow
           \/ /\ flush.at = "step" /\ row' = row
              /\ stepRow' = [stepRow EXCEPT ![index[flush.k].step] = flush.write]
           \/ flush.at = "final" /\ row' = flush.write /\ stepRow' = stepRow
           \/ row' = row /\ stepRow' = stepRow
    PROVE  Projected' /\ flush'.at # "idle"
<1>0. RowsInOrder
  BY DEF Projected
<1>1. CASE flush.at = "row" /\ row' = flush.write /\ stepRow' = stepRow
  BY <1>0, <1>1, RowEffect, RelaunchKeeps
<1>2. CASE /\ flush.at = "step" /\ row' = row
           /\ stepRow' = [stepRow EXCEPT ![index[flush.k].step] = flush.write]
  <2>1. row \in Terminal => \A j \in DOMAIN index : stepRow'[index[j].step] = index[j].status
    BY <1>0, <1>2, StepEffect DEF RowsInOrder, IsShown
  <2>2. row \in Terminal => row = status /\ rowWritten
    BY <1>0 DEF RowsInOrder
  <2>. QED
    BY <1>0, <1>2, <2>1, <2>2, StepEffect, RelaunchKeeps
<1>3. CASE flush.at = "final" /\ row' = flush.write /\ stepRow' = stepRow
  <2>1. /\ DbTyped' /\ row' = status /\ status \in Terminal /\ rowWritten
        /\ \A k \in DOMAIN index : stepRow'[index[k].step] = index[k].status
    BY <1>3, FinalEffect DEF IsShown
  <2>2. row' # "none"
    BY <2>1 DEF Terminal
  <2>. QED
    BY <1>0, <1>3, <2>1, <2>2, RelaunchKeeps DEF RowsInOrder
<1>4. CASE row' = row /\ stepRow' = stepRow
  <2>1. DbTyped'
    BY <1>4 DEF Projected, DbTyped
  <2>. QED
    BY <1>0, <1>4, <2>1, RelaunchKeeps DEF RowsInOrder, IsShown
<1>. QED
  BY <1>1, <1>2, <1>3, <1>4

(* What a step of the flush loop does for those who wait.                  *)
RowIsLasting ==
    /\ row \in Terminal => row' = row
    /\ row' \in Terminal /\ flush'.at = "idle" => row \in Terminal /\ flush.at = "idle"

(* The loop goes on after a write that has gone through.                   *)
LEMMA RowWritten ==
    ASSUME Projected, TruthStays, flush.at = "row", row' = flush.write, stepRow' = stepRow,
           rowWritten' = TRUE, LoopGoesOn(WriteStep(flush, 1, Len(index), index))
    PROVE  Projected' /\ RowIsLasting
<1>. DEFINE next == WriteStep(flush, 1, Len(index), index)
<1>0. /\ index \in Seq(Entry) /\ flush \in FlushIn(index) /\ Len(index) \in 0 .. Len(index)
      /\ 1 \in 1 .. Len(index) + 1 /\ DOMAIN index = 1 .. Len(index) /\ Len(index) \in Nat
  BY SeqSplit DEF Projected, ShadowTyped
<1>1. \/ /\ 1 <= Len(index) /\ next.at = "step" /\ next.k = 1 /\ next.n = Len(index)
         /\ next.write = index[1].status
         /\ next.status = flush.status /\ next.write \in StepStatus /\ next \in FlushIn(index)
      \/ /\ 1 = Len(index) + 1 /\ flush.status \in Terminal /\ next.at = "final"
         /\ next.write = flush.status
         /\ next.status = flush.status /\ next \in FlushIn(index)
      \/ 1 = Len(index) + 1 /\ flush.status \notin Terminal /\ next = Idle
  BY <1>0, WriteStepIs
<1>2. LoopGoesOn(next)
  OBVIOUS
<1>. HIDE DEF next
<1>3. /\ DbTyped' /\ row' # "none" /\ row' \notin Terminal /\ row \notin Terminal
      /\ \A s \in Steps : /\ stepRow'[s] # "none" => EventsOf(s) # {}
                          /\ stepRow'[s] \in Final => stepRow'[s] = Truth(s)
  BY RowEffect
<1>4. ShadowIsTrue' /\ RowsInOrder'
  BY <1>3, ShadowStays DEF Projected, RowsInOrder
<1>5. ShadowTyped' /\ FlushIsTrue'
  <2>1. CASE next = Idle /\ dirty
    <3>1. flush' = FlushWith(status', rowWritten', index') /\ dirty' = FALSE
      BY <1>2, <2>1 DEF LoopGoesOn, TruthStays
    <3>2. index' \in Seq(Entry) /\ status' \in RunStatus /\ rowWritten' \in BOOLEAN
      BY DEF Projected, ShadowTyped, TruthStays
    <3>3. flush' \in FlushIn(index') /\ FlushIsTrue'
      BY <3>1, <3>2, Launches
    <3>. QED
      BY <3>1, <3>2, <3>3 DEF Projected, ShadowTyped, TruthStays
  <2>2. CASE ~(next = Idle /\ dirty)
    <3>1. flush' = next /\ dirty' = dirty
      BY <1>2, <2>2 DEF LoopGoesOn
    <3>2. Idle \in FlushIn(index)
      BY <1>0 DEF Idle, FlushIn, RunStatus
    <3>3. ShadowTyped'
      BY <1>1, <3>1, <3>2 DEF Projected, ShadowTyped, TruthStays
    <3>4. /\ ~dirty => flush.status = status
          /\ flush.status \in Terminal => ~dirty
      BY DEF Projected, FlushIsTrue
    <3>5. Idle.at = "idle" /\ Idle.status \notin Terminal
      BY DEF Idle, Terminal
    <3>6. FlushIsTrue'
      <4>1. CASE 1 <= Len(index) /\ next.at = "step"
        <5>1. /\ next.k \in 1 .. next.n /\ next.k = 1 /\ next.n = Len(index)
              /\ next.write = index[1].status /\ next.write \in StepStatus
              /\ next.status = flush.status
          BY <1>0, <1>1, <3>5, <4>1
        <5>. QED
          BY <3>1, <3>4, <4>1, <5>1 DEF FlushIsTrue, TruthStays
      <4>2. CASE Len(index) = 0 /\ next.at = "final"
        <5>1. /\ flush.status \in Terminal /\ next.write = flush.status
              /\ next.status = flush.status /\ DOMAIN index = {}
          BY <1>0, <1>1, <3>5, <4>2
        <5>. QED
          BY <3>1, <3>4, <4>2, <5>1 DEF FlushIsTrue, TruthStays
      <4>3. CASE Len(index) = 0 /\ next = Idle /\ flush.status \notin Terminal
        <5>1. DOMAIN index = {} /\ ~dirty /\ status \notin Terminal
          BY <1>0, <2>2, <3>4, <4>3
        <5>. QED
          BY <3>1, <3>5, <4>3, <5>1 DEF FlushIsTrue, TruthStays
      <4>. QED
        BY <1>0, <1>1, <4>1, <4>2, <4>3
    <3>. QED
      BY <3>3, <3>6
  <2>. QED
    BY <2>1, <2>2
<1>. QED
  BY <1>3, <1>4, <1>5 DEF Projected, RowIsLasting

(* The loop goes on after the write of a step.                             *)
LEMMA StepWritten ==
    ASSUME Projected, TruthStays, flush.at = "step", row' = row,
           stepRow' = [stepRow EXCEPT ![index[flush.k].step] = flush.write],
           rowWritten' = rowWritten,
           LoopGoesOn(WriteStep(flush, flush.k + 1, flush.n, index))
    PROVE  Projected' /\ RowIsLasting
<1>. DEFINE next == WriteStep(flush, flush.k + 1, flush.n, index)
<1>3. /\ DbTyped' /\ row # "none" /\ rowWritten
      /\ flush.k \in DOMAIN index /\ flush.k \in Nat /\ flush.n \in Nat
      /\ flush.k <= flush.n /\ flush.n <= Len(index) /\ 1 <= flush.k
      /\ \A s \in Steps : /\ stepRow'[s] # "none" => EventsOf(s) # {}
                          /\ stepRow'[s] \in Final => stepRow'[s] = Truth(s)
      /\ stepRow'[index[flush.k].step] = flush.write
      /\ ~dirty => flush.write = index[flush.k].status
      /\ \A j \in DOMAIN index : j # flush.k => stepRow'[index[j].step] = stepRow[index[j].step]
  BY StepEffect
<1>0. /\ index \in Seq(Entry) /\ flush \in FlushIn(index) /\ flush.n \in 0 .. Len(index)
      /\ flush.k + 1 \in 1 .. flush.n + 1 /\ DOMAIN index = 1 .. Len(index) /\ Len(index) \in Nat
  BY <1>3, SeqSplit DEF Projected, ShadowTyped
<1>1. \/ /\ flush.k + 1 <= flush.n /\ next.at = "step" /\ next.k = flush.k + 1
         /\ next.n = flush.n /\ next.write = index[flush.k + 1].status
         /\ next.status = flush.status /\ next.write \in StepStatus /\ next \in FlushIn(index)
      \/ /\ flush.k + 1 = flush.n + 1 /\ flush.status \in Terminal /\ next.at = "final"
         /\ next.write = flush.status
         /\ next.status = flush.status /\ next \in FlushIn(index)
      \/ flush.k + 1 = flush.n + 1 /\ flush.status \notin Terminal /\ next = Idle
  <2>. DEFINE k == flush.k + 1  n == flush.n
  <2>1. /\ index \in Seq(Entry) /\ flush \in FlushIn(index) /\ n \in 0 .. Len(index)
        /\ k \in 1 .. n + 1 /\ next = WriteStep(flush, k, n, index)
    BY <1>0
  <2>. HIDE DEF next, k, n
  <2>2. \/ /\ k <= n /\ next.at = "step" /\ next.k = k /\ next.n = n
           /\ next.write = index[k].status /\ next.status = flush.status
           /\ next.write \in StepStatus /\ next \in FlushIn(index)
        \/ /\ k = n + 1 /\ flush.status \in Terminal /\ next.at = "final"
           /\ next.write = flush.status
           /\ next.status = flush.status /\ next \in FlushIn(index)
        \/ k = n + 1 /\ flush.status \notin Terminal /\ next = Idle
    BY ONLY <2>1, WriteStepIs
  <2>. QED
    BY <2>2 DEF k, n
<1>2. LoopGoesOn(next)
  OBVIOUS
<1>. HIDE DEF next
<1>4. /\ ~dirty => /\ flush.status = status /\ flush.n = Len(index)
                   /\ \A j \in DOMAIN index : j <= flush.k => IsShown(j)'
      /\ flush.status \in Terminal => ~dirty
  <2>1. ~dirty => /\ flush.n = Len(index) /\ flush.status = status
                  /\ \A j \in 1 .. flush.k - 1 : IsShown(j)
    BY DEF Projected, FlushIsTrue
  <2>2. ASSUME ~dirty, NEW j \in DOMAIN index, j <= flush.k  PROVE  IsShown(j)'
    <3>1. CASE j = flush.k
      BY <1>3, <2>2, <3>1 DEF IsShown, TruthStays
    <3>2. CASE j # flush.k
      <4>1. j \in 1 .. flush.k - 1
        BY <1>0, <1>3, <2>2, <3>2
      <4>2. IsShown(j)
        BY <2>1, <2>2, <4>1
      <4>. QED
        BY <1>3, <2>2, <3>2, <4>2 DEF IsShown, TruthStays
    <3>. QED
      BY <3>1, <3>2
  <2>. QED
    BY <2>1, <2>2 DEF Projected, FlushIsTrue
<1>5. row \in Terminal => /\ row = status /\ ~dirty /\ status \in Terminal
                          /\ \A j \in DOMAIN index : IsShown(j)
  BY DEF Projected, RowsInOrder
<1>6. row \in Terminal => \A j \in DOMAIN index : IsShown(j)'
  BY <1>3, <1>5 DEF IsShown, TruthStays
<1>7. /\ ShadowTyped' /\ FlushIsTrue'
      /\ row \in Terminal => dirty' = FALSE /\ flush'.at # "row" /\ flush'.at # "idle"
  <2>1. CASE next = Idle /\ dirty
    <3>1. flush' = FlushWith(status', rowWritten', index') /\ dirty' = FALSE
      BY <1>2, <2>1 DEF LoopGoesOn, TruthStays
    <3>2. index' \in Seq(Entry) /\ status' \in RunStatus /\ rowWritten' \in BOOLEAN
      BY DEF Projected, ShadowTyped, TruthStays
    <3>3. flush' \in FlushIn(index') /\ FlushIsTrue'
      BY <3>1, <3>2, Launches
    <3>. QED
      BY <1>5, <2>1, <3>1, <3>2, <3>3 DEF Projected, ShadowTyped, TruthStays
  <2>2. CASE ~(next = Idle /\ dirty)
    <3>1. flush' = next /\ dirty' = dirty
      BY <1>2, <2>2 DEF LoopGoesOn
    <3>2. Idle \in FlushIn(index)
      BY <1>0 DEF Idle, FlushIn, RunStatus
    <3>3. ShadowTyped'
      BY <1>1, <3>1, <3>2 DEF Projected, ShadowTyped, TruthStays
    <3>4. dirty \in BOOLEAN
      BY DEF Projected, ShadowTyped
    <3>5. Idle.at = "idle" /\ Idle.status \notin Terminal
      BY DEF Idle, Terminal
    <3>6. CASE flush.k + 1 <= flush.n /\ next.at = "step"
      <4>1. /\ next.k \in 1 .. next.n /\ next.n = flush.n /\ next.k = flush.k + 1
            /\ next.write = index[next.k].status /\ next.write \in StepStatus
            /\ next.status = flush.status
            /\ \A j \in 1 .. next.k - 1 : j <= flush.k /\ (flush.n = Len(index) => j \in DOMAIN index)
        BY <1>0, <1>1, <1>3, <3>5, <3>6
      <4>2. FlushIsTrue'
        BY <1>3, <1>4, <3>1, <3>6, <4>1 DEF FlushIsTrue, TruthStays
      <4>. QED
        BY <1>5, <3>1, <3>3, <3>4, <3>6, <4>2
    <3>7. CASE flush.k = flush.n /\ flush.status \in Terminal /\ next.at = "final"
      <4>1. next.write = flush.status /\ next.status = flush.status
        BY <1>0, <1>1, <3>5, <3>7
      <4>2. \A j \in DOMAIN index : j <= flush.k
        BY <1>0, <1>4, <3>7
      <4>3. FlushIsTrue'
        BY <1>3, <1>4, <3>1, <3>7, <4>1, <4>2 DEF FlushIsTrue, TruthStays
      <4>. QED
        BY <1>5, <3>1, <3>3, <3>4, <3>7, <4>3
    <3>8. CASE flush.k = flush.n /\ next = Idle /\ flush.status \notin Terminal
      <4>1. ~dirty /\ status \notin Terminal /\ \A j \in DOMAIN index : j <= flush.k
        BY <1>0, <1>4, <2>2, <3>8
      <4>2. FlushIsTrue'
        BY <1>4, <3>1, <3>5, <3>8, <4>1 DEF FlushIsTrue, TruthStays
      <4>. QED
        BY <1>5, <3>1, <3>3, <4>1, <4>2
    <3>9. flush.k + 1 = flush.n + 1 => flush.k = flush.n
      BY <1>3
    <3>10. CASE flush.k + 1 = flush.n + 1
      BY <1>1, <3>6, <3>7, <3>8, <3>9, <3>10
    <3>11. CASE flush.k + 1 <= flush.n /\ next.at = "step"
      BY <3>6, <3>11
    <3>. QED
      BY <1>1, <3>10, <3>11
  <2>. QED
    BY <2>1, <2>2
<1>8. RowsInOrder' /\ ShadowIsTrue'
  <2>1. \A s \in Steps : /\ stepRow'[s] # "none" => EventsOf(s)' # {}
                         /\ stepRow'[s] \in Final => stepRow'[s] = Truth(s)'
    BY <1>3, ShadowStays
  <2>. QED
    BY <1>3, <1>5, <1>6, <1>7, <2>1, ShadowStays DEF Projected, RowsInOrder, TruthStays
<1>. QED
  BY <1>3, <1>7, <1>8 DEF Projected, RowIsLasting

(* The loop goes on after the last write.                                  *)
LEMMA FinalWritten ==
    ASSUME Projected, TruthStays, flush.at = "final", row' = flush.write, stepRow' = stepRow,
           rowWritten' = rowWritten, dirty' = dirty, flush' = [flush EXCEPT !.at = "settle"]
    PROVE  Projected' /\ RowIsLasting
<1>1. /\ DbTyped' /\ row' = status /\ status \in Terminal /\ rowWritten /\ ~dirty
      /\ flush.status = status /\ flush.write = status
      /\ \A k \in DOMAIN index : IsShown(k)
  BY FinalEffect
<1>2. /\ flush' \in FlushIn(index) /\ flush'.at = "settle" /\ flush'.status = flush.status
      /\ flush'.write = flush.write
  BY DEF Projected, ShadowTyped, FlushIn
<1>3. \A k \in DOMAIN index : IsShown(k)'
  BY <1>1 DEF IsShown, TruthStays
<1>4. ShadowTyped' /\ FlushIsTrue' /\ ShadowIsTrue'
  BY <1>1, <1>2, <1>3, ShadowStays DEF Projected, ShadowTyped, TruthStays, FlushIsTrue
<1>5. RowsInOrder'
  <2>1. \A s \in Steps : /\ stepRow'[s] # "none" => EventsOf(s)' # {}
                         /\ stepRow'[s] \in Final => stepRow'[s] = Truth(s)'
    BY ShadowStays DEF Projected, RowsInOrder
  <2>2. status # "none"
    BY <1>1 DEF Terminal
  <2>. QED
    BY <1>1, <1>2, <1>3, <2>1, <2>2 DEF RowsInOrder, TruthStays
<1>6. row \in Terminal => row = status
  BY DEF Projected, RowsInOrder
<1>. QED
  BY <1>1, <1>2, <1>4, <1>5, <1>6 DEF Projected, RowIsLasting

(* The waiters are told when the row says that the run is over.            *)
LEMMA HasSettled ==
    ASSUME Projected, TruthStays, flush.at = "settle", row' = row, stepRow' = stepRow,
           rowWritten' = rowWritten, LoopGoesOn(Idle)
    PROVE  Projected' /\ row \in Terminal
<1>1. /\ row = status /\ status \in Terminal /\ rowWritten /\ ~dirty
      /\ \A k \in DOMAIN index : IsShown(k)
  BY DEF Projected, FlushIsTrue
<1>2. flush' = Idle /\ dirty' = dirty
  BY <1>1 DEF LoopGoesOn
<1>3. Idle \in FlushIn(index) /\ Idle.at = "idle" /\ Idle.status \notin Terminal
  <2>1. Len(index) \in Nat
    BY SeqSplit DEF Projected, ShadowTyped
  <2>. QED
    BY <2>1 DEF Idle, FlushIn, RunStatus, Terminal
<1>4. \A k \in DOMAIN index : IsShown(k)'
  BY <1>1 DEF IsShown, TruthStays
<1>5. ShadowTyped' /\ DbTyped' /\ FlushIsTrue' /\ ShadowIsTrue'
  BY <1>1, <1>2, <1>3, <1>4, ShadowStays
     DEF Projected, ShadowTyped, DbTyped, TruthStays, FlushIsTrue
<1>6. RowsInOrder'
  <2>1. \A s \in Steps : /\ stepRow'[s] # "none" => EventsOf(s)' # {}
                         /\ stepRow'[s] \in Final => stepRow'[s] = Truth(s)'
    BY ShadowStays DEF Projected, RowsInOrder
  <2>. QED
    BY <1>1, <1>2, <1>3, <1>4, <2>1 DEF Projected, RowsInOrder, TruthStays
<1>. QED
  BY <1>1, <1>5, <1>6 DEF Projected

(* What is true of a wait stays true while others act.                     *)
LEMMA WaitKept ==
    ASSUME NEW w, WaitIsTrue(w), wait'[w] = wait[w], w \in registered' <=> w \in registered,
           RowIsLasting, Projected,
           status \in Terminal => status' = status /\ \A s \in Steps : Truth(s)' = Truth(s)
    PROVE  WaitIsTrue(w)'
<1>1. \A s \in Steps : status = "completed" => Truth(s)' = Truth(s)
  BY DEF Terminal
<1>2. /\ status = "completed" => status' = "completed"
      /\ status = "failed" => status' = "failed"
      /\ row = "completed" => row' = "completed"
  BY DEF Terminal, RowIsLasting
<1>3. wait[w].at = "completed" => status' = "completed" /\ \A s \in Steps : wait[w].steps[s] = Truth(s)'
  BY <1>1, <1>2 DEF WaitIsTrue
<1>4. /\ wait[w].resolved => row' \in Terminal
      /\ wait[w].at \in {"rereading", "reread"} => row' \in Terminal
      /\ wait[w].at = "reread" => wait[w].got = row'
      /\ wait[w].at = "read" /\ wait[w].got \in Terminal => wait[w].got = row'
      /\ wait[w].at \in {"outputs", "steps"} => row' = "completed"
      /\ wait[w].at # "unfinished"
      /\ wait[w].at = "failed" => status' = "failed"
  BY <1>2 DEF WaitIsTrue, RowIsLasting
<1>5. /\ wait[w].at \in {"reading", "read", "waiting"} => wait[w].resolved \/ w \in registered'
      /\ /\ wait[w].at = "waiting" \/ (wait[w].at = "read" /\ wait[w].got \notin Terminal)
         /\ row' \in Terminal
         => wait[w].resolved \/ flush'.at # "idle"
      /\ w \in registered' => wait[w].at \in Awaits \ {"none"}
  BY DEF WaitIsTrue, RowIsLasting
<1>. QED
  BY <1>3, <1>4, <1>5 DEF WaitIsTrue

(* Nothing that the waits read changes.                                    *)
OutsideStays == UNCHANGED <<published, shadow, db>>
LEMMA ProjectedStays ==
    ASSUME Projected, OutsideStays
    PROVE  Projected' /\ RowIsLasting /\ (\A s : Truth(s)' = Truth(s)) /\ status' = status
<1>1. TruthStays /\ row' = row /\ stepRow' = stepRow /\ flush' = flush /\ dirty' = dirty
      /\ rowWritten' = rowWritten
  BY DEF OutsideStays, shadow, db, TruthStays
<1>2. ShadowTyped' /\ DbTyped' /\ ShadowIsTrue'
  BY <1>1, ShadowStays DEF Projected, ShadowTyped, DbTyped, TruthStays
<1>3. FlushIsTrue'
  <2>1. \A k : IsShown(k) <=> IsShown(k)'
    BY <1>1 DEF IsShown, TruthStays
  <2>2. FlushIsTrue
    BY DEF Projected
  <2>. QED
    BY <1>1, <2>1, <2>2 DEF FlushIsTrue, TruthStays
<1>4. RowsInOrder'
  <2>1. \A k : IsShown(k) <=> IsShown(k)'
    BY <1>1 DEF IsShown, TruthStays
  <2>2. RowsInOrder
    BY DEF Projected
  <2>. QED
    BY <1>1, <2>1, <2>2, ShadowStays DEF RowsInOrder, TruthStays
<1>. QED
  BY <1>1, <1>2, <1>3, <1>4, ShadowStays DEF Projected, RowIsLasting, TruthStays

(* One wait takes a step.                                                  *)
LEMMA OneWaits ==
    ASSUME Projected, OutsideStays, NEW w \in Waiters, \A v \in Waiters : WaitIsTrue(v),
           wait' \in [Waiters -> AWait], registered' \subseteq Waiters,
           \A v \in Waiters \ {w} : /\ wait'[v] = wait[v]
                                    /\ (v \in registered' <=> v \in registered),
           WaitIsTrue(w)'
    PROVE  WaitTyped' /\ \A v \in Waiters : WaitIsTrue(v)'
<1>1. RowIsLasting /\ (\A s : Truth(s)' = Truth(s)) /\ status' = status
  BY ProjectedStays
<1>2. ASSUME NEW v \in Waiters \ {w}  PROVE  WaitIsTrue(v)'
  BY <1>1, <1>2, WaitKept
<1>. QED
  BY <1>2 DEF WaitTyped

(* One wait has another record.                                            *)
LEMMA Changed ==
    ASSUME WaitTyped, NEW w \in Waiters, NEW x \in AWait, wait' = [wait EXCEPT ![w] = x]
    PROVE  /\ wait' \in [Waiters -> AWait] /\ wait'[w] = x
           /\ \A v \in Waiters \ {w} : wait'[v] = wait[v]
BY DEF WaitTyped

(* One wait has ended, and its registration with it.                       *)
LEMMA Gone ==
    ASSUME WaitTyped, NEW w \in Waiters, NEW at \in Answers, Answer(w, at)
    PROVE  /\ wait' \in [Waiters -> AWait] /\ registered' \subseteq Waiters /\ wait'[w].at = at
           /\ ~wait'[w].resolved /\ w \notin registered'
           /\ \A v \in Waiters \ {w} : wait'[v] = wait[v] /\ (v \in registered' <=> v \in registered)
<1>. DEFINE x == [NoWait EXCEPT !.at = at]
<1>1. x \in AWait /\ x.at = at /\ ~x.resolved
  BY DEF NoWait, AWait
<1>2. wait' = [wait EXCEPT ![w] = x] /\ registered' = registered \ {w}
  BY DEF Answer, Cancelled
<1>. HIDE DEF x
<1>. QED
  BY <1>1, <1>2, Changed DEF WaitTyped

(* One wait goes on.                                                       *)
LEMMA GoesOn ==
    ASSUME WaitTyped, NEW w \in Waiters, NEW at \in Awaits, Goes(w, at)
    PROVE  /\ wait' \in [Waiters -> AWait] /\ wait'[w].at = at
           /\ wait'[w].got = wait[w].got /\ wait'[w].resolved = wait[w].resolved
           /\ \A v \in Waiters \ {w} : wait'[v] = wait[v]
<1>. DEFINE x == [wait[w] EXCEPT !.at = at]
<1>0. wait[w] \in AWait
  BY DEF WaitTyped
<1>1. x \in AWait /\ x.at = at /\ x.got = wait[w].got /\ x.resolved = wait[w].resolved
  BY <1>0 DEF AWait
<1>2. wait' = [wait EXCEPT ![w] = x]
  BY DEF Goes, WaitTyped
<1>. HIDE DEF x
<1>. QED
  BY <1>1, <1>2, Changed

(* The steps of a wait: each looks at what is true, or answers.            *)
WaitsAreTrue == WaitTyped /\ \A w \in Waiters : WaitIsTrue(w)

(* An answer is true, or says nothing of the run.                          *)
LEMMA Answered ==
    ASSUME Projected, OutsideStays, WaitsAreTrue, NEW w \in Waiters, NEW at \in Answers,
           Answer(w, at), at # "unfinished", at # "completed", at = "failed" => status = "failed"
    PROVE  WaitsAreTrue'
<1>1. /\ wait' \in [Waiters -> AWait] /\ registered' \subseteq Waiters /\ wait'[w].at = at
      /\ ~wait'[w].resolved /\ w \notin registered'
      /\ \A v \in Waiters \ {w} : wait'[v] = wait[v] /\ (v \in registered' <=> v \in registered)
  BY Gone DEF WaitsAreTrue
<1>2. status' = status
  BY ProjectedStays
<1>3. at \notin Awaits
  BY DEF Answers, Awaits
<1>4. WaitIsTrue(w)'
  BY <1>1, <1>2, <1>3 DEF WaitIsTrue, Awaits
<1>. QED
  BY <1>1, <1>4, OneWaits DEF WaitsAreTrue

(* A wait that goes on has registered before, or has seen the end.         *)
LEMMA WentOn ==
    ASSUME Projected, OutsideStays, WaitsAreTrue, NEW w \in Waiters, NEW at \in Awaits,
           Goes(w, at), registered' \in {registered, registered \cup {w}}, at # "none",
           at \in {"rereading", "reread"} => row \in Terminal,
           at = "reread" => wait[w].got = row,
           at # "read", at \in {"outputs", "steps"} => row = "completed",
           at \in {"reading", "waiting"} => wait[w].resolved \/ w \in registered',
           at = "waiting" /\ row \in Terminal => wait[w].resolved \/ flush.at # "idle"
    PROVE  WaitsAreTrue'
<1>1. /\ wait' \in [Waiters -> AWait] /\ wait'[w].at = at
      /\ wait'[w].got = wait[w].got /\ wait'[w].resolved = wait[w].resolved
      /\ \A v \in Waiters \ {w} : wait'[v] = wait[v]
  BY GoesOn DEF WaitsAreTrue
<1>2. row' = row /\ flush' = flush
  BY DEF OutsideStays, db, shadow
<1>3. at \notin Answers
  BY DEF Answers, Awaits
<1>4. wait[w].resolved => row \in Terminal
  BY DEF WaitsAreTrue, WaitIsTrue
<1>5. WaitIsTrue(w)'
  BY <1>1, <1>2, <1>3, <1>4 DEF WaitIsTrue, Answers
<1>6. registered' \subseteq Waiters /\ \A v \in Waiters \ {w} : v \in registered' <=> v \in registered
  BY DEF WaitsAreTrue, WaitTyped
<1>. QED
  BY <1>1, <1>5, <1>6, OneWaits DEF WaitsAreTrue

(* Every step of a wait keeps what is true of all the waits.               *)
LEMMA WaitSteps ==
    ASSUME CoreTyped, Projected, WaitsAreTrue, NEW w \in Waiters,
           Open(w) \/ WaitStep(w) \/ TimesOut(w)
    PROVE  OutsideStays /\ WaitsAreTrue'
<1>0. OutsideStays
  BY DEF Open, WaitStep, TimesOut, Wake, ReadRun, Decide, ReadOutputs, Waits, OutsideStays
<1>. DEFINE at == wait[w].at
<1>1. WaitIsTrue(w) /\ wait[w] \in AWait
  BY DEF WaitsAreTrue, WaitTyped
<1>2. CASE Open(w)
  <2>1. Goes(w, "reading") /\ registered' = registered \cup {w}
    BY <1>2 DEF Open, Registered, RegistersAt
  <2>. QED
    BY <1>0, <2>1, WentOn DEF Awaits
<1>3. CASE ReadRun(w)
  <2>1. CASE Answer(w, "error")
    BY <1>0, <2>1, Answered DEF Answers
  <2>2. CASE /\ wait' = [wait EXCEPT ![w].at = IF @ = "reading" THEN "read" ELSE "reread",
                                     ![w].got = row]
             /\ registered' = registered
    <3>. DEFINE x == [wait[w] EXCEPT !.at = IF wait[w].at = "reading" THEN "read" ELSE "reread",
                                     !.got = row]
    <3>1. wait[w].at \in {"reading", "rereading"} /\ row \in RunStatus \cup {"none"}
      BY <1>3 DEF ReadRun, Projected, DbTyped
    <3>2. /\ x \in AWait /\ x.got = row /\ x.resolved = wait[w].resolved
          /\ x.at = IF wait[w].at = "reading" THEN "read" ELSE "reread"
      BY <1>1, <3>1 DEF AWait, Awaits
    <3>3. wait' = [wait EXCEPT ![w] = x]
      BY <2>2 DEF WaitsAreTrue, WaitTyped
    <3>. HIDE DEF x
    <3>4. wait' \in [Waiters -> AWait] /\ wait'[w] = x /\ \A v \in Waiters \ {w} : wait'[v] = wait[v]
      BY <3>2, <3>3, Changed DEF WaitsAreTrue
    <3>5. row' = row /\ flush' = flush
      BY <1>0 DEF OutsideStays, db, shadow
    <3>6. WaitIsTrue(w)'
      <4>1. CASE wait[w].at = "reading"
        BY <1>1, <2>2, <3>2, <3>4, <3>5, <4>1 DEF WaitIsTrue, Awaits
      <4>2. CASE wait[w].at = "rereading"
        BY <1>1, <2>2, <3>2, <3>4, <3>5, <4>2 DEF WaitIsTrue, Awaits
      <4>. QED
        BY <3>1, <4>1, <4>2
    <3>. QED
      BY <1>0, <2>2, <3>4, <3>6, OneWaits DEF WaitsAreTrue, WaitTyped
  <2>. QED
    BY <1>3, <2>1, <2>2 DEF ReadRun
<1>4. CASE Decide(w)
  <2>1. CASE at = "read" /\ wait[w].got \notin Terminal /\ Goes(w, "waiting") /\ Registered(w)
    <3>1. registered' = registered
      BY <2>1 DEF Registered, RegistersAt
    <3>. QED
      BY <1>0, <1>1, <2>1, <3>1, WentOn DEF Awaits, WaitIsTrue
  <2>2. at \in {"read", "reread"} /\ wait[w].got \in Terminal => wait[w].got = row /\ row = status
    BY <1>1 DEF WaitIsTrue, Projected, RowsInOrder
  <2>3. CASE wait[w].got = "failed" /\ Answer(w, "failed")
    <3>1. status = "failed"
      BY <1>4, <2>2, <2>3 DEF Decide, Terminal
    <3>. QED
      BY <1>0, <2>3, <3>1, Answered DEF Answers
  <2>4. CASE /\ wait[w].got # "failed" /\ (at = "reread" \/ wait[w].got \in Terminal)
             /\ Goes(w, "outputs") /\ registered' = registered
    <3>1. row = "completed"
      BY <1>1, <1>4, <2>2, <2>4 DEF Decide, Terminal, WaitIsTrue
    <3>. QED
      BY <1>0, <2>4, <3>1, WentOn DEF Awaits
  <2>. QED
    BY <1>4, <2>1, <2>3, <2>4 DEF Decide
<1>5. CASE Wake(w)
  <2>1. Goes(w, "rereading") /\ registered' = registered /\ row \in Terminal
    BY <1>1, <1>5 DEF Wake, WaitIsTrue
  <2>. QED
    BY <1>0, <2>1, WentOn DEF Awaits
<1>6. CASE TimesOut(w)
  BY <1>0, <1>6, Answered DEF TimesOut, Answers
<1>7. CASE ReadOutputs(w)
  <2>1. CASE Answer(w, "error")
    BY <1>0, <2>1, Answered DEF Answers
  <2>2. row \in Terminal /\ row = "completed" /\ row = status
    BY <1>1, <1>7 DEF ReadOutputs, WaitIsTrue, Terminal, Projected, RowsInOrder
  <2>3. CASE Goes(w, "steps") /\ registered' = registered
    BY <1>0, <2>2, <2>3, WentOn DEF Awaits
  <2>4. CASE /\ wait' = [wait EXCEPT ![w].at = "completed", ![w].steps = stepRow]
             /\ registered' = Cancelled(w)
    <3>. DEFINE x == [wait[w] EXCEPT !.at = "completed", !.steps = stepRow]
    <3>1. \A s \in Steps : stepRow[s] = Truth(s)
      <4>1. \A k \in DOMAIN index : IsShown(k)
        BY <2>2 DEF Projected, RowsInOrder
      <4>. QED
        BY <4>1, AllShown DEF Projected
    <3>2. /\ x \in AWait /\ x.steps = stepRow /\ x.resolved = wait[w].resolved
          /\ x.at = "completed"
      BY <1>1 DEF AWait, Answers, Projected, DbTyped
    <3>3. wait' = [wait EXCEPT ![w] = x]
      BY <2>4 DEF WaitsAreTrue, WaitTyped
    <3>. HIDE DEF x
    <3>4. wait' \in [Waiters -> AWait] /\ wait'[w] = x /\ \A v \in Waiters \ {w} : wait'[v] = wait[v]
      BY <3>2, <3>3, Changed DEF WaitsAreTrue
    <3>5. registered' = registered \ {w}
      BY <2>4 DEF Cancelled
    <3>6. row' = row /\ status' = status /\ \A s : Truth(s)' = Truth(s)
      BY <1>0, ProjectedStays DEF OutsideStays, db
    <3>7. \A s \in Steps : wait'[w].steps[s] = Truth(s)'
      BY <3>1, <3>2, <3>4, <3>6
    <3>8. WaitIsTrue(w)'
      BY <1>1, <2>2, <3>2, <3>4, <3>5, <3>6, <3>7 DEF WaitIsTrue
    <3>. QED
      BY <1>0, <3>4, <3>5, <3>8, OneWaits DEF WaitsAreTrue, WaitTyped
  <2>. QED
    BY <1>7, <2>1, <2>2, <2>3, <2>4 DEF ReadOutputs
<1>. QED
  BY <1>0, <1>2, <1>3, <1>4, <1>5, <1>6, <1>7 DEF WaitStep

(* The queue of the tap.                                                   *)
LEMMA SeqWider ==
    ASSUME NEW S, NEW T, S \subseteq T, NEW q \in Seq(S)
    PROVE  q \in Seq(T)
<1>1. q \in [1 .. Len(q) -> S] /\ Len(q) \in Nat
  BY SeqDef
<1>2. q \in [1 .. Len(q) -> T]
  BY <1>1
<1>. QED
  BY <1>1, <1>2, SeqDef

Marks == Nat \X Nat

(* One less at the head.                                                   *)
LEMMA QueueTail ==
    ASSUME NEW q \in Seq(Marks), q # <<>>, NEW r, r = Tail(q)
    PROVE  /\ r \in Seq(Marks) /\ Len(r) = Len(q) - 1 /\ DOMAIN r = 1 .. Len(q) - 1
           /\ \A a \in DOMAIN r : r[a] = q[a + 1] /\ a + 1 \in DOMAIN q
           /\ Len(q) \in Nat /\ Len(q) >= 1 /\ DOMAIN q = 1 .. Len(q)
           /\ q[1] \in Marks /\ Head(q) = q[1] /\ 1 \in DOMAIN q
           /\ ToSet(q) = {q[1]} \cup ToSet(r)
<1>1. /\ r \in Seq(Marks) /\ Len(r) = Len(q) - 1 /\ DOMAIN r = 1 .. Len(q) - 1
      /\ \A a \in DOMAIN r : r[a] = q[a + 1] /\ a + 1 \in DOMAIN q
      /\ Len(q) \in Nat /\ Len(q) >= 1 /\ DOMAIN q = 1 .. Len(q)
      /\ q[1] \in Marks /\ Head(q) = q[1] /\ 1 \in DOMAIN q
  OBVIOUS
<1>2. ASSUME NEW a \in DOMAIN q  PROVE  a = 1 \/ \E c \in DOMAIN r : r[c] = q[a]
  <2>1. a # 1 => a - 1 \in DOMAIN r /\ r[a - 1] = q[a]
    BY <1>1
  <2>. QED
    BY <2>1
<1>3. ToSet(q) = {q[1]} \cup ToSet(r)
  BY <1>1, <1>2 DEF ToSet
<1>. QED
  BY <1>1, <1>3

(* What is behind the head of the queue.                                   *)
LEMMA BehindHead ==
    ASSUME NEW q \in Seq(Marks), q # <<>>, QueueOrder(q), NEW r, r = Tail(q)
    PROVE  /\ QueueOrder(r) /\ ToSet(r) = ToSet(q) \ {q[1]} /\ q[1] \in ToSet(q)
           /\ \A x \in ToSet(r) : /\ x[1] # q[1][1]
                                  /\ x[1] < q[1][1] => x[2] > q[1][2]
                                  /\ x[1] > q[1][1] => x[2] <= q[1][2]
<1>1. /\ r \in Seq(Marks) /\ Len(r) = Len(q) - 1 /\ DOMAIN r = 1 .. Len(q) - 1
      /\ \A a \in DOMAIN r : r[a] = q[a + 1] /\ a + 1 \in DOMAIN q
      /\ Len(q) \in Nat /\ Len(q) >= 1 /\ DOMAIN q = 1 .. Len(q)
      /\ q[1] \in Marks /\ 1 \in DOMAIN q
      /\ ToSet(q) = {q[1]} \cup ToSet(r)
  BY QueueTail
<1>2. \A a \in DOMAIN q : q[a] \in Marks /\ q[a][1] \in Nat /\ q[a][2] \in Nat
  <2>1. \A a \in DOMAIN q : q[a] \in Marks
    BY SeqSplit
  <2>. QED
    BY <2>1 DEF Marks
<1>3. ASSUME NEW a \in DOMAIN r
      PROVE  /\ r[a][1] # q[1][1]
             /\ r[a][1] < q[1][1] => r[a][2] > q[1][2]
             /\ r[a][1] > q[1][1] => r[a][2] <= q[1][2]
  <2>1. r[a] = q[a + 1] /\ a + 1 \in DOMAIN q /\ a + 1 # 1 /\ ~(a + 1 < 1) /\ a \in Nat
    BY <1>1
  <2>2. /\ q[a + 1][1] < q[1][1] => q[a + 1][2] > q[1][2] \/ (q[a + 1][2] = q[1][2] /\ a + 1 < 1)
        /\ q[1][1] < q[a + 1][1] => q[1][2] > q[a + 1][2] \/ (q[1][2] = q[a + 1][2] /\ 1 < a + 1)
        /\ q[a + 1][1] = q[1][1] => a + 1 = 1
    BY <1>1, <2>1 DEF QueueOrder
  <2>3. q[a + 1][1] \in Nat /\ q[a + 1][2] \in Nat /\ q[1][1] \in Nat /\ q[1][2] \in Nat
    BY <1>1, <1>2, <2>1
  <2>4. /\ q[a + 1][1] # q[1][1]
        /\ q[a + 1][1] < q[1][1] => q[a + 1][2] > q[1][2]
        /\ q[a + 1][1] > q[1][1] => q[a + 1][2] <= q[1][2]
    BY ONLY <2>1, <2>2, <2>3
  <2>. QED
    BY <2>1, <2>4
<1>4. QueueOrder(r)
  <2>. SUFFICES ASSUME NEW a \in DOMAIN r, NEW b \in DOMAIN r
                PROVE  /\ r[a][1] < r[b][1] =>
                             r[a][2] > r[b][2] \/ (r[a][2] = r[b][2] /\ a < b)
                       /\ r[a][1] = r[b][1] => a = b
    BY DEF QueueOrder
  <2>1. /\ r[a] = q[a + 1] /\ a + 1 \in DOMAIN q /\ r[b] = q[b + 1] /\ b + 1 \in DOMAIN q
        /\ a \in Nat /\ b \in Nat
    BY <1>1
  <2>2. /\ q[a + 1][1] < q[b + 1][1] =>
              q[a + 1][2] > q[b + 1][2] \/ (q[a + 1][2] = q[b + 1][2] /\ a + 1 < b + 1)
        /\ q[a + 1][1] = q[b + 1][1] => a + 1 = b + 1
    BY <2>1 DEF QueueOrder
  <2>3. (a + 1 < b + 1 <=> a < b) /\ (a + 1 = b + 1 => a = b)
    BY ONLY <2>1
  <2>. QED
    BY ONLY <2>1, <2>2, <2>3
<1>5. \A x \in ToSet(r) : \E a \in DOMAIN r : x = r[a]
  BY DEF ToSet
<1>6. q[1] \notin ToSet(r)
  BY <1>3, <1>5
<1>7. q[1] \in ToSet(q)
  BY <1>1 DEF ToSet
<1>. QED
  BY <1>1, <1>3, <1>4, <1>5, <1>6, <1>7

(* A mark that is put at the end: it is the newest of those at its sink,   *)
(* and the older ones are there or further.                                *)
LEMMA AtTheEnd ==
    ASSUME NEW q \in Seq(Marks), QueueOrder(q), NEW x \in Marks,
           \A y \in ToSet(q) : /\ y[1] # x[1]
                               /\ y[1] < x[1] => y[2] >= x[2]
                               /\ y[1] > x[1] => y[2] < x[2],
           NEW r, r = Append(q, x)
    PROVE  QueueOrder(r) /\ r \in Seq(Marks) /\ ToSet(r) = ToSet(q) \cup {x}
<1>1. /\ r \in Seq(Marks) /\ Len(r) = Len(q) + 1 /\ DOMAIN r = 1 .. Len(q) + 1
      /\ \A a \in 1 .. Len(q) : r[a] = q[a]
      /\ r[Len(q) + 1] = x /\ Len(q) \in Nat /\ DOMAIN q = 1 .. Len(q)
  OBVIOUS
<1>0. ToSet(r) = ToSet(q) \cup {x}
  BY <1>1 DEF ToSet
<1>2. \A a \in DOMAIN q : /\ q[a][1] \in Nat /\ q[a][2] \in Nat
                          /\ q[a][1] # x[1]
                          /\ q[a][1] < x[1] => q[a][2] >= x[2]
                          /\ q[a][1] > x[1] => q[a][2] < x[2]
  <2>1. \A a \in DOMAIN q : q[a] \in Marks /\ q[a] \in ToSet(q)
    BY SeqSplit DEF ToSet
  <2>. QED
    BY <2>1 DEF Marks
<1>3. x[1] \in Nat /\ x[2] \in Nat
  BY DEF Marks
<1>4. ASSUME NEW a \in DOMAIN r, NEW b \in DOMAIN r
      PROVE  /\ r[a][1] < r[b][1] => r[a][2] > r[b][2] \/ (r[a][2] = r[b][2] /\ a < b)
             /\ r[a][1] = r[b][1] => a = b
  <2>1. CASE a \in DOMAIN q /\ b \in DOMAIN q
    <3>1. r[a] = q[a] /\ r[b] = q[b]
      BY <1>1, <2>1
    <3>. QED
      BY <2>1, <3>1 DEF QueueOrder
  <2>2. CASE a \in DOMAIN q /\ b = Len(q) + 1
    <3>1. r[a] = q[a] /\ r[b] = x /\ a < b
      BY <1>1, <2>2
    <3>2. /\ q[a][1] \in Nat /\ q[a][2] \in Nat /\ q[a][1] # x[1]
          /\ q[a][1] < x[1] => q[a][2] >= x[2]
      BY <1>2, <2>2
    <3>. QED
      BY ONLY <1>3, <3>1, <3>2
  <2>3. CASE a = Len(q) + 1 /\ b \in DOMAIN q
    <3>1. r[a] = x /\ r[b] = q[b]
      BY <1>1, <2>3
    <3>2. /\ q[b][1] \in Nat /\ q[b][2] \in Nat /\ q[b][1] # x[1]
          /\ q[b][1] > x[1] => q[b][2] < x[2]
      BY <1>2, <2>3
    <3>. QED
      BY ONLY <1>3, <3>1, <3>2
  <2>4. CASE a = Len(q) + 1 /\ b = Len(q) + 1
    BY <1>1, <1>3, <2>4
  <2>. QED
    BY <1>1, <2>1, <2>2, <2>3, <2>4
<1>5. QueueOrder(r)
  BY <1>4 DEF QueueOrder
<1>. QED
  BY <1>0, <1>1, <1>5

(* A set of naturals has a least one: the next sink of an event.           *)
LEMMA LeastNatural ==
    ASSUME NEW S \in SUBSET Nat, S # {}
    PROVE  \E j \in S : \A other \in S : j <= other
<1>. DEFINE R == OpToRel(<, Nat)
<1>1. IsWellFoundedOn(R, Nat)
  BY NatLessThanWellFounded
<1>2. \A y, x \in Nat : y < x => <<y, x>> \in R
  BY DEF OpToRel
<1>. HIDE DEF R
<1>3. PICK x \in S : \A y \in S : <<y, x>> \notin R
  BY <1>1, WFMin
<1>4. \A y \in S : ~(y < x) /\ y \in Nat /\ x \in Nat
  BY <1>2, <1>3
<1>. QED
  BY <1>3, <1>4

TapTyped ==
    /\ sinks \in Seq(Listeners) /\ gone \subseteq ToSet(sinks)
    /\ ticks \in Seq((1 .. Len(published)) \X (1 .. EvalSink + Len(sinks)))
    /\ seen \in [Listeners -> Seq(1 .. Len(published))]
    /\ judging \in [event : 0 .. Len(published), reads : 0 .. MaxReads, known : BOOLEAN]
    /\ evalResult \in {"none", "success"}
TapInv == TapTyped /\ TapIsTrue /\ JudgingIsTrue

(* The types of the tap, in the form in which they are used.               *)
LEMMA TapFacts ==
    ASSUME CoreTyped, TapTyped
    PROVE  /\ ticks \in Seq(Marks) /\ Len(published) \in Nat /\ Len(sinks) \in Nat
           /\ DOMAIN published = 1 .. Len(published) /\ DOMAIN sinks = 1 .. Len(sinks)
           /\ \A m \in DOMAIN sinks : sinks[m] \in Listeners /\ m \in Nat
           /\ \A x \in ToSet(ticks) : x[1] \in 1 .. Len(published) /\ x[2] \in 1 .. 2 + Len(sinks)
                                      /\ x = <<x[1], x[2]>>
           /\ judging.event \in 0 .. Len(published)
           /\ \A l \in Listeners : seen[l] # <<>> => LastSeen(l) \in 1 .. Len(published)
<1>. DEFINE M == (1 .. Len(published)) \X (1 .. EvalSink + Len(sinks))
<1>1. /\ Len(published) \in Nat /\ DOMAIN published = 1 .. Len(published)
      /\ Len(sinks) \in Nat /\ DOMAIN sinks = 1 .. Len(sinks)
      /\ \A m \in DOMAIN sinks : sinks[m] \in Listeners /\ m \in Nat
  BY SeqSplit DEF CoreTyped, TapTyped
<1>2. ticks \in Seq(M) /\ M \subseteq Marks
  BY <1>1 DEF TapTyped, Marks, EvalSink
<1>3. ticks \in Seq(Marks)
  <2>. HIDE DEF M
  <2>. QED
    BY <1>2, SeqWider
<1>4. \A x \in ToSet(ticks) : x[1] \in 1 .. Len(published) /\ x[2] \in 1 .. 2 + Len(sinks)
                              /\ x = <<x[1], x[2]>>
  <2>1. \A x \in ToSet(ticks) : x \in M
    <3>. HIDE DEF M
    <3>1. DOMAIN ticks = 1 .. Len(ticks) /\ \A a \in DOMAIN ticks : ticks[a] \in M
      BY <1>2, SeqSplit
    <3>. QED
      BY <3>1 DEF ToSet
  <2>. QED
    BY <2>1 DEF EvalSink
<1>5. judging.event \in 0 .. Len(published)
  BY DEF TapTyped
<1>6. \A l \in Listeners : seen[l] # <<>> => LastSeen(l) \in 1 .. Len(published)
  <2>. DEFINE D == 1 .. Len(published)
  <2>1. \A l \in Listeners : seen[l] \in Seq(D)
    BY DEF TapTyped
  <2>. HIDE DEF D
  <2>2. ASSUME NEW l \in Listeners, seen[l] # <<>>  PROVE  LastSeen(l) \in D
    <3>1. PICK q \in Seq(D) : q = seen[l]
      BY <2>1
    <3>2. q # <<>> => q[Len(q)] \in D
      OBVIOUS
    <3>. QED
      BY <2>2, <3>1, <3>2 DEF LastSeen
  <2>. QED
    BY <2>2 DEF D
<1>. QED
  BY <1>1, <1>3, <1>4, <1>5, <1>6

(* The event that waits for the eval sink is the last of the run.          *)
LEMMA JudgedIsLast ==
    ASSUME CoreTyped, TapTyped, EventsInOrder, JudgingIsTrue
    PROVE  judging.event # 0 => judging.event = Len(published)
<1>1. judging.event \in 0 .. Len(published) /\ DOMAIN published = 1 .. Len(published)
      /\ Len(published) \in Nat
  BY TapFacts
<1>2. judging.event # 0 => published[judging.event].type \in Ends /\ judging.event \in DOMAIN published
  BY <1>1 DEF JudgingIsTrue, Ends
<1>. QED
  BY <1>2 DEF EventsInOrder

-----------------------------------------------------------------------------
(* The numbers from n up to one more than L.                               *)
LEMMA UpToOneMore ==
    \A L, n \in Nat : n >= 1 =>
       \A i \in n .. L + 1 : (i \in 1 .. L /\ i \in n .. L) \/ i = L + 1
<1>. TAKE L, n \in Nat
<1>. HAVE n >= 1
<1>. TAKE i \in n .. L + 1
<1>1. i \in Int /\ n <= i /\ i <= L + 1
  OBVIOUS
<1>2. CASE i = L + 1
  BY <1>2
<1>3. CASE i # L + 1
  <2>1. 1 <= i /\ i <= L
    BY <1>1, <1>3
  <2>. QED
    BY <1>1, <2>1
<1>. QED
  BY <1>2, <1>3

(* An event more: it is at the first sink, behind all the others.          *)
LEMMA TapPublished ==
    ASSUME CoreTyped, TapInv, EventsInOrder, NEW e, Announced(e), Publish(e), published' \in Seq(Events)
    PROVE  TapInv'
<1>a. PICK L : L = Len(published)
  OBVIOUS
<1>0. /\ published' = Append(published, e) /\ ticks' = Append(ticks, <<Len(published'), SqlSink>>)
      /\ sinks' = sinks /\ gone' = gone /\ seen' = seen /\ judging' = judging
      /\ evalResult' = evalResult /\ around' = around
  BY DEF Publish
<1>1. /\ Len(published') = L + 1 /\ \A i \in DOMAIN published : published'[i] = published[i]
  BY <1>a, <1>0, MoreEvents DEF CoreTyped
<1>2. /\ ticks \in Seq(Marks) /\ L \in Nat /\ Len(sinks) \in Nat
      /\ DOMAIN published = 1 .. L /\ DOMAIN sinks = 1 .. Len(sinks)
      /\ \A m \in DOMAIN sinks : sinks[m] \in Listeners /\ m \in Nat
      /\ \A x \in ToSet(ticks) : x[1] \in 1 .. L /\ x[2] \in 1 .. 2 + Len(sinks)
                                 /\ x = <<x[1], x[2]>>
      /\ judging.event \in 0 .. L
      /\ \A l \in Listeners : seen[l] # <<>> => LastSeen(l) \in 1 .. L
  BY <1>a, TapFacts DEF TapInv
<1>3. PICK x : x = <<L + 1, 1>>
  OBVIOUS
<1>4. x \in Marks /\ x[1] = L + 1 /\ x[2] = 1 /\ ticks' = Append(ticks, x)
  BY <1>0, <1>1, <1>2, <1>3 DEF Marks, SqlSink
<1>5. QueueOrder(ticks') /\ ToSet(ticks') = ToSet(ticks) \cup {x}
  <2>1. \A y \in ToSet(ticks) : /\ y[1] # x[1]
                                /\ y[1] < x[1] => y[2] >= x[2]
                                /\ y[1] > x[1] => y[2] < x[2]
    <3>. TAKE y \in ToSet(ticks)
    <3>1. y[1] \in 1 .. L /\ y[2] \in 1 .. 2 + Len(sinks)
      BY <1>2
    <3>. QED
      BY ONLY <1>2, <1>4, <3>1
  <2>2. QueueOrder(ticks)
    BY DEF TapInv, TapIsTrue, TicksInOrder
  <2>3. \E r : r = Append(ticks, x) /\ QueueOrder(r) /\ ToSet(r) = ToSet(ticks) \cup {x}
    BY ONLY <1>2, <1>4, <2>1, <2>2, AtTheEnd
  <2>. QED
    BY <1>4, <2>3
<1>6. \A i \in 1 .. L : Pending(i) => Pending(i)'
  BY <1>0, <1>5 DEF Pending, InTicks
<1>7. Pending(L + 1)'
  BY <1>4, <1>5 DEF Pending, InTicks
<1>8. \A i \in 1 .. L + 1 : i \in 1 .. L \/ i = L + 1
  BY <1>2
<1>9. TicksInOrder'
  <2>1. ASSUME NEW y \in ToSet(ticks)
        PROVE  /\ y[2] > EvalSink => sinks[y[2] - EvalSink] \notin gone
               /\ y[1] # judging.event
               /\ \A i \in y[1] .. L + 1 : Pending(i)'
    <3>1. \A i \in y[1] .. L : Pending(i)
      BY <1>a DEF TapInv, TapIsTrue, TicksInOrder
    <3>2. \A i \in y[1] .. L + 1 : (i \in 1 .. L /\ i \in y[1] .. L) \/ i = L + 1
      <4>1. y[1] \in 1 .. L
        BY <1>2
      <4>2. L \in Nat /\ y[1] \in Nat /\ y[1] >= 1
        BY ONLY <1>2, <4>1
      <4>. QED
        BY ONLY <4>2, UpToOneMore
    <3>. QED
      BY <1>6, <1>7, <3>1, <3>2 DEF TapInv, TapIsTrue, TicksInOrder
  <2>2. /\ ~(x[2] > EvalSink) /\ x[1] # judging.event
        /\ \A i \in x[1] .. L + 1 : i = L + 1
    <3>1. ~(1 > 2) /\ \A i \in L + 1 .. L + 1 : i = L + 1
      BY <1>2
    <3>2. L + 1 # judging.event
      BY <1>2
    <3>. QED
      BY <1>4, <3>1, <3>2 DEF EvalSink
  <2>3. \A y \in ToSet(ticks') :
           /\ y[2] > EvalSink => sinks'[y[2] - EvalSink] \notin gone'
           /\ y[1] # judging'.event
           /\ \A i \in y[1] .. Len(published') : Pending(i)'
    BY <1>a, <1>0, <1>1, <1>5, <1>7, <2>1, <2>2
  <2>. QED
    BY <1>5, <2>3 DEF TicksInOrder
<1>10. \A l \in Listeners : LastSeen(l)' = LastSeen(l)
  BY <1>0 DEF LastSeen
<1>11. ASSUME NEW m \in DOMAIN sinks, NEW l \in Listeners \ gone, sinks[m] = l, seen[l] # <<>>
       PROVE  IsUpToDate(m, l)'
  <2>1. IsUpToDate(m, l)
    BY <1>11 DEF TapInv, TapIsTrue
  <2>2. LastSeen(l) \in 1 .. L /\ m \in Nat /\ m >= 1
    BY <1>2, <1>11
  <2>3. LastSeen(l) <= L + 1
    BY <1>2, <2>2
  <2>4. \A i \in LastSeen(l) + 1 .. L + 1 : Pending(i)'
    <3>1. \A i \in LastSeen(l) + 1 .. L + 1 :
             (i \in 1 .. L /\ i \in LastSeen(l) + 1 .. L) \/ i = L + 1
      <4>1. PICK n \in 1 .. L : n = LastSeen(l)
        BY <2>2
      <4>2. \A i \in n + 1 .. L + 1 : (i \in 1 .. L /\ i \in n + 1 .. L) \/ i = L + 1
        <5>1. L \in Nat /\ n \in Nat
          BY ONLY <1>2, <4>1
        <5>2. n + 1 \in Nat /\ n + 1 >= 1
          BY ONLY <5>1
        <5>. QED
          BY ONLY <5>1, <5>2, UpToOneMore
      <4>. QED
        BY <4>1, <4>2
    <3>. QED
      BY <1>a, <1>6, <1>7, <2>1, <3>1 DEF IsUpToDate
  <2>5. \A y \in ToSet(ticks') : y[1] > LastSeen(l) <=> y[2] < EvalSink + m
    <3>1. x[1] > LastSeen(l) /\ x[2] < EvalSink + m
      BY <1>2, <1>4, <2>2 DEF EvalSink
    <3>. QED
      BY <1>5, <2>1, <3>1 DEF IsUpToDate
  <2>. QED
    BY <1>a, <1>0, <1>1, <1>10, <2>1, <2>3, <2>4, <2>5 DEF IsUpToDate
<1>12. SeenInOrder'
  <2>1. SeenInOrder
    BY DEF TapInv, TapIsTrue
  <2>. QED
    BY <1>0, <2>1 DEF SeenInOrder
<1>13. TapIsTrue'
  <2>1. /\ \A m, n \in DOMAIN sinks' : sinks'[m] = sinks'[n] => m = n
        /\ \A l \in Listeners : seen'[l] # <<>> => l \in ToSet(sinks')
    BY <1>0 DEF TapInv, TapIsTrue
  <2>2. \A m \in DOMAIN sinks' : \A l \in Listeners \ gone' :
          sinks'[m] = l /\ seen'[l] # <<>> => IsUpToDate(m, l)'
    BY <1>0, <1>11
  <2>. QED
    BY <1>9, <1>12, <2>1, <2>2 DEF TapIsTrue
<1>14. TapTyped'
  <2>. DEFINE D == 1 .. L  E == 1 .. L + 1  K == 1 .. EvalSink + Len(sinks)
  <2>1. D \subseteq E /\ D \X K \subseteq E \X K /\ 0 .. L \subseteq 0 .. L + 1
    BY <1>2
  <2>2. ticks \in Seq(D \X K) /\ x \in E \X K
    BY <1>a, <1>2, <1>3 DEF TapInv, TapTyped, EvalSink
  <2>3. \A l \in Listeners : seen[l] \in Seq(D)
    BY <1>a DEF TapInv, TapTyped
  <2>4. Len(published') = L + 1
    BY <1>a, <1>1
  <2>5. /\ sinks' \in Seq(Listeners) /\ gone' \subseteq ToSet(sinks')
        /\ evalResult' \in {"none", "success"}
        /\ judging' \in [event : 0 .. L + 1, reads : 0 .. MaxReads, known : BOOLEAN]
    BY <1>a, <1>0, <2>1 DEF TapInv, TapTyped
  <2>. HIDE DEF D, E, K
  <2>6. ticks' \in Seq(E \X K)
    <3>1. ticks \in Seq(E \X K)
      BY <2>1, <2>2, SeqWider
    <3>. QED
      BY <1>4, <2>2, <3>1
  <2>7. seen' \in [Listeners -> Seq(E)]
    <3>1. \A l \in Listeners : seen[l] \in Seq(E)
      BY <2>1, <2>3, SeqWider
    <3>2. seen \in [Listeners -> Seq(D)]
      BY <1>a DEF TapInv, TapTyped, D
    <3>. QED
      BY <1>0, <3>1, <3>2
  <2>. QED
    BY <1>0, <2>4, <2>5, <2>6, <2>7 DEF TapTyped, E, K
<1>15. JudgingIsTrue'
  <2>1. evalResult = "none"
    BY DEF TapInv, JudgingIsTrue, ScoreIsOfJudge, Announced, IsOver, TapTyped
  <2>2. judging.event # 0 => published'[judging.event] = published[judging.event]
    BY <1>1, <1>2
  <2>. QED
    BY <1>0, <2>1, <2>2 DEF TapInv, JudgingIsTrue, ScoreIsOfJudge
<1>. QED
  BY <1>13, <1>14, <1>15 DEF TapInv

(* The head of the queue, and where the others are.                        *)
HeadIs(L, h, r) ==
    /\ r \in Seq(Marks) /\ QueueOrder(r) /\ ToSet(r) = ToSet(ticks) \ {h} /\ h \in ToSet(ticks)
    /\ h \in Marks /\ h[1] \in 1 .. L /\ h[2] \in Nat /\ h = <<h[1], h[2]>>
    /\ \A j \in SinksAfter(h[2]) : /\ j \in 2 .. 2 + Len(sinks) /\ j > h[2]
                                   /\ j # EvalSink => sinks[j - EvalSink] \notin gone
    /\ h[2] = 1 => 2 \in SinksAfter(h[2])
    /\ h[2] >= 1
    /\ \A x \in ToSet(r) : /\ x[1] \in 1 .. L /\ x[2] \in Nat
                           /\ x[1] # h[1]
                           /\ x[1] < h[1] => x[2] \in SinksAfter(h[2])
                           /\ x[1] > h[1] => x[2] <= h[2]
    /\ \A m \in DOMAIN sinks : sinks[m] \notin gone /\ h[2] < 2 + m => 2 + m \in SinksAfter(h[2])

(* The order of the queue says where the others are.                       *)
LEMMA HeadOfTicks ==
    ASSUME CoreTyped, TapInv, EventsInOrder, ticks # <<>>, NEW h, h = Head(ticks),
           NEW r, r = Tail(ticks), NEW L, L = Len(published)
    PROVE  HeadIs(L, h, r)
<1>1. /\ ticks \in Seq(Marks) /\ L \in Nat /\ Len(sinks) \in Nat
      /\ DOMAIN sinks = 1 .. Len(sinks)
      /\ \A x \in ToSet(ticks) : x[1] \in 1 .. L /\ x[2] \in 1 .. 2 + Len(sinks)
                                 /\ x = <<x[1], x[2]>>
  BY TapFacts DEF TapInv
<1>2. h = ticks[1] /\ r \in Seq(Marks)
  BY ONLY <1>1, ticks # <<>>, h = Head(ticks), r = Tail(ticks)
<1>3. /\ QueueOrder(r) /\ ToSet(r) = ToSet(ticks) \ {h} /\ h \in ToSet(ticks)
      /\ \A x \in ToSet(r) : /\ x[1] # h[1]
                             /\ x[1] < h[1] => x[2] > h[2]
                             /\ x[1] > h[1] => x[2] <= h[2]
  <2>1. QueueOrder(ticks)
    BY DEF TapInv, TapIsTrue, TicksInOrder
  <2>. QED
    BY <1>1, <1>2, <2>1, BehindHead
<1>4. h[1] \in 1 .. L /\ h[2] \in 1 .. 2 + Len(sinks) /\ h = <<h[1], h[2]>>
  BY <1>1, <1>3
<1>5. h \in Marks /\ h[2] \in Nat /\ h[2] >= 1
  BY <1>1, <1>4 DEF Marks
<1>6. \A j : j \in SinksAfter(h[2]) <=> /\ j \in h[2] + 1 .. 2 + Len(sinks)
                                        /\ j = 2 \/ sinks[j - 2] \notin gone
  BY DEF SinksAfter, EvalSink
<1>7. \A j \in SinksAfter(h[2]) : /\ j \in 2 .. 2 + Len(sinks) /\ j > h[2]
                                  /\ j # EvalSink => sinks[j - EvalSink] \notin gone
  BY <1>1, <1>5, <1>6 DEF EvalSink
<1>8. h[2] = 1 => 2 \in SinksAfter(h[2])
  BY <1>1, <1>6
<1>9. \A m \in DOMAIN sinks : sinks[m] \notin gone /\ h[2] < 2 + m => 2 + m \in SinksAfter(h[2])
  <2>. TAKE m \in DOMAIN sinks
  <2>1. m \in 1 .. Len(sinks) /\ (2 + m) - 2 = m
    BY <1>1
  <2>2. h[2] < 2 + m => 2 + m \in h[2] + 1 .. 2 + Len(sinks)
    BY ONLY <1>1, <1>5, <2>1
  <2>. QED
    BY <1>6, <2>1, <2>2
<1>10. ASSUME NEW x \in ToSet(r)
       PROVE  /\ x[1] \in 1 .. L /\ x[2] \in Nat
              /\ x[1] < h[1] => x[2] \in SinksAfter(h[2])
  <2>1. x \in ToSet(ticks) /\ x[1] \in 1 .. L /\ x[2] \in 1 .. 2 + Len(sinks)
    BY <1>1, <1>3
  <2>2. x[2] > 2 => sinks[x[2] - 2] \notin gone
    BY <2>1 DEF TapInv, TapIsTrue, TicksInOrder, EvalSink
  <2>3. x[2] > h[2] => x[2] \in h[2] + 1 .. 2 + Len(sinks) /\ (x[2] = 2 \/ x[2] > 2)
    BY ONLY <1>1, <1>5, <2>1
  <2>. QED
    BY <1>1, <1>3, <1>6, <2>1, <2>2, <2>3
<1>. QED
  BY <1>2, <1>3, <1>4, <1>5, <1>7, <1>8, <1>9, <1>10 DEF HeadIs

(* What the microtasks leave alone.                                        *)
TapFrame == /\ published' = published /\ sinks' = sinks /\ gone' = gone /\ around' = around
            /\ evalResult' = evalResult

(* The event goes on to the next sink.                                     *)
LEMMA MovedOn ==
    ASSUME CoreTyped, TapInv, NEW h, NEW r, NEW L, L = Len(published), HeadIs(L, h, r), TapFrame,
           NEW j \in SinksAfter(h[2]), \A other \in SinksAfter(h[2]) : j <= other,
           NEW x, x = <<h[1], j>>, ticks' = Append(r, x), judging'.event = judging.event
    PROVE  /\ TicksInOrder' /\ ToSet(ticks') = ToSet(r) \cup {x}
           /\ \A i : Pending(i)' <=> Pending(i)
           /\ \A m \in DOMAIN sinks, l \in Listeners \ gone :
                 sinks[m] = l /\ seen[l] # <<>> /\ m + 2 # j /\ seen'[l] = seen[l]
                    => IsUpToDate(m, l)'
<1>1. /\ r \in Seq(Marks) /\ QueueOrder(r) /\ ToSet(r) = ToSet(ticks) \ {h} /\ h \in ToSet(ticks)
      /\ h \in Marks /\ h[1] \in 1 .. L /\ h[2] \in Nat /\ h = <<h[1], h[2]>>
      /\ j \in 2 .. 2 + Len(sinks) /\ j > h[2] /\ (j # EvalSink => sinks[j - EvalSink] \notin gone)
      /\ \A y \in ToSet(r) : /\ y[1] \in 1 .. L /\ y[2] \in Nat
                             /\ y[1] # h[1]
                             /\ y[1] < h[1] => y[2] \in SinksAfter(h[2])
                             /\ y[1] > h[1] => y[2] <= h[2]
      /\ \A m \in DOMAIN sinks : sinks[m] \notin gone /\ h[2] < 2 + m => 2 + m \in SinksAfter(h[2])
  BY DEF HeadIs
<1>2. L \in Nat /\ Len(sinks) \in Nat /\ DOMAIN sinks = 1 .. Len(sinks)
      /\ \A l \in Listeners : seen[l] # <<>> => LastSeen(l) \in 1 .. L
  BY TapFacts DEF TapInv
<1>3. x \in Marks /\ x[1] = h[1] /\ x[2] = j /\ j \in Nat
  BY <1>1, <1>2 DEF Marks
<1>4. \A y \in ToSet(r) : /\ y[1] # x[1]
                          /\ y[1] < x[1] => y[2] >= x[2]
                          /\ y[1] > x[1] => y[2] < x[2]
  <2>. TAKE y \in ToSet(r)
  <2>1. /\ y[1] # h[1] /\ (y[1] < h[1] => j <= y[2]) /\ (y[1] > h[1] => y[2] <= h[2])
        /\ y[2] \in Nat
    BY <1>1
  <2>. QED
    BY ONLY <1>1, <1>3, <2>1
<1>5. QueueOrder(ticks') /\ ToSet(ticks') = ToSet(r) \cup {x}
  <2>1. \E q : q = Append(r, x) /\ QueueOrder(q) /\ ToSet(q) = ToSet(r) \cup {x}
    BY ONLY <1>1, <1>3, <1>4, AtTheEnd
  <2>. QED
    BY <2>1
<1>6. \A i : Pending(i)' <=> Pending(i)
  <2>1. \A i : InTicks(i)' <=> InTicks(i)
    BY <1>1, <1>3, <1>5 DEF InTicks
  <2>. QED
    BY <2>1 DEF Pending
<1>7. TicksInOrder'
  <2>1. \A y \in ToSet(ticks) :
           /\ y[2] > EvalSink => sinks[y[2] - EvalSink] \notin gone
           /\ y[1] # judging.event
           /\ \A i \in y[1] .. L : Pending(i)
    BY DEF TapInv, TapIsTrue, TicksInOrder
  <2>2. /\ x[2] > EvalSink => sinks[x[2] - EvalSink] \notin gone
        /\ x[1] # judging.event
        /\ \A i \in x[1] .. L : Pending(i)
    <3>1. j > EvalSink => j # EvalSink
      BY <1>3 DEF EvalSink
    <3>. QED
      BY <1>1, <1>3, <2>1, <3>1
  <2>3. \A y \in ToSet(ticks') :
           /\ y[2] > EvalSink => sinks'[y[2] - EvalSink] \notin gone'
           /\ y[1] # judging'.event
           /\ \A i \in y[1] .. Len(published') : Pending(i)'
    BY <1>1, <1>5, <1>6, <2>1, <2>2 DEF TapFrame
  <2>. QED
    BY <1>5, <2>3 DEF TicksInOrder
<1>8. ASSUME NEW m \in DOMAIN sinks, NEW l \in Listeners \ gone,
             sinks[m] = l, seen[l] # <<>>, m + 2 # j, seen'[l] = seen[l]
      PROVE  IsUpToDate(m, l)'
  <2>1. IsUpToDate(m, l)
    BY <1>8 DEF TapInv, TapIsTrue
  <2>2. LastSeen(l)' = LastSeen(l)
    BY <1>8 DEF LastSeen
  <2>3. m \in Nat /\ (h[2] < 2 + m => j <= 2 + m)
    BY <1>1, <1>2, <1>8
  <2>4. x[2] < EvalSink + m <=> h[2] < EvalSink + m
    BY ONLY <1>1, <1>2, <1>3, <1>8, <2>3 DEF EvalSink
  <2>5. \A y \in ToSet(ticks') : y[1] > LastSeen(l) <=> y[2] < EvalSink + m
    <3>1. \A y \in ToSet(ticks) : y[1] > LastSeen(l) <=> y[2] < EvalSink + m
      BY <2>1 DEF IsUpToDate
    <3>2. x[1] > LastSeen(l) <=> x[2] < EvalSink + m
      BY <1>1, <1>3, <2>4, <3>1
    <3>. QED
      BY <1>1, <1>5, <3>1, <3>2
  <2>. QED
    BY <1>6, <2>1, <2>2, <2>5 DEF IsUpToDate, TapFrame
<1>. QED
  BY <1>5, <1>6, <1>7, <1>8

(* The event leaves the queue: for good, or to wait for the eval sink.     *)
LEMMA LeftQueue ==
    ASSUME CoreTyped, TapInv, NEW h, NEW r, NEW L, L = Len(published), HeadIs(L, h, r), TapFrame,
           ticks' = r, seen' = seen,
           \/ judging'.event = judging.event /\ SinksAfter(h[2]) = {}
           \/ judging.event = 0 /\ judging'.event = h[1] /\ h[2] = 1
    PROVE  TapIsTrue'
<1>1. /\ r \in Seq(Marks) /\ QueueOrder(r) /\ ToSet(r) = ToSet(ticks) \ {h} /\ h \in ToSet(ticks)
      /\ h[1] \in 1 .. L /\ h[2] \in Nat /\ h[2] >= 1
      /\ \A y \in ToSet(r) : /\ y[1] \in 1 .. L /\ y[2] \in Nat
                             /\ y[1] # h[1]
                             /\ y[1] < h[1] => y[2] \in SinksAfter(h[2])
                             /\ y[1] > h[1] => y[2] <= h[2]
      /\ \A m \in DOMAIN sinks : sinks[m] \notin gone /\ h[2] < 2 + m => 2 + m \in SinksAfter(h[2])
  BY DEF HeadIs
<1>2. L \in Nat /\ Len(sinks) \in Nat /\ DOMAIN sinks = 1 .. Len(sinks)
      /\ judging.event \in 0 .. L
      /\ \A l \in Listeners : seen[l] # <<>> => LastSeen(l) \in 1 .. L
  BY TapFacts DEF TapInv
<1>3. \A i \in 1 .. L : Pending(i) /\ (i = h[1] => judging'.event = h[1]) => Pending(i)'
  BY <1>1, <1>2 DEF Pending, InTicks
<1>4. TicksInOrder'
  <2>1. \A y \in ToSet(ticks) :
           /\ y[2] > EvalSink => sinks[y[2] - EvalSink] \notin gone
           /\ y[1] # judging.event
           /\ \A i \in y[1] .. L : Pending(i)
    BY DEF TapInv, TapIsTrue, TicksInOrder
  <2>2. ASSUME NEW y \in ToSet(r), NEW i \in y[1] .. L  PROVE  Pending(i)'
    <3>1. Pending(i)
      BY <1>1, <2>1
    <3>2. i = h[1] => judging'.event = h[1]
      <4>1. i = h[1] => y[1] < h[1]
        <5>1. y[1] \in 1 .. L /\ y[1] # h[1]
          BY <1>1
        <5>. QED
          BY ONLY <1>1, <1>2, <2>2, <5>1
      <4>. QED
        BY <1>1, <4>1
    <3>3. i \in 1 .. L
      <4>1. y[1] \in 1 .. L
        BY <1>1
      <4>. QED
        BY ONLY <1>2, <2>2, <4>1
    <3>. QED
      BY <1>3, <3>1, <3>2, <3>3
  <2>3. \A y \in ToSet(ticks') :
           /\ y[2] > EvalSink => sinks'[y[2] - EvalSink] \notin gone'
           /\ y[1] # judging'.event
           /\ \A i \in y[1] .. Len(published') : Pending(i)'
    BY <1>1, <2>1, <2>2 DEF TapFrame
  <2>. QED
    BY <1>1, <2>3 DEF TicksInOrder
<1>5. ASSUME NEW m \in DOMAIN sinks, NEW l \in Listeners \ gone, sinks[m] = l, seen[l] # <<>>
      PROVE  IsUpToDate(m, l)'
  <2>1. IsUpToDate(m, l)
    BY <1>5 DEF TapInv, TapIsTrue
  <2>2. LastSeen(l)' = LastSeen(l)
    BY DEF LastSeen
  <2>3. PICK n \in 1 .. L : n = LastSeen(l)
    BY <1>2, <1>5
  <2>4. h[1] > n <=> h[2] < EvalSink + m
    BY <1>1, <2>1, <2>3 DEF IsUpToDate
  <2>5. m \in Nat /\ m >= 1 /\ (h[2] = 1 => h[2] < EvalSink + m)
    BY <1>2, <1>5 DEF EvalSink
  <2>6. h[1] > n => judging'.event = h[1]
    BY <1>1, <1>5, <2>4 DEF EvalSink
  <2>7. \A i \in n + 1 .. L : Pending(i)'
    <3>. TAKE i \in n + 1 .. L
    <3>1. i \in 1 .. L /\ i > n
      BY <1>2, <2>3
    <3>2. Pending(i)
      BY <2>1, <2>3 DEF IsUpToDate
    <3>. QED
      BY <1>3, <2>6, <3>1, <3>2
  <2>8. judging'.event # 0 => judging'.event > n
    BY <1>1, <2>1, <2>3, <2>4, <2>5 DEF IsUpToDate
  <2>9. \A y \in ToSet(ticks') : y[1] > n <=> y[2] < EvalSink + m
    BY <1>1, <2>1, <2>3 DEF IsUpToDate
  <2>10. n <= L
    BY <1>2
  <2>. QED
    BY <2>2, <2>3, <2>7, <2>8, <2>9, <2>10 DEF IsUpToDate, TapFrame
<1>6. SeenInOrder'
  BY DEF TapInv, TapIsTrue, SeenInOrder
<1>7. /\ \A m, n \in DOMAIN sinks' : sinks'[m] = sinks'[n] => m = n
      /\ \A l \in Listeners : seen'[l] # <<>> => l \in ToSet(sinks')
      /\ \A m \in DOMAIN sinks' : \A l \in Listeners \ gone' :
          sinks'[m] = l /\ seen'[l] # <<>> => IsUpToDate(m, l)'
  BY <1>5 DEF TapInv, TapIsTrue, TapFrame
<1>. QED
  BY <1>4, <1>6, <1>7 DEF TapIsTrue

(* A listener is given the event that follows those that it has seen.      *)
LEMMA ListenerIsGiven ==
    ASSUME CoreTyped, TapInv, EventsInOrder, NEW h, NEW r, NEW L, L = Len(published),
           HeadIs(L, h, r), TapFrame,
           NEW j \in SinksAfter(h[2]), \A other \in SinksAfter(h[2]) : j <= other, j # EvalSink,
           ticks' = Append(r, <<h[1], j>>), judging' = judging,
           seen' = [seen EXCEPT ![sinks[j - EvalSink]] = Append(@, h[1])]
    PROVE  TapIsTrue' /\ seen' \in [Listeners -> Seq(1 .. L)]
<1>0. PICK x : x = <<h[1], j>>
  OBVIOUS
<1>1. /\ ToSet(r) = ToSet(ticks) \ {h} /\ h \in ToSet(ticks)
      /\ h[1] \in 1 .. L /\ h[2] \in Nat /\ h = <<h[1], h[2]>>
      /\ j \in 2 .. 2 + Len(sinks) /\ j > h[2] /\ sinks[j - EvalSink] \notin gone
      /\ \A y \in ToSet(r) : /\ y[1] \in 1 .. L /\ y[2] \in Nat
                             /\ y[1] # h[1]
                             /\ y[1] < h[1] => j <= y[2]
                             /\ y[1] > h[1] => y[2] <= h[2]
  BY DEF HeadIs
<1>2. L \in Nat /\ Len(sinks) \in Nat /\ DOMAIN sinks = 1 .. Len(sinks)
      /\ (\A m \in DOMAIN sinks : sinks[m] \in Listeners)
      /\ judging.event \in 0 .. L
      /\ \A l \in Listeners : seen[l] # <<>> => LastSeen(l) \in 1 .. L
  BY TapFacts DEF TapInv
<1>3. PICK d \in DOMAIN sinks : d = j - EvalSink
  BY <1>1, <1>2 DEF EvalSink
<1>4. PICK l \in Listeners : l = sinks[d]
  BY <1>2, <1>3
<1>5. /\ d \in Nat /\ d >= 1 /\ j = EvalSink + d /\ l \notin gone
      /\ seen' = [seen EXCEPT ![l] = Append(@, h[1])]
  BY <1>1, <1>2, <1>3, <1>4 DEF EvalSink
<1>6. /\ TicksInOrder' /\ ToSet(ticks') = ToSet(r) \cup {x}
      /\ \A i : Pending(i)' <=> Pending(i)
      /\ \A m \in DOMAIN sinks, k \in Listeners \ gone :
            sinks[m] = k /\ seen[k] # <<>> /\ m + 2 # j /\ seen'[k] = seen[k]
               => IsUpToDate(m, k)'
  BY <1>0, MovedOn
<1>7. seen \in [Listeners -> Seq(1 .. L)]
  BY DEF TapInv, TapTyped
<1>8. PICK q \in Seq(1 .. L) : q = seen[l]
  BY <1>7
<1>9. PICK g : g = Append(q, h[1])
  OBVIOUS
<1>10. /\ g \in Seq(1 .. L) /\ Len(g) = Len(q) + 1 /\ Len(q) \in Nat /\ g # <<>>
       /\ g[Len(q) + 1] = h[1] /\ \A k \in 1 .. Len(q) : g[k] = q[k]
  BY ONLY <1>1, <1>8, <1>9
<1>11. seen'[l] = g /\ (\A k \in Listeners \ {l} : seen'[k] = seen[k]) /\ LastSeen(l)' = h[1]
  BY <1>5, <1>7, <1>8, <1>9, <1>10 DEF LastSeen
<1>12. seen' \in [Listeners -> Seq(1 .. L)]
  BY <1>5, <1>7, <1>8, <1>9, <1>10
<1>13. judging.event # 0 => judging.event > h[1] /\ judging.event = L
  <2>1. judging.event # h[1]
    BY <1>1 DEF TapInv, TapIsTrue, TicksInOrder
  <2>2. judging.event # 0 => judging.event = L
    BY JudgedIsLast DEF TapInv
  <2>. QED
    BY ONLY <1>1, <1>2, <2>1, <2>2
<1>14. IsUpToDate(d, l)'
  <2>1. h[1] <= L
    BY <1>1, <1>2
  <2>2. \A i \in h[1] + 1 .. L : Pending(i)'
    <3>1. \A i \in h[1] .. L : Pending(i)
      BY <1>1 DEF TapInv, TapIsTrue, TicksInOrder
    <3>2. h[1] + 1 .. L \subseteq h[1] .. L
      BY <1>1
    <3>. QED
      BY <1>6, <3>1, <3>2
  <2>3. \A y \in ToSet(ticks') : y[1] > h[1] <=> y[2] < EvalSink + d
    <3>1. ASSUME NEW y \in ToSet(r)  PROVE  y[1] > h[1] <=> y[2] < j
      <4>1. /\ y[1] \in 1 .. L /\ y[2] \in Nat /\ y[1] # h[1]
            /\ y[1] < h[1] => j <= y[2]
            /\ y[1] > h[1] => y[2] <= h[2]
        BY <1>1
      <4>. QED
        BY ONLY <1>1, <4>1
    <3>2. ~(x[1] > h[1]) /\ ~(x[2] < j)
      BY <1>0, <1>1
    <3>. QED
      BY <1>5, <1>6, <3>1, <3>2
  <2>. QED
    BY <1>11, <1>13, <2>1, <2>2, <2>3 DEF IsUpToDate, TapFrame
<1>15. ASSUME seen[l] # <<>>  PROVE  h[1] = LastSeen(l) + 1
  <2>1. IsUpToDate(d, l)
    BY <1>3, <1>4, <1>5, <1>15 DEF TapInv, TapIsTrue
  <2>2. PICK n \in 1 .. L : n = LastSeen(l)
    BY <1>2, <1>15
  <2>3. h[1] > n
    BY <1>1, <1>5, <2>1, <2>2 DEF IsUpToDate
  <2>4. ASSUME h[1] # n + 1  PROVE  FALSE
    <3>1. PICK i \in n + 1 .. L : i = h[1] - 1 /\ i < h[1] /\ i > n /\ i < L
      BY ONLY <1>1, <1>2, <2>2, <2>3, <2>4
    <3>2. Pending(i) /\ i # judging.event
      BY <1>2, <1>13, <2>1, <2>2, <3>1 DEF IsUpToDate
    <3>3. PICK y \in ToSet(ticks) : y[1] = i
      BY <3>2 DEF Pending, InTicks
    <3>4. y \in ToSet(r) /\ j <= y[2] /\ y[2] \in Nat
      BY <1>1, <3>1, <3>3
    <3>5. y[2] < EvalSink + d
      BY <2>1, <2>2, <3>1, <3>3 DEF IsUpToDate
    <3>. QED
      BY <1>1, <1>5, <3>4, <3>5
  <2>. QED
    BY <2>2, <2>4
<1>16. SeenInOrder'
  <2>1. ASSUME NEW k \in 1 .. Len(g) - 1  PROVE  g[k + 1] = g[k] + 1
    <3>1. CASE k = Len(q)
      <4>1. q # <<>> /\ LastSeen(l) = q[Len(q)] /\ k \in 1 .. Len(q)
        BY <1>8, <1>10, <2>1, <3>1 DEF LastSeen
      <4>. QED
        BY <1>8, <1>10, <1>15, <3>1, <4>1
    <3>2. CASE k # Len(q)
      <4>1. k \in 1 .. Len(q) - 1 /\ k \in 1 .. Len(q) /\ k + 1 \in 1 .. Len(q)
        BY <1>10, <2>1, <3>2
      <4>2. q[k + 1] = q[k] + 1
        BY <1>8, <4>1 DEF TapInv, TapIsTrue, SeenInOrder
      <4>. QED
        BY <1>10, <4>1, <4>2
    <3>. QED
      BY <3>1, <3>2
  <2>2. \A o \in Listeners \ {l} : \A k \in 1 .. Len(seen'[o]) - 1 : seen'[o][k + 1] = seen'[o][k] + 1
    <3>. TAKE o \in Listeners \ {l}
    <3>1. seen'[o] = seen[o]
      BY <1>11
    <3>2. \A k \in 1 .. Len(seen[o]) - 1 : seen[o][k + 1] = seen[o][k] + 1
      BY DEF TapInv, TapIsTrue, SeenInOrder
    <3>. QED
      BY ONLY <3>1, <3>2
  <2>. QED
    BY <1>11, <2>1, <2>2 DEF SeenInOrder
<1>17. /\ \A m, n \in DOMAIN sinks' : sinks'[m] = sinks'[n] => m = n
       /\ \A k \in Listeners : seen'[k] # <<>> => k \in ToSet(sinks')
  <2>1. l \in ToSet(sinks)
    BY <1>4 DEF ToSet
  <2>. QED
    BY <1>11, <2>1 DEF TapInv, TapIsTrue, TapFrame
<1>18. ASSUME NEW m \in DOMAIN sinks, NEW k \in Listeners \ gone, sinks[m] = k, seen'[k] # <<>>
       PROVE  IsUpToDate(m, k)'
  <2>1. CASE k = l
    <3>1. m = d
      BY <1>3, <1>4, <1>18, <2>1 DEF TapInv, TapIsTrue
    <3>. QED
      BY <1>14, <2>1, <3>1
  <2>2. CASE k # l
    <3>1. m # d /\ m \in Nat /\ seen'[k] = seen[k]
      BY <1>2, <1>4, <1>11, <1>18, <2>2
    <3>2. m + 2 # j
      BY <1>5, <3>1 DEF EvalSink
    <3>. QED
      BY <1>6, <1>18, <3>1, <3>2
  <2>. QED
    BY <2>1, <2>2
<1>19. TapIsTrue'
  BY <1>6, <1>16, <1>17, <1>18 DEF TapIsTrue, TapFrame
<1>. QED
  BY <1>12, <1>19

(* The eval sink lets the event pass, or keeps it.                         *)
LEMMA EvalPasses ==
    ASSUME CoreTyped, TapInv, NEW h, NEW r, NEW L, L = Len(published), HeadIs(L, h, r), TapFrame,
           EvalSink \in SinksAfter(h[2]), \A other \in SinksAfter(h[2]) : EvalSink <= other,
           ticks' = Append(r, <<h[1], EvalSink>>), judging'.event = judging.event, seen' = seen
    PROVE  TapIsTrue'
<1>0. PICK x : x = <<h[1], EvalSink>>
  OBVIOUS
<1>1. /\ TicksInOrder' /\ ToSet(ticks') = ToSet(r) \cup {x}
      /\ \A i : Pending(i)' <=> Pending(i)
      /\ \A m \in DOMAIN sinks, k \in Listeners \ gone :
            sinks[m] = k /\ seen[k] # <<>> /\ m + 2 # EvalSink /\ seen'[k] = seen[k]
               => IsUpToDate(m, k)'
  BY <1>0, MovedOn
<1>2. \A m \in DOMAIN sinks : m + 2 # EvalSink
  <2>1. DOMAIN sinks = 1 .. Len(sinks) /\ Len(sinks) \in Nat
    BY TapFacts DEF TapInv
  <2>. QED
    BY <2>1 DEF EvalSink
<1>3. SeenInOrder'
  BY DEF TapInv, TapIsTrue, SeenInOrder
<1>4. /\ \A m, n \in DOMAIN sinks' : sinks'[m] = sinks'[n] => m = n
      /\ \A l \in Listeners : seen'[l] # <<>> => l \in ToSet(sinks')
      /\ \A m \in DOMAIN sinks' : \A l \in Listeners \ gone' :
          sinks'[m] = l /\ seen'[l] # <<>> => IsUpToDate(m, l)'
  BY <1>1, <1>2 DEF TapInv, TapIsTrue, TapFrame
<1>. QED
  BY <1>1, <1>3, <1>4 DEF TapIsTrue

(* A microtask of the tap.                                                 *)
LEMMA Ticked ==
    ASSUME CoreTyped, TapInv, EventsInOrder, Tick
    PROVE  TapInv'
<1>0. PICK L : L = Len(published)
  OBVIOUS
<1>a. PICK h : h = Head(ticks)
  OBVIOUS
<1>b. PICK r : r = Tail(ticks)
  OBVIOUS
<1>c. PICK js : js = SinksAfter(h[2])
  OBVIOUS
<1>1. ticks # <<>> /\ TapFrame
  BY DEF Tick, TapFrame
<1>2. HeadIs(L, h, r)
  BY <1>0, <1>a, <1>b, <1>1, HeadOfTicks
<1>3. IF js = {} THEN ticks' = r /\ judging' = judging /\ seen' = seen
      ELSE IF NextSink(js) = EvalSink THEN EvalHandles(h[1]) /\ seen' = seen
      ELSE /\ seen' = [seen EXCEPT ![sinks[NextSink(js) - EvalSink]] = Append(@, h[1])]
           /\ ticks' = Append(r, <<h[1], NextSink(js)>>)
           /\ judging' = judging
  BY <1>a, <1>b, <1>c DEF Tick
<1>4. /\ L \in Nat /\ DOMAIN published = 1 .. L /\ Len(sinks) \in Nat
      /\ judging.event \in 0 .. L
      /\ judging \in [event : 0 .. L, reads : 0 .. MaxReads, known : BOOLEAN]
      /\ seen \in [Listeners -> Seq(1 .. L)]
  BY <1>0, TapFacts DEF TapInv, TapTyped
<1>5. js # {} => NextSink(js) \in js /\ \A other \in js : NextSink(js) <= other
  <2>1. js \in SUBSET Nat
    BY <1>c, <1>2, <1>4 DEF HeadIs
  <2>2. js # {} => \E j \in js : \A other \in js : j <= other
    BY <2>1, LeastNatural
  <2>. QED
    BY <2>2 DEF NextSink
<1>6. ticks' \in Seq((1 .. L) \X (1 .. EvalSink + Len(sinks)))
  <2>. DEFINE M == (1 .. L) \X (1 .. EvalSink + Len(sinks))
  <2>1. ticks \in Seq(M)
    BY <1>0 DEF TapInv, TapTyped
  <2>2. \A j \in js : <<h[1], j>> \in M
    BY <1>c, <1>2, <1>4 DEF HeadIs, EvalSink
  <2>. HIDE DEF M
  <2>3. r \in Seq(M) /\ \A j \in js : Append(r, <<h[1], j>>) \in Seq(M)
    BY <1>b, <1>1, <2>1, <2>2
  <2>4. \/ ticks' = r \/ \E j \in js : ticks' = Append(r, <<h[1], j>>)
    BY <1>b, <1>a, <1>3, <1>5 DEF EvalHandles
  <2>. QED
    BY <2>3, <2>4 DEF M
<1>7. CASE js = {}
  <2>1. TapIsTrue'
    BY <1>0, <1>c, <1>1, <1>2, <1>3, <1>7, LeftQueue
  <2>. QED
    BY <1>0, <1>1, <1>3, <1>6, <1>7, <2>1
       DEF TapInv, TapTyped, TapFrame, JudgingIsTrue, ScoreIsOfJudge, Emitted, Truth, EventsOf, InProgress
<1>8. CASE js # {} /\ NextSink(js) # EvalSink
  <2>1. PICK j \in js : j = NextSink(js)
    BY <1>5, <1>8
  <2>2. TapIsTrue' /\ seen' \in [Listeners -> Seq(1 .. L)]
    BY <1>0, <1>c, <1>1, <1>2, <1>3, <1>5, <1>8, <2>1, ListenerIsGiven
  <2>. QED
    BY <1>0, <1>1, <1>3, <1>6, <1>8, <2>2
       DEF TapInv, TapTyped, TapFrame, JudgingIsTrue, ScoreIsOfJudge, Emitted, Truth, EventsOf, InProgress
<1>9. CASE js # {} /\ NextSink(js) = EvalSink
  <2>1. EvalHandles(h[1]) /\ seen' = seen /\ EvalSink \in js /\ \A other \in js : EvalSink <= other
    BY <1>3, <1>5, <1>9
  <2>2. h[1] \in 1 .. L /\ h[2] = 1
    <3>1. h[2] \in Nat /\ h[2] >= 1 /\ EvalSink > h[2] /\ h[1] \in 1 .. L
      BY <1>c, <1>2, <2>1 DEF HeadIs
    <3>. QED
      BY <3>1 DEF EvalSink
  <2>3. CASE Slow(published[h[1]])
    <3>1. /\ judging' = [event |-> h[1], reads |-> 0, known |-> FALSE] /\ ticks' = r
          /\ judging.known /\ published[h[1]].type = "run.completed"
      BY <1>b, <2>1, <2>3 DEF EvalHandles, Slow
    <3>2. judging.event = 0
      <4>1. judging.event # 0 => judging.event = L
        BY <1>0, JudgedIsLast DEF TapInv
      <4>2. h[1] = L
        BY <1>0, <1>4, <2>2, <3>1 DEF EventsInOrder, Ends
      <4>3. judging.event # h[1]
        BY <1>2 DEF HeadIs, TapInv, TapIsTrue, TicksInOrder
      <4>. QED
        BY <4>1, <4>2, <4>3
    <3>3. TapIsTrue'
      <4>1. judging'.event = h[1]
        BY <3>1
      <4>. QED
        BY <1>0, <1>1, <1>2, <2>1, <2>2, <3>1, <3>2, <4>1, LeftQueue
    <3>4. judging' \in [event : 0 .. L, reads : 0 .. MaxReads, known : BOOLEAN]
      BY <1>4, <2>2, <3>1, SurroundingsAssumption
    <3>5. JudgingIsTrue'
      BY <1>1, <3>1 DEF TapInv, TapFrame, JudgingIsTrue, ScoreIsOfJudge, Emitted, Truth, EventsOf, InProgress
    <3>. QED
      BY <1>0, <1>1, <1>6, <2>1, <3>3, <3>4, <3>5 DEF TapInv, TapTyped, TapFrame
  <2>4. CASE ~Slow(published[h[1]])
    <3>1. /\ judging' = [judging EXCEPT !.known = @ \/ (around.isEval /\ published[h[1]].type = "run.requested")]
          /\ ticks' = Append(r, <<h[1], EvalSink>>)
      BY <1>b, <2>1, <2>4 DEF EvalHandles
    <3>2. /\ judging' \in [event : 0 .. L, reads : 0 .. MaxReads, known : BOOLEAN]
          /\ judging'.event = judging.event /\ (judging'.known => judging.known \/ around.isEval)
      <4>1. around.isEval \in BOOLEAN
        BY SurroundingsAssumption DEF CoreTyped
      <4>. QED
        BY <1>4, <3>1, <4>1
    <3>3. TapIsTrue'
      BY <1>0, <1>c, <1>1, <1>2, <2>1, <3>1, <3>2, EvalPasses
    <3>4. JudgingIsTrue'
      BY <1>1, <3>2 DEF TapInv, TapFrame, JudgingIsTrue, ScoreIsOfJudge, Emitted, Truth, EventsOf, InProgress
    <3>. QED
      BY <1>0, <1>1, <1>6, <2>1, <3>2, <3>3, <3>4 DEF TapInv, TapTyped, TapFrame
  <2>. QED
    BY <2>3, <2>4
<1>. QED
  BY <1>7, <1>8, <1>9

(* What is true of the tap when it does not move.                          *)
LEMMA TapStays ==
    ASSUME TapInv, UNCHANGED <<published, tap, around>>
    PROVE  TapInv'
<1>1. /\ published' = published /\ sinks' = sinks /\ gone' = gone /\ ticks' = ticks /\ seen' = seen
      /\ judging' = judging /\ evalResult' = evalResult /\ around' = around
  BY DEF tap
<1>2. TapTyped'
  BY <1>1 DEF TapInv, TapTyped
<1>3. \A i : Pending(i)' <=> Pending(i)
  BY <1>1 DEF Pending, InTicks
<1>4. \A m, l : IsUpToDate(m, l)' <=> IsUpToDate(m, l)
  BY <1>1, <1>3 DEF IsUpToDate, LastSeen
<1>5. TapIsTrue'
  <2>1. TicksInOrder'
    BY <1>1, <1>3 DEF TapInv, TapIsTrue, TicksInOrder
  <2>2. SeenInOrder'
    BY <1>1 DEF TapInv, TapIsTrue, SeenInOrder
  <2>. QED
    BY <1>1, <1>4, <2>1, <2>2 DEF TapInv, TapIsTrue
<1>6. JudgingIsTrue'
  BY <1>1 DEF TapInv, JudgingIsTrue, ScoreIsOfJudge, Emitted, Truth, EventsOf, InProgress
<1>. QED
  BY <1>2, <1>5, <1>6 DEF TapInv

(* A listener comes: the last of the sinks, and it has seen nothing.       *)
LEMMA ListenerComes ==
    ASSUME CoreTyped, TapInv, NEW l \in Listeners, Attach(l)
    PROVE  TapInv'
<1>1. /\ published' = published /\ sinks' = Append(sinks, l) /\ gone' = gone /\ ticks' = ticks
      /\ seen' = seen /\ judging' = judging /\ evalResult' = evalResult /\ around' = around
      /\ l \notin ToSet(sinks)
  BY DEF Attach
<1>2. /\ Len(sinks) \in Nat /\ DOMAIN sinks = 1 .. Len(sinks) /\ sinks \in Seq(Listeners)
      /\ \A x \in ToSet(ticks) : x[1] \in 1 .. Len(published) /\ x[2] \in 1 .. 2 + Len(sinks)
                                 /\ x = <<x[1], x[2]>>
  BY TapFacts DEF TapInv, TapTyped
<1>3. /\ DOMAIN sinks' = 1 .. Len(sinks) + 1 /\ Len(sinks') = Len(sinks) + 1
      /\ \A m \in DOMAIN sinks : sinks'[m] = sinks[m]
      /\ sinks'[Len(sinks) + 1] = l /\ sinks' \in Seq(Listeners)
  BY <1>1, <1>2
<1>4. ToSet(sinks') = ToSet(sinks) \cup {l}
  BY <1>2, <1>3 DEF ToSet
<1>5. TapTyped'
  <2>. DEFINE M == (1 .. Len(published)) \X (1 .. EvalSink + Len(sinks))
              K == (1 .. Len(published)) \X (1 .. EvalSink + (Len(sinks) + 1))
  <2>1. M \subseteq K
    <3>1. 1 .. EvalSink + Len(sinks) \subseteq 1 .. EvalSink + (Len(sinks) + 1)
      BY <1>2 DEF EvalSink
    <3>. QED
      BY <3>1
  <2>2. ticks \in Seq(M)
    BY DEF TapInv, TapTyped
  <2>3. ticks \in Seq(K)
    <3>. HIDE DEF M, K
    <3>. QED
      BY <2>1, <2>2, SeqWider
  <2>. QED
    BY <1>1, <1>3, <1>4, <2>3 DEF TapInv, TapTyped
<1>6. \A i : Pending(i)' <=> Pending(i)
  BY <1>1 DEF Pending, InTicks
<1>7. \A m, k : IsUpToDate(m, k)' <=> IsUpToDate(m, k)
  BY <1>1, <1>6 DEF IsUpToDate, LastSeen
<1>8. seen[l] = <<>>
  BY <1>1 DEF TapInv, TapIsTrue
<1>9. TapIsTrue'
  <2>1. TicksInOrder'
    <3>1. \A x \in ToSet(ticks) : x[2] > EvalSink => sinks'[x[2] - EvalSink] = sinks[x[2] - EvalSink]
      <4>. TAKE x \in ToSet(ticks)
      <4>1. x[2] \in 1 .. 2 + Len(sinks)
        BY <1>2
      <4>2. x[2] > EvalSink => x[2] - EvalSink \in DOMAIN sinks
        BY ONLY <1>2, <4>1 DEF EvalSink
      <4>. QED
        BY <1>3, <4>2
    <3>. QED
      BY <1>1, <1>6, <3>1 DEF TapInv, TapIsTrue, TicksInOrder
  <2>2. SeenInOrder'
    BY <1>1 DEF TapInv, TapIsTrue, SeenInOrder
  <2>3. \A m, n \in DOMAIN sinks' : sinks'[m] = sinks'[n] => m = n
    <3>1. \A m \in DOMAIN sinks' : m \in DOMAIN sinks \/ m = Len(sinks) + 1
      BY <1>2, <1>3
    <3>2. \A m \in DOMAIN sinks : sinks'[m] = sinks[m] /\ sinks[m] # l
      BY <1>1, <1>3 DEF ToSet
    <3>. QED
      BY <1>3, <3>1, <3>2 DEF TapInv, TapIsTrue
  <2>4. ASSUME NEW m \in DOMAIN sinks', NEW k \in Listeners \ gone, sinks'[m] = k, seen[k] # <<>>
        PROVE  IsUpToDate(m, k)'
    <3>1. m \in DOMAIN sinks /\ sinks[m] = k
      BY <1>2, <1>3, <1>8, <2>4
    <3>. QED
      BY <1>7, <2>4, <3>1 DEF TapInv, TapIsTrue
  <2>5. \A k \in Listeners : seen'[k] # <<>> => k \in ToSet(sinks')
    BY <1>1, <1>4 DEF TapInv, TapIsTrue
  <2>. QED
    BY <1>1, <2>1, <2>2, <2>3, <2>4, <2>5 DEF TapIsTrue
<1>10. JudgingIsTrue'
  BY <1>1 DEF TapInv, JudgingIsTrue, ScoreIsOfJudge, Emitted, Truth, EventsOf, InProgress
<1>. QED
  BY <1>5, <1>9, <1>10 DEF TapInv

(* The empty queue.                                                        *)
LEMMA NoMarks ==
    ASSUME ticks = <<>>
    PROVE  ToSet(ticks) = {} /\ DOMAIN ticks = {}
BY DEF ToSet

(* A listener goes: between the microtasks, so no event is at it.          *)
LEMMA ListenerGoes ==
    ASSUME CoreTyped, TapInv, NEW l \in Listeners, Detach(l)
    PROVE  TapInv'
<1>1. /\ published' = published /\ sinks' = sinks /\ gone' = gone \cup {l} /\ ticks' = ticks
      /\ seen' = seen /\ judging' = judging /\ evalResult' = evalResult /\ around' = around
      /\ l \in ToSet(sinks) /\ ToSet(ticks) = {} /\ DOMAIN ticks = {}
  BY NoMarks DEF Detach
<1>2. TapTyped'
  BY <1>1 DEF TapInv, TapTyped
<1>3. \A i : Pending(i)' <=> Pending(i)
  BY <1>1 DEF Pending, InTicks
<1>4. \A m, k : IsUpToDate(m, k)' <=> IsUpToDate(m, k)
  BY <1>1, <1>3 DEF IsUpToDate, LastSeen
<1>5. TicksInOrder'
  BY <1>1 DEF TicksInOrder, QueueOrder
<1>6. SeenInOrder'
  BY <1>1 DEF TapInv, TapIsTrue, SeenInOrder
<1>7. TapIsTrue'
  BY <1>1, <1>4, <1>5, <1>6 DEF TapInv, TapIsTrue
<1>8. JudgingIsTrue'
  BY <1>1 DEF TapInv, JudgingIsTrue, ScoreIsOfJudge, Emitted, Truth, EventsOf, InProgress
<1>. QED
  BY <1>2, <1>7, <1>8 DEF TapInv

(* The eval sink reads: it reads again, or lets the last event of the run  *)
(* go on.                                                                  *)
LEMMA EvalLooks ==
    ASSUME CoreTyped, TapInv, RowsInOrder, EventsInOrder, EvalReads
    PROVE  TapInv'
<1>0. PICK L : L = Len(published)
  OBVIOUS
<1>a. PICK i : i = judging.event
  OBVIOUS
<1>1. /\ published' = published /\ sinks' = sinks /\ gone' = gone /\ seen' = seen /\ around' = around
      /\ i # 0 /\ ticks = <<>> /\ ToSet(ticks) = {} /\ DOMAIN ticks = {}
      /\ evalResult' = evalResult \/ (HasScore /\ evalResult' = stepRow[Judge])
      /\ \/ judging' = [judging EXCEPT !.event = 0] /\ ticks' = Append(ticks, <<i, EvalSink>>)
         \/ judging' = [judging EXCEPT !.reads = @ + 1] /\ ticks' = ticks /\ judging.reads + 1 < MaxReads
  BY <1>a, NoMarks DEF EvalReads, EvalResumes
<1>2. /\ L \in Nat /\ DOMAIN published = 1 .. L /\ Len(sinks) \in Nat /\ DOMAIN sinks = 1 .. Len(sinks)
      /\ judging \in [event : 0 .. L, reads : 0 .. MaxReads, known : BOOLEAN]
      /\ \A l \in Listeners : seen[l] # <<>> => LastSeen(l) \in 1 .. L
      /\ i \in 1 .. L
  BY <1>0, <1>a, <1>1, TapFacts DEF TapInv, TapTyped
<1>3. i = L /\ published[i].type = "run.completed" /\ around.isEval
  BY <1>0, <1>a, <1>1, JudgedIsLast DEF TapInv, JudgingIsTrue
<1>4. Emitted("run.completed")
  BY <1>2, <1>3 DEF Emitted, ToSet
<1>5. /\ evalResult' \in {"none", "success"} /\ ScoreIsOfJudge'
      /\ around.isEval
  <2>1. HasScore => stepRow[Judge] = "success" /\ stepRow[Judge] = Truth(Judge)
    BY SurroundingsAssumption DEF HasScore, RowsInOrder, Final
  <2>2. Truth(Judge)' = Truth(Judge) /\ (Emitted("run.completed")' <=> Emitted("run.completed"))
    BY <1>1, NothingTold
  <2>. QED
    BY <1>1, <1>3, <1>4, <2>1, <2>2 DEF TapInv, TapTyped, JudgingIsTrue, ScoreIsOfJudge
<1>6. CASE judging' = [judging EXCEPT !.event = 0] /\ ticks' = Append(ticks, <<i, EvalSink>>)
  <2>0. PICK x : x = <<i, EvalSink>>
    OBVIOUS
  <2>1. /\ judging' \in [event : 0 .. L, reads : 0 .. MaxReads, known : BOOLEAN]
        /\ judging'.event = 0 /\ judging'.known = judging.known
    BY <1>2, <1>6
  <2>2. ticks' = <<x>> /\ x[1] = i /\ x[2] = 2 /\ x \in (1 .. L) \X (1 .. EvalSink + Len(sinks))
    BY <1>1, <1>2, <1>6, <2>0 DEF EvalSink
  <2>3. /\ ticks' \in Seq((1 .. L) \X (1 .. EvalSink + Len(sinks)))
        /\ ToSet(ticks') = {x} /\ DOMAIN ticks' = {1} /\ ticks'[1] = x
    <3>. DEFINE M == (1 .. L) \X (1 .. EvalSink + Len(sinks))
    <3>1. x \in M
      BY <2>2
    <3>. HIDE DEF M
    <3>2. ticks' \in Seq(M) /\ DOMAIN ticks' = {1} /\ ticks'[1] = x
      BY <2>2, <3>1
    <3>. QED
      BY <3>2 DEF ToSet, M
  <2>4. \A k \in 1 .. L : Pending(k) => Pending(k)'
    <3>1. \A k : Pending(k) => k = i
      BY <1>a, <1>1 DEF Pending, InTicks
    <3>2. Pending(i)'
      BY <2>2, <2>3 DEF Pending, InTicks
    <3>. QED
      BY <3>1, <3>2
  <2>5. TicksInOrder'
    <3>1. QueueOrder(ticks')
      BY <1>2, <2>2, <2>3 DEF QueueOrder
    <3>2. \A k \in x[1] .. L : Pending(k)'
      <4>1. \A k \in x[1] .. L : k = i
        BY <1>2, <1>3, <2>2
      <4>2. Pending(i)'
        BY <2>2, <2>3 DEF Pending, InTicks
      <4>. QED
        BY <4>1, <4>2
    <3>3. ~(x[2] > EvalSink) /\ x[1] # 0
      BY <1>1, <2>2 DEF EvalSink
    <3>. QED
      BY <1>0, <1>1, <2>1, <2>3, <3>1, <3>2, <3>3 DEF TicksInOrder
  <2>6. ASSUME NEW m \in DOMAIN sinks, NEW l \in Listeners \ gone, sinks[m] = l, seen[l] # <<>>
        PROVE  IsUpToDate(m, l)'
    <3>1. IsUpToDate(m, l)
      BY <2>6 DEF TapInv, TapIsTrue
    <3>2. PICK n \in 1 .. L : n = LastSeen(l) /\ n = LastSeen(l)'
      BY <1>1, <1>2, <2>6 DEF LastSeen
    <3>3. i > n /\ x[2] < EvalSink + m
      BY <1>a, <1>1, <1>2, <2>2, <2>6, <3>1, <3>2 DEF IsUpToDate, EvalSink
    <3>4. \A k \in n + 1 .. L : Pending(k)'
      <4>1. \A k \in n + 1 .. L : Pending(k) /\ k \in 1 .. L
        BY <1>0, <1>2, <3>1, <3>2 DEF IsUpToDate
      <4>. QED
        BY <2>4, <4>1
    <3>5. n <= L
      BY <1>2
    <3>. QED
      BY <1>0, <1>1, <2>1, <2>2, <2>3, <3>2, <3>3, <3>4, <3>5 DEF IsUpToDate
  <2>7. SeenInOrder'
    BY <1>1 DEF TapInv, TapIsTrue, SeenInOrder
  <2>8. TapIsTrue'
    BY <1>1, <2>5, <2>6, <2>7 DEF TapInv, TapIsTrue
  <2>9. TapTyped'
    BY <1>0, <1>1, <1>5, <2>1, <2>3 DEF TapInv, TapTyped
  <2>10. JudgingIsTrue'
    BY <1>1, <1>5, <2>1 DEF TapInv, JudgingIsTrue
  <2>. QED
    BY <2>8, <2>9, <2>10 DEF TapInv
<1>7. CASE judging' = [judging EXCEPT !.reads = @ + 1] /\ ticks' = ticks /\ judging.reads + 1 < MaxReads
  <2>1. /\ judging' \in [event : 0 .. L, reads : 0 .. MaxReads, known : BOOLEAN]
        /\ judging'.event = judging.event /\ judging'.known = judging.known
    BY <1>2, <1>7, SurroundingsAssumption
  <2>2. \A k : Pending(k)' <=> Pending(k)
    BY <1>7, <2>1 DEF Pending, InTicks
  <2>3. \A m, l : IsUpToDate(m, l)' <=> IsUpToDate(m, l)
    BY <1>1, <1>7, <2>1, <2>2 DEF IsUpToDate, LastSeen
  <2>4. TicksInOrder'
    BY <1>1, <1>7 DEF TicksInOrder, QueueOrder
  <2>5. SeenInOrder'
    BY <1>1 DEF TapInv, TapIsTrue, SeenInOrder
  <2>6. TapIsTrue'
    BY <1>1, <2>3, <2>4, <2>5 DEF TapInv, TapIsTrue
  <2>7. TapTyped'
    BY <1>0, <1>1, <1>5, <1>7, <2>1 DEF TapInv, TapTyped
  <2>8. JudgingIsTrue'
    BY <1>1, <1>5, <2>1 DEF TapInv, JudgingIsTrue
  <2>. QED
    BY <2>6, <2>7, <2>8 DEF TapInv
<1>. QED
  BY <1>1, <1>6, <1>7

(* The invariant of a run as the outside sees it.                          *)
ObsInv == CoreTyped /\ EventsInOrder /\ Projected /\ WaitsAreTrue /\ TapInv

(* Faults are counted up to a bound.                                       *)
LEMMA CoreKept ==
    ASSUME CoreTyped, around' = around, published' \in Seq(Events),
           request' \in {"creating", "created", "emitted", "refused"},
           faults' = faults \/ CallFails
    PROVE  CoreTyped'
<1>1. around.faults \in Nat
  BY SurroundingsAssumption DEF CoreTyped
<1>2. faults' \in 0 .. around.faults
  BY <1>1 DEF CoreTyped, CallFails
<1>. QED
  BY <1>2 DEF CoreTyped

(* The order of the events when none comes.                                *)
LEMMA OrderKept ==
    ASSUME EventsInOrder, published' = published, request' # "emitted" => request # "emitted"
    PROVE  EventsInOrder'
BY NothingTold DEF EventsInOrder

(* The waits that nobody touches.                                          *)
LEMMA WaitsKept ==
    ASSUME WaitsAreTrue, Projected, wait' = wait, registered' = registered, RowIsLasting,
           status \in Terminal => status' = status /\ \A s \in Steps : Truth(s)' = Truth(s)
    PROVE  WaitsAreTrue'
<1>1. ASSUME NEW w \in Waiters  PROVE  WaitIsTrue(w)'
  BY WaitKept DEF WaitsAreTrue
<1>. QED
  BY <1>1 DEF WaitsAreTrue, WaitTyped

-----------------------------------------------------------------------------
LEMMA ObsInit == Init => ObsInv
<1>. SUFFICES ASSUME Init PROVE ObsInv
  OBVIOUS
<1>1. /\ published = <<>> /\ index = <<>> /\ status = "requested" /\ dirty = FALSE
      /\ rowWritten = FALSE /\ flush = Idle /\ row = "none" /\ stepRow = [s \in Steps |-> "none"]
      /\ registered = {} /\ wait = [w \in Waiters |-> NoWait] /\ faults = 0
      /\ sinks = <<>> /\ gone = {} /\ ticks = <<>> /\ seen = [l \in Listeners |-> <<>>]
      /\ judging = NotJudging /\ evalResult = "none"
      /\ request \in {"creating", "created"} /\ around \in Surroundings
  BY DEF Init
<1>2. (\A type : ~Emitted(type)) /\ ~IsOver /\ (\A s : EventsOf(s) = {})
  BY <1>1, NothingYet
<1>3. CoreTyped
  <2>1. around.faults \in Nat
    BY <1>1, SurroundingsAssumption
  <2>2. 0 \in 0 .. around.faults
    BY <2>1
  <2>. QED
    BY <1>1, <2>2 DEF CoreTyped
<1>4. EventsInOrder
  BY <1>1, <1>2 DEF EventsInOrder
<1>5. Projected
  <2>1. DOMAIN index = {} /\ index \in Seq(Entry) /\ Len(index) = 0
    BY <1>1
  <2>2. Cardinality(Entered(index)) = Len(index)
    <3>1. Entered(index) = {}
      BY <2>1 DEF Entered, ToSet
    <3>. QED
      BY <2>1, <3>1, FS_EmptySet
  <2>3. Idle \in FlushIn(index) /\ Idle.at = "idle"
    BY <2>1 DEF Idle, FlushIn, RunStatus
  <2>4. ShadowTyped
    BY <1>1, <2>1, <2>2, <2>3 DEF ShadowTyped, RunStatus
  <2>5. ShadowIsTrue
    BY <1>1, <1>2, <2>1 DEF ShadowIsTrue, InIndex
  <2>6. FlushIsTrue
    BY <1>1, <2>1, <2>3 DEF FlushIsTrue, Idle, Terminal
  <2>7. RowsInOrder /\ DbTyped
    BY <1>1 DEF RowsInOrder, DbTyped, Final, Terminal
  <2>. QED
    BY <2>4, <2>5, <2>6, <2>7 DEF Projected
<1>6. WaitsAreTrue
  <2>1. NoWait \in AWait
    BY DEF NoWait, AWait, Awaits, RunStatus
  <2>2. WaitTyped
    BY <1>1, <2>1 DEF WaitTyped
  <2>3. ASSUME NEW w \in Waiters  PROVE  WaitIsTrue(w)
    BY <1>1 DEF WaitIsTrue, NoWait
  <2>. QED
    BY <2>2, <2>3 DEF WaitsAreTrue
<1>7. TapInv
  <2>1. /\ DOMAIN sinks = {} /\ ToSet(ticks) = {} /\ DOMAIN ticks = {} /\ Len(published) = 0
        /\ Len(sinks) = 0 /\ ToSet(sinks) = {}
    BY <1>1, NoMarks DEF ToSet
  <2>2. TapTyped
    <3>1. judging \in [event : 0 .. Len(published), reads : 0 .. MaxReads, known : BOOLEAN]
      <4>1. 0 \in 0 .. 0 /\ 0 \in 0 .. MaxReads
        BY SurroundingsAssumption
      <4>. QED
        BY <1>1, <2>1, <4>1 DEF NotJudging
    <3>2. \A T : <<>> \in Seq(T)
      OBVIOUS
    <3>3. seen \in [Listeners -> Seq(1 .. Len(published))]
      BY <1>1, <3>2
    <3>. QED
      BY <1>1, <3>1, <3>2, <3>3 DEF TapTyped
  <2>3. TapIsTrue
    <3>1. TicksInOrder
      BY <2>1 DEF TicksInOrder, QueueOrder
    <3>2. SeenInOrder
      <4>1. ASSUME NEW l \in Listeners  PROVE  seen[l] = <<>> /\ 1 .. Len(seen[l]) - 1 = {}
        <5>1. seen[l] = <<>>
          BY <1>1
        <5>2. Len(<<>>) = 0 /\ 1 .. 0 - 1 = {}
          OBVIOUS
        <5>. QED
          BY <5>1, <5>2
      <4>. QED
        BY <4>1 DEF SeenInOrder
    <3>. QED
      BY <1>1, <2>1, <3>1, <3>2 DEF TapIsTrue
  <2>4. JudgingIsTrue
    BY <1>1 DEF JudgingIsTrue, ScoreIsOfJudge, NotJudging
  <2>. QED
    BY <2>2, <2>3, <2>4 DEF TapInv
<1>. QED
  BY <1>3, <1>4, <1>5, <1>6, <1>7 DEF ObsInv

(* The request writes the row of the run, or fails to.                     *)
LEMMA RunCreated ==
    ASSUME ObsInv, CreateRun
    PROVE  ObsInv'
<1>1. /\ request = "creating" /\ request' \in {"created", "refused"}
      /\ row' \in {row, "requested"} /\ stepRow' = stepRow /\ UNCHANGED <<around, published, tap, shadow>>
      /\ wait' = wait /\ registered' = registered
      /\ faults' = faults \/ CallFails
  BY DEF CreateRun, waiting
<1>2. status \notin Terminal /\ published = <<>>
  <2>1. published = <<>>
    BY <1>1 DEF ObsInv, EventsInOrder
  <2>2. ~IsOver
    BY <2>1, NothingYet
  <2>. QED
    BY <2>1, <2>2, OverIsTerminal DEF ObsInv, Projected
<1>3. /\ row \notin Terminal /\ flush.status \notin Terminal
      /\ flush.at \notin {"final", "settle"}
  BY <1>2, NotOver DEF ObsInv, Projected
<1>4. row' \notin Terminal /\ (row' = "none" => row = "none") /\ DbTyped'
  BY <1>1, <1>3 DEF Terminal, ObsInv, Projected, DbTyped, RunStatus
<1>5. /\ TruthStays /\ flush' = flush /\ dirty' = dirty /\ rowWritten' = rowWritten
  BY <1>1 DEF shadow, TruthStays
<1>6. Projected'
  <2>1. ShadowTyped' /\ ShadowIsTrue'
    BY <1>5, ShadowStays DEF ObsInv, Projected, ShadowTyped, TruthStays
  <2>2. \A k : IsShown(k)' <=> IsShown(k)
    BY <1>1, <1>5 DEF IsShown, TruthStays
  <2>3. FlushIsTrue'
    BY <1>2, <1>3, <1>5, <2>2 DEF ObsInv, Projected, FlushIsTrue, TruthStays
  <2>4. RowsInOrder'
    <3>1. \A s \in Steps : /\ stepRow'[s] # "none" => EventsOf(s)' # {}
                           /\ stepRow'[s] \in Final => stepRow'[s] = Truth(s)'
      BY <1>1, <1>5, ShadowStays DEF ObsInv, Projected, RowsInOrder
    <3>. QED
      BY <1>1, <1>4, <1>5, <3>1 DEF ObsInv, Projected, RowsInOrder
  <2>. QED
    BY <1>4, <2>1, <2>3, <2>4 DEF Projected
<1>7. WaitsAreTrue'
  <2>1. RowIsLasting
    BY <1>3, <1>4 DEF RowIsLasting
  <2>. QED
    BY <1>1, <1>2, <2>1, WaitsKept DEF ObsInv
<1>8. CoreTyped' /\ EventsInOrder' /\ TapInv'
  BY <1>1, CoreKept, OrderKept, TapStays DEF ObsInv, CoreTyped
<1>. QED
  BY <1>6, <1>7, <1>8 DEF ObsInv

(* An event of the run comes.                                              *)
LEMMA EventPublished ==
    ASSUME ObsInv, NEW e, Announced(e), Publish(e)
    PROVE  ObsInv'
<1>1. /\ Projected' /\ EventsInOrder' /\ published' \in Seq(Events)
      /\ status \notin Terminal /\ row \notin Terminal /\ row' = row
  BY PublishRows DEF ObsInv, Projected
<1>2. around' = around /\ wait' = wait /\ registered' = registered /\ faults' = faults
      /\ request' = "emitted"
  BY DEF Publish, waiting, Announced
<1>3. WaitsAreTrue'
  <2>1. RowIsLasting
    BY <1>1 DEF RowIsLasting
  <2>. QED
    BY <1>1, <1>2, <2>1, WaitsKept DEF ObsInv
<1>4. CoreTyped'
  BY <1>1, <1>2, CoreKept DEF ObsInv
<1>5. TapInv'
  BY <1>1, TapPublished DEF ObsInv
<1>. QED
  BY <1>1, <1>3, <1>4, <1>5 DEF ObsInv

(* The microtasks, the listeners and the eval sink.                        *)
LEMMA TapSteps ==
    ASSUME ObsInv, Tick \/ EvalReads \/ \E l \in Listeners : Attach(l) \/ Detach(l)
    PROVE  ObsInv'
<1>1. /\ UNCHANGED <<published, shadow, db, waiting, around, request>>
      /\ faults' = faults \/ CallFails
  BY DEF Tick, EvalReads, Attach, Detach
<1>2. Projected' /\ RowIsLasting /\ (\A s : Truth(s)' = Truth(s)) /\ status' = status
  BY <1>1, ProjectedStays DEF ObsInv, OutsideStays
<1>3. WaitsAreTrue'
  BY <1>1, <1>2, WaitsKept DEF ObsInv, waiting
<1>4. CoreTyped' /\ EventsInOrder'
  BY <1>1, CoreKept, OrderKept DEF ObsInv, CoreTyped
<1>5. TapInv'
  BY Ticked, EvalLooks, ListenerComes, ListenerGoes DEF ObsInv, Projected
<1>. QED
  BY <1>2, <1>3, <1>4, <1>5 DEF ObsInv

(* A call of the flush loop returns, or the waiters are told.              *)
LEMMA FlushSteps ==
    ASSUME ObsInv, FlushStep
    PROVE  ObsInv'
<1>1. /\ UNCHANGED <<around, request, published, tap>> /\ TruthStays
      /\ faults' = faults \/ CallFails
  BY DEF FlushStep, RowWrite, StepWrite, FinalWrite, WriteFails, Settled, FlushFails, TruthStays
<1>2. CoreTyped' /\ EventsInOrder' /\ TapInv'
  BY <1>1, CoreKept, OrderKept, TapStays DEF ObsInv, CoreTyped
<1>3. \A s : Truth(s)' = Truth(s)
  BY <1>1, ShadowStays
<1>4. CASE FlushStep /\ ~Settled
  <2>1. wait' = wait /\ registered' = registered
    BY <1>4 DEF FlushStep, RowWrite, StepWrite, FinalWrite, WriteFails, FlushFails, waiting
  <2>2. Projected' /\ RowIsLasting
    <3>1. ASSUME FlushFails,
                 \/ flush.at = "row" /\ row' = flush.write /\ stepRow' = stepRow
                 \/ /\ flush.at = "step" /\ row' = row
                    /\ stepRow' = [stepRow EXCEPT ![index[flush.k].step] = flush.write]
                 \/ flush.at = "final" /\ row' = flush.write /\ stepRow' = stepRow
                 \/ row' = row /\ stepRow' = stepRow
          PROVE  Projected' /\ RowIsLasting
      <4>1. Relaunch /\ rowWritten' = rowWritten
        BY <3>1 DEF FlushFails
      <4>2. Projected' /\ flush'.at # "idle"
        BY <1>1, <3>1, <4>1, FailureKeeps DEF ObsInv
      <4>3. row \in Terminal => row' = row
        <5>1. CASE flush.at = "row" /\ row' = flush.write /\ stepRow' = stepRow
          BY <5>1, RowEffect DEF ObsInv
        <5>2. CASE flush.at = "final" /\ row' = flush.write /\ stepRow' = stepRow
          BY <5>2, FinalEffect DEF ObsInv, Projected, RowsInOrder
        <5>. QED
          BY <3>1, <5>1, <5>2
      <4>. QED
        BY <4>2, <4>3 DEF RowIsLasting
    <3>2. CASE RowWrite
      BY <1>1, <3>1, <3>2, RowWritten DEF RowWrite, ObsInv
    <3>3. CASE StepWrite
      BY <1>1, <3>1, <3>3, StepWritten DEF StepWrite, ObsInv
    <3>4. CASE FinalWrite
      BY <1>1, <3>1, <3>4, FinalWritten DEF FinalWrite, ObsInv
    <3>5. CASE WriteFails
      BY <3>1, <3>5 DEF WriteFails, db
    <3>. QED
      BY <1>4, <3>2, <3>3, <3>4, <3>5 DEF FlushStep
  <2>3. WaitsAreTrue'
    BY <1>1, <1>3, <2>1, <2>2, WaitsKept DEF ObsInv, TruthStays
  <2>. QED
    BY <1>2, <2>2, <2>3 DEF ObsInv
<1>5. CASE Settled
  <2>1. Projected' /\ row \in Terminal /\ row' = row
    BY <1>1, <1>5, HasSettled DEF Settled, ObsInv, db
  <2>2. /\ registered' = {}
        /\ wait' = [w \in Waiters |-> IF w \in registered THEN [wait[w] EXCEPT !.resolved = TRUE]
                                                           ELSE wait[w]]
    BY <1>5 DEF Settled
  <2>3. ASSUME NEW w \in Waiters
        PROVE  /\ wait'[w] \in AWait /\ wait'[w].at = wait[w].at /\ wait'[w].got = wait[w].got
               /\ wait'[w].steps = wait[w].steps
               /\ wait'[w].resolved <=> wait[w].resolved \/ w \in registered
    <3>1. wait[w] \in AWait
      BY DEF ObsInv, WaitsAreTrue, WaitTyped
    <3>. QED
      BY <2>2, <3>1 DEF AWait
  <2>4. WaitTyped'
    BY <2>2, <2>3 DEF WaitTyped
  <2>5. ASSUME NEW w \in Waiters  PROVE  WaitIsTrue(w)'
    <3>1. WaitIsTrue(w)
      BY DEF ObsInv, WaitsAreTrue
    <3>2. status' = status
      BY <1>1 DEF TruthStays
    <3>3. \A s \in Steps : wait'[w].steps[s] = wait[w].steps[s] /\ Truth(s)' = Truth(s)
      BY <1>3, <2>3
    <3>4. wait'[w].at = "waiting" \/ (wait'[w].at = "read" /\ wait'[w].got \notin Terminal)
             => wait'[w].resolved
      BY <2>3, <3>1 DEF WaitIsTrue
    <3>5. /\ wait'[w].resolved => row' \in Terminal
          /\ wait'[w].at \in {"rereading", "reread"} => row' \in Terminal
          /\ wait'[w].at = "reread" => wait'[w].got = row'
          /\ wait'[w].at = "read" /\ wait'[w].got \in Terminal => wait'[w].got = row'
          /\ wait'[w].at \in {"outputs", "steps"} => row' = "completed"
          /\ wait'[w].at # "unfinished"
          /\ wait'[w].at = "failed" => status' = "failed"
          /\ wait'[w].at = "completed" => status' = "completed"
          /\ wait'[w].at \in {"reading", "read", "waiting"} => wait'[w].resolved
      BY <2>1, <2>3, <3>1, <3>2 DEF WaitIsTrue
    <3>6. wait'[w].at = "completed" => \A s \in Steps : wait'[w].steps[s] = Truth(s)'
      BY <2>3, <3>1, <3>3 DEF WaitIsTrue
    <3>. QED
      BY <2>2, <3>4, <3>5, <3>6 DEF WaitIsTrue
  <2>. QED
    BY <1>2, <2>1, <2>4, <2>5 DEF ObsInv, WaitsAreTrue
<1>. QED
  BY <1>4, <1>5

(* The invariant is inductive.                                             *)
LEMMA ObsSteps ==
    ASSUME ObsInv, [Next]_vars
    PROVE  ObsInv'
<1>1. CASE CreateRun
  BY <1>1, RunCreated
<1>2. CASE \/ RequestEmitted
           \/ \E type \in {"run.denied", "run.started", "run.completed", "run.failed"} :
                 RunEmits(type)
           \/ \E type \in {"step.started", "step.completed", "step.failed", "step.reused"} :
                 \E s \in Steps : StepEmits(type, s)
  <2>1. PICK e : Announced(e) /\ Publish(e)
    BY <1>2, Announces DEF ObsInv
  <2>. QED
    BY <2>1, EventPublished
<1>3. CASE Tick \/ EvalReads \/ \E l \in Listeners : Attach(l) \/ Detach(l)
  BY <1>3, TapSteps
<1>4. CASE FlushStep
  BY <1>4, FlushSteps
<1>5. CASE \E w \in Waiters : Open(w) \/ WaitStep(w) \/ TimesOut(w)
  <2>1. PICK w \in Waiters : Open(w) \/ WaitStep(w) \/ TimesOut(w)
    BY <1>5
  <2>2. OutsideStays /\ WaitsAreTrue'
    BY <2>1, WaitSteps DEF ObsInv
  <2>3. /\ UNCHANGED <<published, around, request, tap>> /\ (faults' = faults \/ CallFails)
    BY <2>1 DEF Open, WaitStep, TimesOut, Wake, ReadRun, Decide, ReadOutputs, Waits
  <2>4. Projected'
    BY <2>2, ProjectedStays DEF ObsInv
  <2>5. CoreTyped' /\ EventsInOrder' /\ TapInv'
    BY <2>3, CoreKept, OrderKept, TapStays DEF ObsInv, CoreTyped
  <2>. QED
    BY <2>2, <2>4, <2>5 DEF ObsInv
<1>6. CASE UNCHANGED vars
  <2>1. /\ UNCHANGED <<published, around, request, tap>> /\ faults' = faults /\ OutsideStays
        /\ wait' = wait /\ registered' = registered
    BY <1>6 DEF vars, OutsideStays, waiting
  <2>2. Projected' /\ RowIsLasting /\ (\A s : Truth(s)' = Truth(s)) /\ status' = status
    BY <2>1, ProjectedStays DEF ObsInv
  <2>3. WaitsAreTrue'
    BY <2>1, <2>2, WaitsKept DEF ObsInv
  <2>4. CoreTyped' /\ EventsInOrder' /\ TapInv'
    BY <2>1, CoreKept, OrderKept, TapStays DEF ObsInv, CoreTyped
  <2>. QED
    BY <2>2, <2>3, <2>4 DEF ObsInv
<1>. QED
  BY <1>1, <1>2, <1>3, <1>4, <1>5, <1>6 DEF Next

(* It gives what the runs check.                                           *)
LEMMA ObsGives ==
    ASSUME ObsInv
    PROVE  RowsAreTrue /\ ClientsSeeTruth
<1>0. /\ CoreTyped /\ EventsInOrder /\ ShadowTyped /\ DbTyped /\ ShadowIsTrue /\ FlushIsTrue
      /\ RowsInOrder /\ WaitTyped /\ TapTyped /\ JudgingIsTrue
      /\ \A w \in Waiters : WaitIsTrue(w) /\ wait[w] \in AWait
  BY DEF ObsInv, Projected, WaitsAreTrue, WaitTyped, TapInv
<1>1. TypeOK
  <2>1. Entered(index) = {entry.step : entry \in ToSet(index)}
    BY DEF Entered
  <2>2. \A w \in Waiters :
          /\ wait[w].at \in Awaits \cup Answers
          /\ wait[w].got \in RunStatus \cup {"none"} /\ wait[w].resolved \in BOOLEAN
          /\ wait[w].steps \in [Steps -> StepStatus \cup {"none"}]
    BY <1>0 DEF AWait
  <2>3. \A l \in Listeners : seen[l] \in Seq(1 .. Len(published))
    BY <1>0 DEF TapTyped
  <2>. QED
    BY <1>0, <2>1, <2>2, <2>3
       DEF TypeOK, CoreTyped, ShadowTyped, DbTyped, WaitTyped, TapTyped, Entry, FlushIn
<1>2. (\A k \in DOMAIN index : IsShown(k)) => \A s \in Steps : stepRow[s] = Truth(s)
  BY <1>0, AllShown
<1>3. TerminalIsWhole
  <2>1. row \in Terminal => row = status /\ \A k \in DOMAIN index : IsShown(k)
    BY <1>0 DEF RowsInOrder
  <2>. QED
    BY <1>0, <1>2, <2>1 DEF TerminalIsWhole, ShadowIsTrue
<1>4. StepsHaveRun
  BY <1>0 DEF RowsInOrder, StepsHaveRun
<1>5. IdleIsProjected
  <2>1. flush = Idle => /\ ~dirty /\ (\A k \in DOMAIN index : IsShown(k))
                        /\ (status \in Terminal => row = status)
    BY <1>0 DEF FlushIsTrue, Idle
  <2>2. row \in Terminal => status \in Terminal
    BY <1>0 DEF RowsInOrder
  <2>3. IsOver <=> status \in Terminal
    BY <1>0, OverIsTerminal
  <2>. QED
    BY <1>2, <2>1, <2>2, <2>3 DEF IdleIsProjected
<1>6. AnswersAreTrue
  BY <1>0 DEF AnswersAreTrue, WaitIsTrue, ShadowIsTrue
<1>7. NoMissedWake
  BY <1>0 DEF NoMissedWake, WaitIsTrue, Idle, FlushIsTrue
<1>8. NoLeak
  BY <1>0 DEF NoLeak, WaitTyped, WaitIsTrue
<1>9. SeenInOrder /\ ScoreIsOfJudge
  BY DEF ObsInv, TapInv, TapIsTrue, JudgingIsTrue
<1>. QED
  BY <1>1, <1>3, <1>4, <1>5, <1>6, <1>7, <1>8, <1>9 DEF RowsAreTrue, ClientsSeeTruth

(* What the projection has written is true of the run                      *)
(* (sql-run-projection.sink.ts): the row of the run says that it is over   *)
(* only when it is, as it ended, and when every step has its final row;    *)
(* when no flush is under way the rows show every event; a stored score is *)
(* that of the judge, whatever fails.                                      *)
THEOREM RowsStayTrue == Spec => []RowsAreTrue
<1>1. ObsInv /\ [Next]_vars => ObsInv'
  BY ObsSteps
<1>. QED
  BY <1>1, ObsInit, ObsGives, PTL DEF Spec

(* What a client is told is true (run.service.ts, events-route.ts): an     *)
(* answer is that of the run, no settle is missed and no waiter left       *)
(* behind, and a listener sees the events in order and without a gap,      *)
(* whatever comes, goes, fails or is late.                                 *)
THEOREM ClientsAreToldTruth == Spec => []ClientsSeeTruth
<1>1. ObsInv /\ [Next]_vars => ObsInv'
  BY ObsSteps
<1>. QED
  BY <1>1, ObsInit, ObsGives, PTL DEF Spec

-----------------------------------------------------------------------------
(* The page that shows it                                                  *)

(* What is sent to the page and what it keeps of it.                       *)
Kept == [events : SUBSET DOMAIN happened, ids : Seq(DOMAIN happened),
         ofRun : [Runs -> Seq(DOMAIN happened)]]
Call == [is : {"none", "asked", "served", "held", "denied", "failed"},
         upto : 0 .. Len(happened)]
FeedTyped ==
    /\ happened \in Seq(Runs) /\ written \in 0 .. Len(happened) /\ begun \subseteq Runs
    /\ stream \in [open : BOOLEAN, buffer : Seq(DOMAIN happened), frame : BOOLEAN]
    /\ kept \in Kept /\ query \in [Runs -> Call]
    /\ away \subseteq DOMAIN happened /\ pushed \subseteq DOMAIN happened

KeptIsRight ==
    /\ Once(kept.ids) /\ Len(kept.ids) <= MaxEvents /\ kept.events = ToSet(kept.ids)
    /\ \A r \in Runs : kept.ofRun[r] = Chosen(kept.ids, OfRun(r))

(* An event that was sent to the page is kept, waits or was pushed out.    *)
Taken == kept.events \cup ToSet(stream.buffer) \cup pushed
BufferIsRight ==
    /\ Once(stream.buffer) /\ (stream.buffer # <<>> => stream.frame)
    /\ DOMAIN happened \subseteq Taken \cup away
HeldIsThere ==
    \A r \in Runs : query[r].is = "held" =>
        OfRun(r) \subseteq Taken \cup {i \in away : i > query[r].upto}

FeedInv == FeedTyped /\ KeptIsRight /\ BufferIsRight /\ HeldIsThere

LEMMA OnlyIsChosen == \A s, S : Only(s, S) = Chosen(s, S)
BY DEF Only, Chosen

LEMMA FeedGives == FeedInv => EventsAreAccounted
<1>. SUFFICES ASSUME FeedInv PROVE EventsAreAccounted
  OBVIOUS
<1>. QED
  BY OnlyIsChosen DEF FeedInv, KeptIsRight, BufferIsRight, HeldIsThere, Taken,
     EventsAreAccounted, Once

LEMMA OfRunIn == \A r : OfRun(r) \subseteq DOMAIN happened
BY DEF OfRun

(* A batch is taken in: each event of it once, and nothing is lost.        *)
BatchTaken(batch) ==
    /\ kept' \in Kept /\ pushed' \subseteq DOMAIN happened
    /\ Once(kept'.ids) /\ Len(kept'.ids) <= MaxEvents /\ kept'.events = ToSet(kept'.ids)
    /\ \A r \in Runs : kept'.ofRun[r] = Chosen(kept'.ids, OfRun(r))
    /\ kept.events \cup ToSet(batch) \cup pushed \subseteq kept'.events \cup pushed'

LEMMA BatchIsTaken ==
    ASSUME FeedTyped, KeptIsRight, NEW batch \in Seq(DOMAIN happened), Once(batch),
           TakesIn(batch)
    PROVE  BatchTaken(batch)
<1>. DEFINE D == DOMAIN happened
            fresh == Only(batch, D \ kept.events)
            ids == kept.ids \o fresh
            over == IF Len(ids) > MaxEvents THEN Len(ids) - MaxEvents ELSE 0
            dropped == ToSet(SubSeq(ids, 1, over))
            rest == SubSeq(ids, over + 1, Len(ids))
<1>1. /\ kept' = [ids |-> rest, events |-> (kept.events \cup ToSet(fresh)) \ dropped,
                  ofRun |-> [r \in Runs |->
                     Only(kept.ofRun[r] \o Only(fresh, OfRun(r)), D \ dropped)]]
      /\ pushed' = (pushed \ ToSet(fresh)) \cup dropped
  BY DEF TakesIn
<1>2. /\ kept.ids \in Seq(D) /\ kept.events \subseteq D /\ pushed \subseteq D
      /\ Once(kept.ids) /\ kept.events = ToSet(kept.ids)
      /\ \A r \in Runs : kept.ofRun[r] = Chosen(kept.ids, OfRun(r))
  BY DEF FeedTyped, Kept, KeptIsRight
<1>3. fresh = Chosen(batch, D \ kept.events)
  BY OnlyIsChosen
<1>. HIDE DEF fresh, D
<1>4. batch \in Seq(D)
  BY DEF D
<1>5. fresh \in Seq(D) /\ ToSet(fresh) = ToSet(batch) \cap (D \ kept.events) /\ Once(fresh)
  BY <1>3, <1>4, ChosenIs, ChosenOnce
<1>6. ids \in Seq(D) /\ ToSet(ids) = kept.events \cup ToSet(fresh)
  BY <1>2, <1>5, ConcatToSet
<1>7. Once(ids)
  BY <1>2, <1>5, OnceConcat
<1>. HIDE DEF ids
<1>8. over \in 0 .. Len(ids) /\ Len(ids) - over <= MaxEvents
  <2>1. Len(ids) \in Nat /\ MaxEvents \in Nat
    BY <1>6, PageAssumption
  <2>. QED
    BY <2>1
<1>. HIDE DEF over
<1>8a. dropped = ToSet(SubSeq(ids, 1, over)) /\ rest = SubSeq(ids, over + 1, Len(ids))
  OBVIOUS
<1>. HIDE DEF rest, dropped
<1>9. /\ rest \in Seq(D) /\ Len(rest) = Len(ids) - over /\ ToSet(rest) = ToSet(ids) \ dropped
      /\ dropped \subseteq ToSet(ids) /\ Chosen(ids, D \ dropped) = rest
  <2>1. ids \in Seq(D) /\ over \in 0 .. Len(ids)
    BY <1>6, <1>8
  <2>2. IsEnd(D, ids, over, dropped, rest)
    BY ONLY <1>7, <1>8a, <2>1, ChosenEnd
  <2>. QED
    BY <2>2 DEF IsEnd
<1>10. Once(rest)
  BY <1>6, <1>7, <1>9, ChosenOnce
<1>11. ASSUME NEW r \in Runs
       PROVE  Only(kept.ofRun[r] \o Only(fresh, OfRun(r)), D \ dropped) = Chosen(rest, OfRun(r))
  <2>1. kept.ofRun[r] \o Only(fresh, OfRun(r)) = Chosen(ids, OfRun(r))
    <3>1. Chosen(ids, OfRun(r)) = Chosen(kept.ids, OfRun(r)) \o Chosen(fresh, OfRun(r))
      BY <1>2, <1>5, ChosenConcat DEF ids
    <3>. QED
      BY <1>2, <3>1, OnlyIsChosen
  <2>2. Chosen(Chosen(ids, OfRun(r)), D \ dropped) = Chosen(ids, OfRun(r) \cap (D \ dropped))
    BY <1>6, ChosenTwice
  <2>3. Chosen(Chosen(ids, D \ dropped), OfRun(r)) = Chosen(ids, (D \ dropped) \cap OfRun(r))
    BY <1>6, ChosenTwice
  <2>4. OfRun(r) \cap (D \ dropped) = (D \ dropped) \cap OfRun(r)
    OBVIOUS
  <2>. QED
    BY <1>9, <2>1, <2>2, <2>3, <2>4, OnlyIsChosen
<1>12. kept' = [ids |-> rest, events |-> ToSet(rest),
                ofRun |-> [r \in Runs |-> Chosen(rest, OfRun(r))]]
  <2>1. (kept.events \cup ToSet(fresh)) \ dropped = ToSet(rest)
    BY <1>6, <1>9
  <2>. QED
    BY <1>1, <1>11, <2>1
<1>13. ToSet(rest) \subseteq D /\ \A r \in Runs : Chosen(rest, OfRun(r)) \in Seq(D)
  BY <1>9, ToSetIn, ChosenIs
<1>14. kept' \in Kept
  BY <1>9, <1>12, <1>13 DEF Kept, D
<1>15. pushed' \subseteq D
  BY <1>1, <1>2, <1>5, <1>6, <1>9
<1>16. ToSet(batch) \subseteq D
  BY <1>4, ToSetIn
<1>17. kept.events \cup ToSet(batch) \cup pushed \subseteq ToSet(rest) \cup pushed'
  BY <1>1, <1>5, <1>6, <1>9, <1>16
<1>18. Len(rest) <= MaxEvents
  BY <1>8, <1>9
<1>. QED
  BY <1>10, <1>12, <1>14, <1>15, <1>17, <1>18 DEF BatchTaken, D

(* The calls: what was held still is, or the call is another.              *)
CallsKept == \A r \in Runs : query'[r].is = "held" => query'[r] = query[r]

(* Nothing but the calls changes.                                          *)
LEMMA OnlyCalls ==
    ASSUME FeedInv, query' \in [Runs -> Call], CallsKept, written' \in 0 .. Len(happened),
           begun' \subseteq Runs, UNCHANGED <<happened, stream, kept, away, pushed>>
    PROVE  FeedInv'
<1>1. FeedTyped'
  BY DEF FeedInv, FeedTyped, Call, Kept
<1>2. KeptIsRight' /\ BufferIsRight' /\ Taken' = Taken
  BY DEF FeedInv, KeptIsRight, BufferIsRight, Taken, OfRun
<1>3. HeldIsThere'
  <2>. SUFFICES ASSUME NEW r \in Runs, query'[r].is = "held"
                PROVE  OfRun(r)' \subseteq Taken' \cup {i \in away' : i > query'[r].upto}
    BY DEF HeldIsThere
  <2>1. query'[r] = query[r]
    BY DEF CallsKept
  <2>2. OfRun(r) \subseteq Taken \cup {i \in away : i > query[r].upto}
    BY <2>1 DEF FeedInv, HeldIsThere
  <2>3. OfRun(r)' = OfRun(r)
    BY DEF OfRun
  <2>. QED
    BY <1>2, <2>1, <2>2, <2>3
<1>. QED
  BY <1>1, <1>2, <1>3 DEF FeedInv

(* A batch is taken in, and of one run everything up to a place.           *)
LEMMA BatchKeeps ==
    ASSUME FeedInv, NEW batch, BatchTaken(batch), UNCHANGED <<happened, written, begun, away>>,
           stream' \in [open : BOOLEAN, buffer : Seq(DOMAIN happened), frame : BOOLEAN],
           BufferIsRight',
           ToSet(stream.buffer) \subseteq ToSet(batch) \cup ToSet(stream'.buffer),
           query' \in [Runs -> Call],
           \A r \in Runs : query'[r].is = "held" =>
               \/ query'[r] = query[r]
               \/ {i \in OfRun(r) : i <= query'[r].upto} \subseteq ToSet(batch)
    PROVE  FeedInv'
<1>1. FeedTyped'
  BY DEF FeedInv, FeedTyped, Call, Kept, BatchTaken
<1>2. KeptIsRight'
  BY DEF KeptIsRight, BatchTaken, OfRun
<1>3. Taken \cup ToSet(batch) \subseteq Taken'
  BY DEF Taken, BatchTaken
<1>4. HeldIsThere'
  <2>. SUFFICES ASSUME NEW r \in Runs, query'[r].is = "held"
                PROVE  OfRun(r) \subseteq Taken' \cup {i \in away : i > query'[r].upto}
    BY DEF HeldIsThere, OfRun
  <2>1. CASE query'[r] = query[r]
    <3>1. OfRun(r) \subseteq Taken \cup {i \in away : i > query[r].upto}
      BY <2>1 DEF FeedInv, HeldIsThere
    <3>. QED
      BY <1>3, <2>1, <3>1
  <2>2. CASE {i \in OfRun(r) : i <= query'[r].upto} \subseteq ToSet(batch)
    <3>. SUFFICES ASSUME NEW i \in OfRun(r), ~(i <= query'[r].upto), i \notin Taken
                  PROVE  i \in away /\ i > query'[r].upto
      BY <1>3, <2>2
    <3>1. i \in DOMAIN happened /\ i \in Nat /\ query'[r].upto \in Nat
      BY OfRunIn DEF FeedInv, FeedTyped, Call
    <3>. QED
      BY <3>1 DEF FeedInv, BufferIsRight
  <2>. QED
    BY <2>1, <2>2
<1>. QED
  BY <1>1, <1>2, <1>4 DEF FeedInv

LEMMA FrameKeeps == FeedInv /\ Frame => FeedInv'
<1>. SUFFICES ASSUME FeedInv, Frame PROVE FeedInv'
  OBVIOUS
<1>1. /\ stream.buffer \in Seq(DOMAIN happened) /\ Once(stream.buffer)
      /\ TakesIn(stream.buffer) /\ FeedTyped /\ KeptIsRight
  BY DEF FeedInv, FeedTyped, BufferIsRight, Frame
<1>2. BatchTaken(stream.buffer)
  BY <1>1, BatchIsTaken
<1>3. /\ stream' \in [open : BOOLEAN, buffer : Seq(DOMAIN happened), frame : BOOLEAN]
      /\ stream'.buffer = <<>> /\ UNCHANGED <<happened, written, begun, away, query>>
  <2>1. stream' = [stream EXCEPT !.buffer = <<>>, !.frame = FALSE]
    BY DEF Frame
  <2>2. stream \in [open : BOOLEAN, buffer : Seq(DOMAIN happened), frame : BOOLEAN]
    BY <1>1 DEF FeedTyped
  <2>3. <<>> \in Seq(DOMAIN happened)
    OBVIOUS
  <2>4. UNCHANGED <<happened, written, begun, away, query>>
    BY DEF Frame, pageVars
  <2>. QED
    BY ONLY <2>1, <2>2, <2>3, <2>4
<1>4. Taken \subseteq Taken'
  BY <1>2, <1>3, EmptyToSet DEF Taken, BatchTaken
<1>5. BufferIsRight'
  BY <1>3, <1>4, EmptyToSet DEF BufferIsRight, FeedInv, Once
<1>6. query' \in [Runs -> Call] /\ \A r \in Runs : query'[r] = query[r]
  BY <1>3 DEF FeedInv, FeedTyped
<1>. QED
  BY <1>2, <1>3, <1>5, <1>6, BatchKeeps

UpTo(n) == [i \in 1 .. n |-> i]

LEMMA UpToIs ==
    ASSUME NEW n \in 0 .. Len(happened), happened \in Seq(Runs)
    PROVE  UpTo(n) \in Seq(DOMAIN happened) /\ ToSet(UpTo(n)) = 1 .. n /\ Once(UpTo(n))
<1>1. n \in Nat /\ DOMAIN happened = 1 .. Len(happened)
      /\ 1 .. n \subseteq 1 .. Len(happened)
  OBVIOUS
<1>2. UpTo(n) \in [1 .. n -> DOMAIN happened] /\ DOMAIN UpTo(n) = 1 .. n
  BY <1>1 DEF UpTo
<1>3. UpTo(n) \in Seq(DOMAIN happened)
  BY <1>1, <1>2
<1>4. ToSet(UpTo(n)) = 1 .. n
  BY <1>1 DEF ToSet, UpTo
<1>. QED
  BY <1>3, <1>4 DEF Once, UpTo

LEMMA FilledKeeps == ASSUME FeedInv, NEW r \in Runs, Filled(r) PROVE FeedInv'
<1>. DEFINE batch == FullAnswer(r)  n == query[r].upto
<1>1. n \in 0 .. Len(happened) /\ FeedTyped /\ KeptIsRight /\ happened \in Seq(Runs)
  BY DEF FeedInv, FeedTyped, Call
<1>2. batch = Chosen(UpTo(n), OfRun(r))
  BY OnlyIsChosen DEF FullAnswer, UpTo
<1>. HIDE DEF batch, n
<1>3. /\ batch \in Seq(DOMAIN happened) /\ Once(batch)
      /\ ToSet(batch) = (1 .. n) \cap OfRun(r)
  BY <1>1, <1>2, UpToIs, ChosenIs, ChosenOnce
<1>4. /\ TakesIn(batch) /\ query' = [query EXCEPT ![r] = [is |-> "held", upto |-> n]]
      /\ UNCHANGED <<happened, begun, written, stream, away>>
  BY DEF Filled, QueryIs, batch, n
<1>5. BatchTaken(batch)
  BY <1>1, <1>3, <1>4, BatchIsTaken
<1>6. Taken \subseteq Taken'
  BY <1>4, <1>5 DEF Taken, BatchTaken
<1>7. BufferIsRight'
  BY <1>4, <1>6 DEF BufferIsRight, FeedInv
<1>8. /\ query' \in [Runs -> Call] /\ query'[r].upto = n
      /\ \A p \in Runs : p # r => query'[p] = query[p]
  BY <1>1, <1>4 DEF FeedTyped, Call
<1>9. {i \in OfRun(r) : i <= n} \subseteq ToSet(batch)
  <2>1. \A i \in OfRun(r) : i \in Nat /\ 1 <= i
    BY <1>1, OfRunIn
  <2>. QED
    BY <1>1, <1>3, <2>1
<1>10. stream' \in [open : BOOLEAN, buffer : Seq(DOMAIN happened), frame : BOOLEAN]
  BY <1>1, <1>4 DEF FeedTyped
<1>. QED
  BY <1>4, <1>5, <1>7, <1>8, <1>9, <1>10, BatchKeeps

LEMMA HappensKeeps == ASSUME FeedInv, NEW r \in Runs, Happens(r) PROVE FeedInv'
<1>. DEFINE i == Len(happened) + 1
            buffer == Append(stream.buffer, i)
            over == IF Len(buffer) > MaxBuffer THEN Len(buffer) - MaxBuffer ELSE 0
            dropped == ToSet(SubSeq(buffer, 1, over))
            rest == SubSeq(buffer, over + 1, Len(buffer))
            D == DOMAIN happened
            E == DOMAIN happened'
<1>1. /\ happened' = Append(happened, r)
      /\ IF stream.open
         THEN /\ stream' = [stream EXCEPT !.frame = TRUE, !.buffer = rest]
              /\ pushed' = pushed \cup dropped /\ away' = away
         ELSE away' = away \cup {i} /\ stream' = stream /\ pushed' = pushed
      /\ UNCHANGED <<begun, written, kept, query>>
  BY DEF Happens, pageVars
<1>2. FeedTyped /\ KeptIsRight /\ BufferIsRight /\ HeldIsThere
  BY DEF FeedInv
<1>3. /\ happened \in Seq(Runs) /\ happened' \in Seq(Runs) /\ Len(happened') = Len(happened) + 1
      /\ D = 1 .. Len(happened) /\ E = 1 .. Len(happened) + 1 /\ Len(happened) \in Nat
      /\ \A j \in D : happened'[j] = happened[j]
  BY <1>1, <1>2 DEF FeedTyped
<1>4. /\ i \in Nat /\ i \notin D /\ E = D \cup {i} /\ D \subseteq E
      /\ 0 .. Len(happened) \subseteq 0 .. Len(happened')
  BY <1>3
<1>5. stream.buffer \in Seq(D) /\ Once(stream.buffer) /\ ToSet(stream.buffer) \subseteq D
  BY <1>2, ToSetIn DEF FeedTyped, BufferIsRight
<1>6. /\ \A q \in Seq(D) : q \in Seq(E)
      /\ written \in 0 .. Len(happened') /\ begun \subseteq Runs
  <2>1. \A q \in Seq(D) : q \in Seq(E)
    <3>. HIDE DEF D, E
    <3>. QED
      BY <1>4, SeqWider
  <2>. QED
    BY <1>2, <1>4, <2>1 DEF FeedTyped
<1>7. kept \in Kept' /\ query \in [Runs -> Call']
  <2>1. kept.events \subseteq D /\ kept.ids \in Seq(D) /\ kept.ofRun \in [Runs -> Seq(D)]
    BY <1>2 DEF FeedTyped, Kept
  <2>2. kept = [events |-> kept.events, ids |-> kept.ids, ofRun |-> kept.ofRun]
    BY <1>2 DEF FeedTyped, Kept
  <2>3. kept.ofRun \in [Runs -> Seq(E)]
    BY <1>6, <2>1
  <2>4. kept \in Kept'
    BY <1>4, <1>6, <2>1, <2>2, <2>3 DEF Kept
  <2>5. query \in [Runs -> Call]
    BY <1>2 DEF FeedTyped
  <2>6. \A c \in Call : c \in Call'
    BY <1>4 DEF Call
  <2>. QED
    BY <2>4, <2>5, <2>6
<1>8. ASSUME NEW p \in Runs
      PROVE  OfRun(p)' \cap D = OfRun(p) /\ OfRun(p)' \subseteq OfRun(p) \cup {i}
  BY <1>3, <1>4 DEF OfRun
<1>. HIDE DEF i, D, E
<1>9. KeptIsRight'
  <2>. SUFFICES ASSUME NEW p \in Runs PROVE Chosen(kept.ids, OfRun(p)') = Chosen(kept.ids, OfRun(p))
    BY <1>1, <1>2 DEF KeptIsRight
  <2>1. kept.ids \in Seq(D)
    BY <1>2 DEF FeedTyped, Kept, D
  <2>2. ToSet(kept.ids) \subseteq D
    BY <2>1, ToSetIn
  <2>3. ToSet(kept.ids) \cap OfRun(p)' = ToSet(kept.ids) \cap OfRun(p)
    BY <1>8, <2>2
  <2>. QED
    BY <2>1, <2>3, ChosenSame
<1>10. CASE stream.open
  <2>1. /\ buffer \in Seq(E) /\ Once(buffer) /\ ToSet(buffer) = ToSet(stream.buffer) \cup {i}
    <3>1. i \in E /\ stream.buffer \in Seq(E) /\ i \notin ToSet(stream.buffer)
      BY <1>4, <1>5, <1>6
    <3>. QED
      BY <1>5, <3>1, OnceAppend, AppendToSet
  <2>. HIDE DEF buffer
  <2>2. over \in 0 .. Len(buffer)
    <3>1. Len(buffer) \in Nat /\ MaxBuffer \in Nat
      BY <2>1, PageAssumption
    <3>. QED
      BY <3>1
  <2>. HIDE DEF over
  <2>3. dropped = ToSet(SubSeq(buffer, 1, over)) /\ rest = SubSeq(buffer, over + 1, Len(buffer))
    OBVIOUS
  <2>. HIDE DEF dropped, rest
  <2>4. IsEnd(E, buffer, over, dropped, rest)
    BY ONLY <2>1, <2>2, <2>3, ChosenEnd
  <2>5. /\ rest \in Seq(E) /\ ToSet(rest) \cup dropped = ToSet(buffer) /\ dropped \subseteq E
    BY <2>1, <2>4, ToSetIn DEF IsEnd
  <2>6. Once(rest)
    BY <2>1, <2>4, ChosenOnce DEF IsEnd
  <2>7. /\ stream' = [open |-> stream.open, buffer |-> rest, frame |-> TRUE]
        /\ pushed' = pushed \cup dropped /\ away' = away /\ stream.open \in BOOLEAN
    BY <1>1, <1>2, <1>10 DEF FeedTyped
  <2>8. FeedTyped'
    <3>1. stream' \in [open : BOOLEAN, buffer : Seq(E), frame : BOOLEAN]
      BY <2>5, <2>7
    <3>2. pushed' \subseteq E /\ away' \subseteq E
      BY <1>2, <1>4, <2>5, <2>7 DEF FeedTyped, D
    <3>. QED
      BY <1>1, <1>3, <1>6, <1>7, <3>1, <3>2 DEF FeedTyped, E
  <2>9. Taken \cup {i} \subseteq Taken'
    BY <1>1, <2>1, <2>5, <2>7 DEF Taken
  <2>10. BufferIsRight'
    <3>1. D \subseteq Taken \cup away
      BY <1>2 DEF BufferIsRight, D
    <3>2. E \subseteq Taken' \cup away'
      BY <1>4, <2>7, <2>9, <3>1
    <3>. QED
      BY <2>6, <2>7, <3>2 DEF BufferIsRight, E
  <2>11. HeldIsThere'
    <3>. SUFFICES ASSUME NEW p \in Runs, query[p].is = "held"
                  PROVE  OfRun(p)' \subseteq Taken' \cup {j \in away : j > query[p].upto}
      BY <1>1, <2>7 DEF HeldIsThere
    <3>1. OfRun(p) \subseteq Taken \cup {j \in away : j > query[p].upto}
      BY <1>2 DEF HeldIsThere
    <3>. QED
      BY <1>8, <2>9, <3>1
  <2>. QED
    BY <1>9, <2>8, <2>10, <2>11 DEF FeedInv
<1>11. CASE ~stream.open
  <2>1. UNCHANGED <<stream, pushed, kept, query>> /\ away' = away \cup {i} /\ Taken' = Taken
    BY <1>1, <1>11 DEF Taken
  <2>2. FeedTyped'
    <3>1. stream' \in [open : BOOLEAN, buffer : Seq(E), frame : BOOLEAN]
      <4>1. stream = [open |-> stream.open, buffer |-> stream.buffer, frame |-> stream.frame]
            /\ stream.open \in BOOLEAN /\ stream.frame \in BOOLEAN
        BY <1>2 DEF FeedTyped
      <4>. QED
        BY <1>5, <1>6, <2>1, <4>1
    <3>2. pushed' \subseteq E /\ away' \subseteq E
      BY <1>2, <1>4, <2>1 DEF FeedTyped, D
    <3>. QED
      BY <1>1, <1>3, <1>6, <1>7, <2>1, <3>1, <3>2 DEF FeedTyped, E
  <2>3. BufferIsRight'
    <3>1. D \subseteq Taken \cup away
      BY <1>2 DEF BufferIsRight, D
    <3>2. E \subseteq Taken' \cup away'
      BY <1>4, <2>1, <3>1
    <3>. QED
      BY <1>2, <2>1, <3>2 DEF BufferIsRight, E
  <2>4. HeldIsThere'
    <3>. SUFFICES ASSUME NEW p \in Runs, query[p].is = "held"
                  PROVE  OfRun(p)' \subseteq Taken' \cup {j \in away' : j > query[p].upto}
      BY <2>1 DEF HeldIsThere
    <3>1. OfRun(p) \subseteq Taken \cup {j \in away : j > query[p].upto}
      BY <1>2 DEF HeldIsThere
    <3>2. i > query[p].upto
      <4>1. query[p].upto \in 0 .. Len(happened)
        BY <1>2 DEF FeedTyped, Call
      <4>. QED
        BY <1>3, <4>1 DEF i
    <3>. QED
      BY <1>8, <2>1, <3>1, <3>2
  <2>. QED
    BY <1>9, <2>2, <2>3, <2>4 DEF FeedInv
<1>. QED
  BY <1>10, <1>11

(* Another connection, and nothing else of the feed.                       *)
LEMMA StreamTurns ==
    ASSUME FeedInv, StreamOpens \/ StreamBreaks
    PROVE  FeedInv'
<1>1. PICK b \in BOOLEAN : stream' = [stream EXCEPT !.open = b]
  BY DEF StreamOpens, StreamBreaks
<1>2. UNCHANGED <<happened, written, begun, kept, query, away, pushed>>
  BY DEF StreamOpens, StreamBreaks, pageVars
<1>3. /\ stream' \in [open : BOOLEAN, buffer : Seq(DOMAIN happened), frame : BOOLEAN]
      /\ stream'.buffer = stream.buffer /\ stream'.frame = stream.frame
  BY <1>1 DEF FeedInv, FeedTyped
<1>4. FeedTyped'
  BY <1>2, <1>3 DEF FeedInv, FeedTyped, Kept, Call
<1>5. Taken' = Taken /\ KeptIsRight' /\ BufferIsRight'
  BY <1>2, <1>3 DEF FeedInv, KeptIsRight, BufferIsRight, Taken, OfRun
<1>6. HeldIsThere'
  BY <1>2, <1>5 DEF FeedInv, HeldIsThere, OfRun
<1>. QED
  BY <1>4, <1>5, <1>6 DEF FeedInv

LEMMA CallMoves ==
    ASSUME FeedInv, NEW r \in Runs, NEW is \in {"none", "served", "denied", "failed"},
           NEW upto \in 0 .. Len(happened), QueryIs(r, is, upto), UNCHANGED <<kept, pushed>>
    PROVE  FeedInv'
<1>1. query' = [query EXCEPT ![r] = [is |-> is, upto |-> upto]]
      /\ UNCHANGED <<happened, begun, written, stream, away>>
  BY DEF QueryIs
<1>2. query \in [Runs -> Call] /\ [is |-> is, upto |-> upto] \in Call
  BY DEF FeedInv, FeedTyped, Call
<1>3. query' \in [Runs -> Call] /\ CallsKept
  BY <1>1, <1>2 DEF CallsKept
<1>4. written' \in 0 .. Len(happened) /\ begun' \subseteq Runs
  BY <1>1 DEF FeedInv, FeedTyped
<1>. QED
  BY <1>1, <1>3, <1>4, OnlyCalls

LEMMA AskedKeeps ==
    ASSUME FeedInv, NEW r \in Runs, Served(r) \/ QueryFails(r) \/ Forgets(r)
    PROVE  FeedInv'
<1>0. 0 \in 0 .. Len(happened) /\ written \in 0 .. Len(happened)
  BY DEF FeedInv, FeedTyped
<1>1. CASE Served(r)
  BY <1>0, <1>1, CallMoves DEF Served
<1>2. CASE QueryFails(r)
  BY <1>0, <1>2, CallMoves DEF QueryFails
<1>3. CASE Forgets(r)
  BY <1>0, <1>3, CallMoves DEF Forgets
<1>. QED
  BY <1>1, <1>2, <1>3

LEMMA LogWritesKeeps == FeedInv /\ LogWrites => FeedInv'
<1>. SUFFICES ASSUME FeedInv, LogWrites PROVE FeedInv'
  OBVIOUS
<1>1. UNCHANGED <<happened, begun, stream, kept, query, away, pushed>>
      /\ written < Len(happened) /\ written' = written + 1
  BY DEF LogWrites, pageVars
<1>2. /\ query' \in [Runs -> Call] /\ CallsKept /\ written' \in 0 .. Len(happened)
      /\ begun' \subseteq Runs
  BY <1>1 DEF FeedInv, FeedTyped, CallsKept
<1>. QED
  BY <1>1, <1>2, OnlyCalls

LEMMA CommitsFeed ==
    ASSUME FeedInv, NEW d, CommitsTo(d), UNCHANGED feedVars
    PROVE  FeedInv'
<1>1. query' \in [Runs -> Call] /\ CallsKept
  <2>1. query \in [Runs -> Call] /\ [is |-> "asked", upto |-> 0] \in Call
    BY DEF FeedInv, FeedTyped, Call
  <2>2. /\ DOMAIN query' = Runs /\ query' = [r \in Runs |-> query'[r]]
        /\ \A r \in Runs : query'[r] = [is |-> "asked", upto |-> 0] \/ query'[r] = query[r]
    BY DEF CommitsTo
  <2>3. \A r \in Runs : query'[r] \in Call
    BY <2>1, <2>2
  <2>4. query' \in [Runs -> Call]
    BY <2>2, <2>3
  <2>. QED
    BY <2>2, <2>4 DEF CallsKept
<1>2. written' \in 0 .. Len(happened) /\ begun' \subseteq Runs
  BY DEF FeedInv, FeedTyped, feedVars
<1>. QED
  BY <1>1, <1>2, OnlyCalls DEF feedVars

(* A page that is loaded has nothing, and has been sent nothing.           *)
FreshPage ==
    /\ happened \in Seq(Runs) /\ written \in 0 .. Len(happened) /\ begun \subseteq Runs
    /\ \E b \in BOOLEAN : stream = [open |-> b, buffer |-> <<>>, frame |-> FALSE]
    /\ kept = Nothing /\ away = DOMAIN happened /\ pushed = {} /\ query \in [Runs -> Call]
    /\ \A r \in Runs : query[r].is # "held"

LEMMA FreshFeed == FreshPage => FeedInv
<1>. SUFFICES ASSUME FreshPage PROVE FeedInv
  OBVIOUS
<1>. USE DEF FreshPage
<1>1. \A T : <<>> \in Seq(T)
  OBVIOUS
<1>2. stream \in [open : BOOLEAN, buffer : Seq(DOMAIN happened), frame : BOOLEAN]
  <2>1. <<>> \in Seq(DOMAIN happened)
    BY <1>1
  <2>2. PICK b \in BOOLEAN : stream = [open |-> b, buffer |-> <<>>, frame |-> FALSE]
    OBVIOUS
  <2>. QED
    BY <2>1, <2>2
<1>3. Nothing \in Kept
  BY <1>1 DEF Nothing, Kept
<1>4. FeedTyped
  BY <1>2, <1>3 DEF FeedTyped
<1>5. KeptIsRight
  BY ChosenEmpty, EmptyToSet, PageAssumption DEF KeptIsRight, Nothing, Once
<1>6. BufferIsRight
  BY DEF BufferIsRight, Once
<1>7. HeldIsThere
  BY DEF HeldIsThere
<1>. QED
  BY <1>4, <1>5, <1>6, <1>7 DEF FeedInv

LEMMA FeedStarts == WorkbenchInit => FeedInv
<1>. SUFFICES ASSUME WorkbenchInit PROVE FeedInv
  OBVIOUS
<1>. DEFINE n == MapThenSumSet(LAMBDA r : PerRun[r], History)
<1>1. n \in Nat
  <2>1. IsFiniteSet(History) /\ \A r \in History : PerRun[r] \in Nat
    BY PageAssumption
  <2>2. n = SumOver(PerRun, History)
    BY <2>1, MapSumIsSum
  <2>. QED
    BY ONLY <2>1, <2>2, SumNat
<1>2. happened \in [1 .. n -> History]
  BY DEF WorkbenchInit
<1>. HIDE DEF n
<1>3. happened \in Seq(Runs) /\ Len(happened) \in 0 .. Len(happened)
  BY <1>1, <1>2, PageAssumption
<1>4. /\ begun \subseteq Runs /\ written = Len(happened) /\ away = DOMAIN happened
      /\ pushed = {} /\ kept = Nothing /\ query = [r \in Runs |-> Uncalled]
      /\ stream = [open |-> left.outages = 0, buffer |-> <<>>, frame |-> FALSE]
  BY PageAssumption DEF WorkbenchInit
<1>5. query \in [Runs -> Call] /\ \A r \in Runs : query[r].is # "held"
  BY <1>3, <1>4 DEF Uncalled, Call
<1>6. (left.outages = 0) \in BOOLEAN
  OBVIOUS
<1>7. FreshPage
  BY <1>3, <1>4, <1>5, <1>6 DEF FreshPage
<1>. QED
  BY <1>7, FreshFeed

LEMMA ReloadFeed == FeedInv /\ Reloads => FeedInv'
<1>. SUFFICES ASSUME FeedInv, Reloads PROVE FeedInv'
  OBVIOUS
<1>1. /\ UNCHANGED <<happened, begun, written>> /\ away' = DOMAIN happened /\ pushed' = {}
      /\ kept' = Nothing /\ stream' = [open |-> FALSE, buffer |-> <<>>, frame |-> FALSE]
  BY DEF Reloads
<1>2. /\ happened' \in Seq(Runs) /\ written' \in 0 .. Len(happened') /\ begun' \subseteq Runs
      /\ away' = DOMAIN happened'
  BY <1>1 DEF FeedInv, FeedTyped
<1>3. \E R : query' = [r \in Runs |-> IF r \in R THEN [is |-> "asked", upto |-> 0] ELSE Uncalled]
  <2>1. PICK s, slices, dock : Reloaded(s, slices, dock)
    BY Zenon DEF Reloads
  <2>2. PICK new : query' = [r \in Runs |-> IF \E w \in Watching(new) : w[2] = r
                                     THEN [is |-> "asked", upto |-> 0] ELSE Uncalled]
    BY <2>1, Zenon DEF Reloaded
  <2>. DEFINE R == {r \in Runs : \E w \in Watching(new) : w[2] = r}
  <2>3. query' = [r \in Runs |-> IF r \in R THEN [is |-> "asked", upto |-> 0] ELSE Uncalled]
    BY <2>2
  <2>. QED
    BY <2>3
<1>4. query' \in [Runs -> Call'] /\ \A r \in Runs : query'[r].is # "held"
  BY <1>2, <1>3 DEF Uncalled, Call
<1>5. FreshPage'
  BY <1>1, <1>2, <1>4 DEF FreshPage, Nothing, Call
<1>6. FreshPage' => FeedInv'
  BY FreshFeed, PTL
<1>. QED
  BY <1>5, <1>6

-----------------------------------------------------------------------------
(* The panels: what a desk may hold, and what storage may have.            *)
Panels == [run : Runs \cup {NoRun},
           replay : [status : {"idle", "playing", "paused"}, cut : Nat], draft : BOOLEAN]
Graph == [tracked : Tabs \cup {NoTab}, run : Runs \cup {NoRun},
          key : (Tabs \cup {NoTab}) \X (Runs \cup {NoRun}), gone : BOOLEAN]
Desk == [shown : BOOLEAN, docked : SUBSET (Tabs \cup {EventGraph}),
         active : Tabs \cup {EventGraph, NoTab}, opener : Tabs \cup {NoTab},
         panel : [Tabs -> Panels], graph : Graph]
Stored == [docked : SUBSET (Tabs \cup {EventGraph}), active : Tabs \cup {EventGraph, NoTab},
           opener : Tabs \cup {NoTab}, panel : [Tabs -> Panels],
           tracked : Tabs \cup {NoTab}, run : Runs \cup {NoRun}]
Saved == [layout : [Storages -> Stored], has : SUBSET Storages, missed : SUBSET Storages]

(* A panel is in one mode at most, and in none without a run.              *)
PanelOk(p) == /\ p \in Panels /\ ~(p.draft /\ p.replay # NoReplay)
              /\ (p.draft \/ p.replay # NoReplay) => p.run # NoRun

(* What the event graph took, it took from the panel it tracks.            *)
GraphOk(g) == g.key # NoKey => g.tracked # NoTab /\ g.key = <<g.tracked, g.run>>

DeskOk(d) == /\ d \in Desk /\ d.active \in d.docked \cup {NoTab} /\ GraphOk(d.graph)
             /\ \A t \in Tabs : PanelOk(d.panel[t])

(* It has the run of that panel's slice, docked or not, since a render     *)
(* that found the panel: a panel that is closed loses its run, and then    *)
(* the hook renders.                                                       *)
GraphFollows(d) == Mounted(d) /\ ~d.graph.gone /\ d.graph.tracked # NoTab =>
                      d.graph.run = d.panel[d.graph.tracked].run
StoredOk(s) == /\ s \in Stored /\ s.active \in s.docked \cup {NoTab}
               /\ \A t \in Tabs : PanelOk(s.panel[t])
SavedOk(s) == s \in Saved /\ \A x \in Storages : StoredOk(s.layout[x])
HasIt(s, it) == \A x \in Storages \ s.missed : x \in s.has /\ s.layout[x] = it

PanelsInv ==
    /\ DeskOk(desk) /\ GraphFollows(desk) /\ SavedOk(saved)
    /\ desk.shown /\ ~unsaved => HasIt(saved, Layout(desk))
    /\ unsaved \in BOOLEAN /\ posts \subseteq Tabs \X Runs

LEMMA NoTabNoPanel == NoTab \notin Tabs /\ EventGraph \notin Tabs /\ EventGraph # NoTab
BY PageAssumption

LEMMA PanelsGive == PanelsInv => PanelsAgree
<1>. SUFFICES ASSUME PanelsInv PROVE PanelsAgree
  OBVIOUS
<1>1. \A t \in Tabs : LET p == desk.panel[t] IN
          /\ ~(p.draft /\ p.replay # NoReplay)
          /\ p.draft \/ p.replay # NoReplay => p.run # NoRun
  BY DEF PanelsInv, DeskOk, PanelOk
<1>2. LET g == desk.graph IN
          /\ Mounted(desk) /\ g.tracked \in desk.docked /\ ~g.gone =>
                g.run = desk.panel[g.tracked].run
          /\ g.key # NoKey => g.key = <<g.tracked, g.run>>
  <2>1. GraphOk(desk.graph) /\ GraphFollows(desk) /\ NoTab \notin desk.docked
    BY NoTabNoPanel DEF PanelsInv, DeskOk, Desk
  <2>. QED
    BY <2>1 DEF GraphOk, GraphFollows
<1>3. desk.shown /\ ~unsaved =>
          \A s \in Storages \ saved.missed : s \in saved.has /\ saved.layout[s] = Layout(desk)
  BY DEF PanelsInv, HasIt
<1>. QED
  BY <1>1, <1>2, <1>3 DEF PanelsAgree

(* The event graph after its hook has rendered.                            *)
LEMMA RendersOk ==
    ASSUME NEW d, DeskOk(d), NEW t \in Tabs \cup {NoTab},
           t \in d.docked \/ t = d.graph.tracked \/ d.graph.key = NoKey
    PROVE  LET g == Renders(d, t) IN
           g \in Graph /\ GraphOk(g) /\ g.tracked = t /\ (~g.gone => g.run = d.panel[t].run)
<1>. DEFINE key == LiveKey(d, t)  g == Renders(d, t)
<1>1. /\ d \in Desk /\ d.graph \in Graph /\ GraphOk(d.graph) /\ d.panel \in [Tabs -> Panels]
      /\ d.docked \subseteq Tabs \cup {EventGraph}
  BY DEF DeskOk, Desk
<1>2. t \in d.docked => t \in Tabs /\ t # NoTab
  BY <1>1, NoTabNoPanel
<1>3. t \in d.docked => key = <<t, d.panel[t].run>> /\ d.panel[t].run \in Runs \cup {NoRun}
  BY <1>1, <1>2 DEF LiveKey, Panels
<1>4. t \in d.docked => key # NoKey
  BY <1>2, <1>3 DEF NoKey
<1>5. g = IF t \in d.docked /\ key # d.graph.key
          THEN [tracked |-> t, run |-> d.panel[t].run, key |-> key, gone |-> FALSE]
          ELSE [d.graph EXCEPT !.tracked = t, !.gone = t \notin d.docked]
  BY DEF Renders
<1>. HIDE DEF key, g
<1>6. g \in Graph /\ GraphOk(g) /\ g.tracked = t /\ (~g.gone => g.run = d.panel[t].run)
  <2>1. CASE t \in d.docked /\ key # d.graph.key
    BY <1>2, <1>3, <1>5, <2>1 DEF Graph, GraphOk
  <2>2. CASE ~(t \in d.docked /\ key # d.graph.key)
    <3>1. g = [d.graph EXCEPT !.tracked = t, !.gone = t \notin d.docked]
      BY <1>5, <2>2
    <3>2. /\ g \in Graph /\ g.tracked = t /\ g.gone = (t \notin d.docked)
          /\ g.run = d.graph.run /\ g.key = d.graph.key
      BY <1>1, <3>1 DEF Graph
    <3>3. t \in d.docked => d.graph.key = <<t, d.panel[t].run>> /\ d.graph.key # NoKey
      BY <1>3, <1>4, <2>2
    <3>4. d.graph.key # NoKey =>
             d.graph.tracked # NoTab /\ d.graph.key = <<d.graph.tracked, d.graph.run>>
      BY <1>1 DEF GraphOk
    <3>5. t \in d.docked => d.graph.tracked = t /\ d.graph.run = d.panel[t].run
      BY <3>3, <3>4
    <3>6. GraphOk(g)
      BY <3>2, <3>4, <3>5 DEF GraphOk
    <3>. QED
      BY <3>2, <3>5, <3>6
  <2>. QED
    BY <2>1, <2>2
<1>. QED
  BY <1>6 DEF g

LEMMA WithGraph ==
    ASSUME NEW d, DeskOk(d), NEW g \in Graph, GraphOk(g)
    PROVE  LET new == [d EXCEPT !.graph = g] IN
           /\ DeskOk(new) /\ new.graph = g /\ new.shown = d.shown /\ new.docked = d.docked
           /\ new.panel = d.panel /\ Mounted(new) = Mounted(d)
<1>. DEFINE new == [d EXCEPT !.graph = g]
<1>1. d \in Desk
  BY DEF DeskOk
<1>2. /\ new \in Desk /\ new.graph = g /\ new.shown = d.shown /\ new.docked = d.docked
      /\ new.active = d.active /\ new.panel = d.panel
  BY <1>1 DEF Desk
<1>. HIDE DEF new
<1>3. DeskOk(new) /\ Mounted(new) = Mounted(d)
  BY <1>2 DEF DeskOk, Mounted
<1>. QED
  BY <1>2, <1>3 DEF new

(* The event graph after a commit.                                         *)
LEMMA FollowsOk ==
    ASSUME NEW d, DeskOk(d), NEW was, GraphFollows(was),
           Mounted(was) /\ Mounted(d) => d.graph = was.graph
    PROVE  LET new == [d EXCEPT !.graph = Follows(was, d)] IN
           DeskOk(new) /\ GraphFollows(new) /\ new.shown = d.shown
<1>. DEFINE t == Tracks(d)
            same == Mounted(was) /\ t = d.graph.tracked /\ Sees(d, t) = Sees(was, t)
            g == Follows(was, d)
            new == [d EXCEPT !.graph = g]
<1>1. /\ d \in Desk /\ d.graph \in Graph /\ GraphOk(d.graph) /\ d.panel \in [Tabs -> Panels]
      /\ d.active \in d.docked \cup {NoTab} /\ d.opener \in Tabs \cup {NoTab}
      /\ d.graph.tracked \in Tabs \cup {NoTab}
  BY DEF DeskOk, Desk, Graph
<1>2. t \in Tabs \cup {NoTab} /\ (t \in d.docked \/ t = d.graph.tracked \/ d.graph.key = NoKey)
  BY <1>1, NoTabNoPanel DEF Tracks, GraphOk
<1>3. g = IF ~Mounted(d) THEN [d.graph EXCEPT !.key = NoKey, !.gone = FALSE]
          ELSE IF same THEN d.graph ELSE Renders(d, t)
  BY DEF Follows
<1>. HIDE DEF t
<1>4. /\ g \in Graph /\ GraphOk(g)
      /\ Mounted(d) /\ ~g.gone /\ g.tracked # NoTab => g.run = d.panel[g.tracked].run
  <2>1. CASE ~Mounted(d)
    <3>1. g = [d.graph EXCEPT !.key = NoKey, !.gone = FALSE]
      BY <1>3, <2>1
    <3>2. NoKey \in (Tabs \cup {NoTab}) \X (Runs \cup {NoRun})
      BY DEF NoKey
    <3>. HIDE DEF g
    <3>3. g \in Graph /\ g.key = NoKey
      BY <1>1, <3>1, <3>2 DEF Graph
    <3>. QED
      BY <2>1, <3>3 DEF GraphOk
  <2>2. CASE Mounted(d) /\ same
    <3>1. g = d.graph /\ d.graph = was.graph
      BY <1>3, <2>2
    <3>2. t # NoTab => d.panel[t].run = was.panel[t].run
      BY <2>2 DEF Sees
    <3>. HIDE DEF g
    <3>. QED
      BY <1>1, <2>2, <3>1, <3>2 DEF GraphFollows
  <2>3. CASE Mounted(d) /\ ~same
    <3>1. g = Renders(d, t)
      BY <1>3, <2>3
    <3>. HIDE DEF g
    <3>. QED
      BY <1>2, <3>1, RendersOk
  <2>. QED
    BY <2>1, <2>2, <2>3
<1>. HIDE DEF g
<1>5. /\ DeskOk(new) /\ new.graph = g /\ new.shown = d.shown /\ new.docked = d.docked
      /\ new.panel = d.panel /\ Mounted(new) = Mounted(d)
  BY <1>4, WithGraph
<1>. HIDE DEF new
<1>6. DeskOk(new) /\ GraphFollows(new) /\ new.shown = d.shown
  BY <1>4, <1>5 DEF GraphFollows
<1>. QED
  BY <1>6 DEF new, g

(* A commit that leaves storage alone, or hides the page.                  *)
LEMMA CommittedPanels ==
    ASSUME PanelsInv, NEW new, DeskOk(new), GraphFollows(new), CommitsTo(new),
           posts' \subseteq Tabs \X Runs,
           saved' = saved \/ (~new.shown /\ SavedOk(saved'))
    PROVE  PanelsInv'
<1>1. /\ desk' = new
      /\ unsaved' = (new.shown /\ (unsaved \/ ~desk.shown \/ Layout(new) # Layout(desk)))
  BY DEF CommitsTo
<1>2. DeskOk(desk') /\ GraphFollows(desk') /\ SavedOk(saved') /\ unsaved' \in BOOLEAN
  BY <1>1 DEF PanelsInv
<1>3. desk'.shown /\ ~unsaved' => HasIt(saved', Layout(desk'))
  BY <1>1 DEF PanelsInv
<1>. QED
  BY <1>1, <1>2, <1>3
     DEF PanelsInv, DeskOk, GraphFollows, Mounted, SavedOk, Saved, StoredOk, HasIt, Layout

LEMMA CommitsPanels ==
    ASSUME PanelsInv, NEW d, DeskOk(d), d.graph = desk.graph \/ ~Mounted(d), Commits(d),
           posts' \subseteq Tabs \X Runs,
           saved' = saved \/ (~d.shown /\ SavedOk(saved'))
    PROVE  PanelsInv'
<1>. DEFINE new == [d EXCEPT !.graph = Follows(desk, d)]
<1>1. CommitsTo(new) /\ GraphFollows(desk)
  BY DEF Commits, PanelsInv
<1>2. DeskOk(new) /\ GraphFollows(new) /\ new.shown = d.shown
  BY <1>1, FollowsOk
<1>. HIDE DEF new
<1>. QED
  BY <1>1, <1>2, CommittedPanels

(* A desk with another panel, other panels on it, or another active one.   *)
LEMMA SetPanelOk ==
    ASSUME DeskOk(desk), NEW t \in Tabs, NEW p, PanelOk(p)
    PROVE  DeskOk(SetPanel(t, p)) /\ SetPanel(t, p).graph = desk.graph
<1>. DEFINE d == SetPanel(t, p)
<1>1. /\ d = [desk EXCEPT !.panel[t] = p] /\ desk \in Desk /\ p \in Panels
  BY DEF SetPanel, DeskOk, PanelOk
<1>. HIDE DEF d
<1>2. /\ d \in Desk /\ d.docked = desk.docked /\ d.active = desk.active
      /\ d.graph = desk.graph /\ d.panel = [desk.panel EXCEPT ![t] = p]
  BY <1>1 DEF Desk
<1>3. \A u \in Tabs : PanelOk(d.panel[u])
  <2>. TAKE u \in Tabs
  <2>1. desk.panel \in [Tabs -> Panels] /\ PanelOk(desk.panel[u])
    BY <1>1 DEF DeskOk, Desk
  <2>2. d.panel[u] = p \/ d.panel[u] = desk.panel[u]
    BY <1>2, <2>1
  <2>. QED
    BY <2>1, <2>2
<1>. QED
  BY <1>2, <1>3 DEF DeskOk, d

LEMMA DockOk ==
    ASSUME NEW d, DeskOk(d), NEW e, e.docked \in SUBSET (Tabs \cup {EventGraph}),
           e.active \in e.docked \cup {NoTab}, e.opener \in Tabs \cup {NoTab},
           e = [d EXCEPT !.docked = e.docked, !.active = e.active, !.opener = e.opener]
    PROVE  DeskOk(e) /\ e.graph = d.graph
<1>1. d \in Desk /\ e.active \in Tabs \cup {EventGraph, NoTab}
  BY DEF DeskOk
<1>2. /\ d.shown \in BOOLEAN /\ d.panel \in [Tabs -> Panels] /\ d.graph \in Graph
      /\ e = [shown |-> d.shown, docked |-> e.docked, active |-> e.active,
               opener |-> e.opener, panel |-> d.panel, graph |-> d.graph]
  BY <1>1 DEF Desk
<1>3. e.graph = d.graph /\ e.panel = d.panel /\ e.shown = d.shown
  BY <1>2
<1>4. e \in Desk
  BY <1>1, <1>2 DEF Desk
<1>. QED
  BY <1>3, <1>4 DEF DeskOk

(* Any commit of the page that leaves storage and requests alone.          *)
LEMMA OtherCommits ==
    ASSUME PanelsInv, NEW d, DeskOk(d), d.graph = desk.graph \/ ~Mounted(d), Commits(d),
           UNCHANGED <<posts, saved>>
    PROVE  PanelsInv'
<1>1. posts' \subseteq Tabs \X Runs
  BY DEF PanelsInv
<1>. QED
  BY <1>1, CommitsPanels

LEMMA NewPanelOk == PanelOk(NewPanel)
BY DEF PanelOk, Panels, NewPanel, NoReplay

LEMMA PanelIs ==
    ASSUME PanelsInv, NEW t \in Tabs
    PROVE  /\ PanelOk(desk.panel[t]) /\ desk.panel[t] \in Panels /\ DeskOk(desk)
           /\ desk.panel[t].run \in Runs \cup {NoRun}
           /\ desk.docked \in SUBSET (Tabs \cup {EventGraph})
           /\ desk.active \in desk.docked \cup {NoTab}
BY DEF PanelsInv, DeskOk, PanelOk, Panels, Desk

(* A run leaves a panel as it is otherwise.                                *)
LEMMA RunSetOk ==
    ASSUME PanelsInv, NEW t \in Tabs, NEW r \in Runs
    PROVE  PanelOk(RunSet(t, r))
<1>1. PanelOk(desk.panel[t]) /\ r # NoRun
  BY PanelIs, PageAssumption
<1>. QED
  BY <1>1 DEF PanelOk, Panels, RunSet

LEMMA OpenedPanels == ASSUME PanelsInv, NEW t \in Tabs, Opened(t) PROVE PanelsInv'
<1>. DEFINE d == IF OpenedAs[t].kind = "run" THEN SetPanel(t, RunSet(t, OpenedAs[t].run)) ELSE desk
            e == [d EXCEPT !.docked = @ \cup {t}, !.active = t]
<1>1. Commits(e) /\ UNCHANGED <<posts, saved>>
  BY DEF Opened, Clicks
<1>2. DeskOk(d) /\ d.graph = desk.graph
  <2>1. CASE OpenedAs[t].kind = "run"
    <3>1. OpenedAs[t].run \in Runs
      BY <2>1, PageAssumption
    <3>. QED
      BY <2>1, <3>1, RunSetOk, SetPanelOk, PanelIs
  <2>2. CASE OpenedAs[t].kind # "run"
    BY <2>2, PanelIs
  <2>. QED
    BY <2>1, <2>2
<1>. HIDE DEF d
<1>3. /\ d.docked \cup {t} \in SUBSET (Tabs \cup {EventGraph})
      /\ t \in d.docked \cup {t} \cup {NoTab} /\ d.opener \in Tabs \cup {NoTab}
  BY <1>2 DEF DeskOk, Desk
<1>4. /\ e.docked = d.docked \cup {t} /\ e.active = t /\ e.opener = d.opener
      /\ e = [d EXCEPT !.docked = e.docked, !.active = e.active, !.opener = e.opener]
  BY <1>2 DEF DeskOk, Desk
<1>. HIDE DEF e
<1>5. DeskOk(e) /\ e.graph = desk.graph
  BY <1>2, <1>3, <1>4, DockOk
<1>. QED
  BY <1>1, <1>5, OtherCommits

LEMMA SeedsPanels == ASSUME PanelsInv, NEW t \in Tabs, SeedsFromSim(t) PROVE PanelsInv'
<1>1. OpenedAs[t].run \in Runs
  BY PageAssumption DEF SeedsFromSim
<1>2. /\ DeskOk(SetPanel(t, RunSet(t, OpenedAs[t].run)))
      /\ SetPanel(t, RunSet(t, OpenedAs[t].run)).graph = desk.graph
  BY <1>1, RunSetOk, SetPanelOk, PanelIs
<1>. QED
  BY <1>2, OtherCommits DEF SeedsFromSim

LEMMA DeskIs ==
    ASSUME PanelsInv
    PROVE  /\ DeskOk(desk) /\ desk.docked \in SUBSET (Tabs \cup {EventGraph})
           /\ desk.active \in desk.docked \cup {NoTab} /\ desk \in Desk
           /\ desk.graph \in Graph /\ desk.opener \in Tabs \cup {NoTab}
           /\ desk.graph.tracked \in Tabs \cup {NoTab}
BY DEF PanelsInv, DeskOk, Desk, Graph

LEMMA FocusesPanels ==
    ASSUME PanelsInv, NEW t \in Tabs \cup {EventGraph}, Focuses(t)
    PROVE  PanelsInv'
<1>. DEFINE e == [desk EXCEPT !.active = t]
<1>1. Commits(e) /\ UNCHANGED <<posts, saved>> /\ t \in desk.docked \cup {NoTab}
  BY DEF Focuses, Clicks
<1>2. /\ e.docked = desk.docked /\ e.active = t /\ e.opener = desk.opener
      /\ e = [desk EXCEPT !.docked = e.docked, !.active = e.active, !.opener = e.opener]
  BY DeskIs DEF Desk
<1>3. DeskOk(e) /\ e.graph = desk.graph
  <2>. HIDE DEF e
  <2>. QED
    BY <1>1, <1>2, DeskIs, DockOk
<1>. QED
  BY <1>1, <1>3, OtherCommits

LEMMA OpensGraphPanels == ASSUME PanelsInv, OpensEventGraph PROVE PanelsInv'
<1>. DEFINE e == [desk EXCEPT !.docked = @ \cup {EventGraph}, !.active = EventGraph,
                   !.opener = desk.active]
<1>1. Commits(e) /\ UNCHANGED <<posts, saved>> /\ desk.active \in Tabs
  BY DEF OpensEventGraph, Clicks
<1>2. /\ desk.docked \cup {EventGraph} \in SUBSET (Tabs \cup {EventGraph})
      /\ EventGraph \in desk.docked \cup {EventGraph} \cup {NoTab}
  BY DeskIs
<1>3. /\ e.docked = desk.docked \cup {EventGraph} /\ e.active = EventGraph
      /\ e.opener = desk.active
      /\ e = [desk EXCEPT !.docked = e.docked, !.active = e.active, !.opener = e.opener]
  BY DeskIs DEF Desk
<1>. HIDE DEF e
<1>4. DeskOk(e) /\ e.graph = desk.graph
  BY <1>1, <1>2, <1>3, DeskIs, DockOk
<1>. QED
  BY <1>1, <1>4, OtherCommits

LEMMA RendersAgainPanels == ASSUME PanelsInv, RendersAgain PROVE PanelsInv'
<1>. DEFINE g == Renders(desk, desk.graph.tracked)
            new == [desk EXCEPT !.graph = g]
<1>1. CommitsTo(new) /\ UNCHANGED <<posts, saved>> /\ posts' \subseteq Tabs \X Runs
  BY DEF RendersAgain, PanelsInv
<1>2. /\ g \in Graph /\ GraphOk(g) /\ g.tracked = desk.graph.tracked
      /\ (~g.gone => g.run = desk.panel[desk.graph.tracked].run)
  BY DeskIs, RendersOk
<1>. HIDE DEF g
<1>3. DeskOk(new) /\ new.graph = g /\ new.panel = desk.panel
  BY <1>2, DeskIs, WithGraph
<1>. HIDE DEF new
<1>4. GraphFollows(new)
  BY <1>2, <1>3 DEF GraphFollows
<1>. QED
  BY <1>1, <1>3, <1>4, CommittedPanels

LEMMA RemovesPanels ==
    ASSUME PanelsInv, NEW t \in Tabs \cup {EventGraph}, Removes(t)
    PROVE  PanelsInv'
<1>1. PICK a \in Tabs \cup {EventGraph, NoTab} :
         /\ t \in desk.docked
         /\ IF t # desk.active THEN a = desk.active
            ELSE IF desk.docked = {t} THEN a = NoTab ELSE a \in desk.docked \ {t}
         /\ LET d == [desk EXCEPT !.docked = @ \ {t}, !.active = a] IN
            Clicks(IF t = EventGraph THEN [d EXCEPT !.graph = NewGraph, !.opener = NoTab]
                                     ELSE [d EXCEPT !.panel[t] = NewPanel])
  BY Zenon DEF Removes
<1>. DEFINE d == [desk EXCEPT !.docked = @ \ {t}, !.active = a]
            e == IF t = EventGraph THEN [d EXCEPT !.graph = NewGraph, !.opener = NoTab]
                                   ELSE [d EXCEPT !.panel[t] = NewPanel]
<1>2. Commits(e) /\ UNCHANGED <<posts, saved>>
  BY <1>1 DEF Clicks
<1>3. a \in (desk.docked \ {t}) \cup {NoTab}
  BY <1>1, DeskIs
<1>4. /\ d.docked = desk.docked \ {t} /\ d.active = a /\ d.opener = desk.opener
      /\ d = [desk EXCEPT !.docked = d.docked, !.active = d.active, !.opener = d.opener]
  BY DeskIs DEF Desk
<1>. HIDE DEF d
<1>5. DeskOk(d) /\ d.graph = desk.graph
  <2>1. desk.docked \ {t} \in SUBSET (Tabs \cup {EventGraph})
    BY DeskIs
  <2>. QED
    BY <1>3, <1>4, <2>1, DeskIs, DockOk
<1>6. d \in Desk /\ d.graph \in Graph /\ d.panel \in [Tabs -> Panels]
  BY <1>5 DEF DeskOk, Desk
<1>7. DeskOk(e) /\ (e.graph = desk.graph \/ ~Mounted(e))
  <2>1. CASE t = EventGraph
    <3>1. e = [d EXCEPT !.graph = NewGraph, !.opener = NoTab]
      BY <2>1
    <3>2. NewGraph \in Graph /\ GraphOk(NewGraph)
      BY DEF NewGraph, NoKey, Graph, GraphOk
    <3>. HIDE DEF e
    <3>3. /\ e \in Desk /\ e.graph = NewGraph /\ e.docked = d.docked /\ e.active = d.active
          /\ e.panel = d.panel
      BY <1>6, <3>1, <3>2 DEF Desk
    <3>. QED
      <4>1. EventGraph \notin e.docked
        BY <1>4, <2>1, <3>3
      <4>. QED
        BY <1>5, <3>2, <3>3, <4>1 DEF DeskOk, Mounted
  <2>2. CASE t # EventGraph
    <3>1. e = [d EXCEPT !.panel[t] = NewPanel] /\ t \in Tabs
      BY <2>2
    <3>2. PanelOk(NewPanel) /\ NewPanel \in Panels
      BY NewPanelOk DEF PanelOk
    <3>. HIDE DEF e
    <3>3. /\ e \in Desk /\ e.graph = d.graph /\ e.docked = d.docked /\ e.active = d.active
          /\ e.panel = [d.panel EXCEPT ![t] = NewPanel]
      BY <1>6, <3>1, <3>2 DEF Desk
    <3>4. \A u \in Tabs : PanelOk(e.panel[u])
      <4>1. \A u \in Tabs : PanelOk(d.panel[u])
        BY <1>5 DEF DeskOk
      <4>. QED
        BY <1>6, <3>2, <3>3, <4>1
    <3>. QED
      BY <1>5, <3>3, <3>4 DEF DeskOk
  <2>. QED
    BY <2>1, <2>2
<1>. HIDE DEF e
<1>. QED
  BY <1>2, <1>7, OtherCommits

LEMMA SubmittedPanels ==
    ASSUME PanelsInv, NEW t \in Tabs, NEW r \in Runs, RunSubmitted(t, r)
    PROVE  PanelsInv'
<1>1. DeskOk(SetPanel(t, RunSet(t, r))) /\ SetPanel(t, RunSet(t, r)).graph = desk.graph
  BY RunSetOk, SetPanelOk, PanelIs
<1>2. /\ Commits(SetPanel(t, RunSet(t, r))) /\ posts' = posts \ {<<t, r>>} /\ saved' = saved
  BY DEF RunSubmitted
<1>3. posts' \subseteq Tabs \X Runs
  BY <1>2 DEF PanelsInv
<1>. QED
  BY <1>1, <1>2, <1>3, CommitsPanels

(* Another mode of a panel.                                                *)
LEMMA InPanelPanels ==
    ASSUME PanelsInv, NEW t \in Tabs, NEW p, PanelOk(p), InPanel(t, p)
    PROVE  PanelsInv'
<1>1. DeskOk(SetPanel(t, p)) /\ SetPanel(t, p).graph = desk.graph
  BY SetPanelOk, DeskIs
<1>. QED
  BY <1>1, OtherCommits DEF InPanel

LEMMA ReplayPanels ==
    ASSUME PanelsInv, NEW t \in Tabs, NEW how \in {"idle", "playing", "paused"}, NEW cut \in Nat,
           how = "idle" => cut = 0,
           how # "idle" => ~desk.panel[t].draft /\ desk.panel[t].run # NoRun,
           ReplayIs(t, how, cut)
    PROVE  PanelsInv'
<1>. DEFINE old == desk.panel[t]
            p == [old EXCEPT !.replay = [status |-> how, cut |-> cut]]
<1>1. PanelOk(old)
  BY PanelIs
<1>. HIDE DEF old
<1>2. /\ old \in Panels /\ (old.draft => old.run # NoRun)
  BY <1>1 DEF PanelOk
<1>3. /\ p \in Panels /\ p.draft = old.draft /\ p.run = old.run
      /\ p.replay = [status |-> how, cut |-> cut]
  BY <1>2 DEF Panels
<1>4. p.replay # NoReplay => how # "idle"
  BY <1>3 DEF NoReplay
<1>. HIDE DEF p
<1>5. PanelOk(p)
  BY <1>2, <1>3, <1>4 DEF PanelOk, old
<1>. QED
  BY <1>5, InPanelPanels DEF ReplayIs, p, old

(* A run whose end is not in the list of its events is in flight: the      *)
(* list of any other is not empty.                                         *)
LEMMA ToggledPanels ==
    ASSUME FeedInv, PanelsInv, NEW t \in Tabs, ReplayToggled(t)
    PROVE  PanelsInv'
<1>. DEFINE p == desk.panel[t]
<1>1. /\ p \in Panels /\ p.run # NoRun /\ ~InFlight(t) /\ ~p.draft
      /\ CASE p.replay.status = "idle"    -> ReplayIs(t, "playing", Head(kept.ofRun[p.run]))
           [] p.replay.status = "playing" -> ReplayIs(t, "paused", p.replay.cut)
           [] p.replay.status = "paused"  -> ReplayIs(t, "playing", p.replay.cut)
  BY PanelIs DEF ReplayToggled
<1>2. /\ p.run \in Runs /\ p.replay.status \in {"idle", "playing", "paused"}
      /\ p.replay.cut \in Nat
  BY <1>1 DEF Panels
<1>3. Head(kept.ofRun[p.run]) \in Nat
  <2>. DEFINE q == kept.ofRun[p.run]
  <2>1. q \in Seq(DOMAIN happened) /\ DOMAIN happened \subseteq Nat
    BY <1>2 DEF FeedInv, FeedTyped, Kept
  <2>2. q # <<>>
    BY <1>1, EmptyToSet DEF InFlight
  <2>. HIDE DEF q
  <2>3. Head(q) \in DOMAIN happened
    BY <2>1, <2>2
  <2>. QED
    BY <2>1, <2>3 DEF q
<1>4. CASE p.replay.status = "idle"
  BY <1>1, <1>2, <1>3, <1>4, ReplayPanels
<1>5. CASE p.replay.status = "playing"
  BY <1>1, <1>2, <1>5, ReplayPanels
<1>6. CASE p.replay.status = "paused"
  BY <1>1, <1>2, <1>6, ReplayPanels
<1>. QED
  BY <1>2, <1>4, <1>5, <1>6

LEMMA TickedPanels ==
    ASSUME FeedInv, PanelsInv, NEW t \in Tabs, ReplayTicks(t)
    PROVE  PanelsInv'
<1>. DEFINE p == desk.panel[t]
            times == IF p.run = NoRun THEN <<>> ELSE kept.ofRun[p.run]
<1>1. PICK next \in p.replay.cut .. Len(happened) :
            /\ p.replay.status = "playing" /\ times # <<>>
            /\ IF next >= times[Len(times)] THEN ReplayIs(t, "idle", 0)
               ELSE ReplayIs(t, "playing", next)
  BY DEF ReplayTicks
<1>2. p \in Panels /\ PanelOk(p)
  BY PanelIs
<1>3. p.replay.cut \in Nat /\ Len(happened) \in Nat /\ p.run # NoRun /\ ~p.draft
  BY <1>1, <1>2 DEF Panels, PanelOk, NoReplay, FeedInv, FeedTyped
<1>4. next \in Nat
  BY <1>3
<1>5. ReplayIs(t, "idle", 0) \/ ReplayIs(t, "playing", next)
  BY <1>1
<1>. HIDE DEF times
<1>. QED
  BY <1>3, <1>4, <1>5, ReplayPanels

LEMMA ModesPanels ==
    ASSUME FeedInv, PanelsInv, NEW t \in Tabs,
           \/ ReplayToggled(t) \/ ReplayTicks(t) \/ ReplayEnded(t)
           \/ DraftStarted(t) \/ DraftEnded(t)
    PROVE  PanelsInv'
<1>1. CASE ReplayEnded(t)
  BY <1>1, ReplayPanels DEF ReplayEnded
<1>2. CASE DraftStarted(t)
  <2>. DEFINE old == desk.panel[t]  p == [old EXCEPT !.draft = TRUE]
  <2>1. old \in Panels /\ old.run # NoRun /\ old.replay = NoReplay
    BY <1>2, PanelIs DEF DraftStarted
  <2>2. PanelOk(p)
    BY <2>1 DEF Panels, PanelOk
  <2>. QED
    BY <1>2, <2>2, InPanelPanels DEF DraftStarted
<1>3. CASE DraftEnded(t)
  <2>. DEFINE old == desk.panel[t]  p == [old EXCEPT !.draft = FALSE]
  <2>1. old \in Panels /\ PanelOk(old)
    BY PanelIs
  <2>2. PanelOk(p)
    BY <2>1 DEF Panels, PanelOk
  <2>. QED
    BY <1>3, <2>2, InPanelPanels DEF DraftEnded
<1>. QED
  BY <1>1, <1>2, <1>3, ToggledPanels, TickedPanels

LEMMA LayoutOk == PanelsInv => StoredOk(Layout(desk))
<1>. SUFFICES ASSUME PanelsInv PROVE StoredOk(Layout(desk))
  OBVIOUS
<1>1. /\ Layout(desk) \in Stored /\ Layout(desk).active = desk.active
      /\ Layout(desk).docked = desk.docked /\ Layout(desk).panel = desk.panel
  BY DeskIs DEF Layout, Stored, Desk, Graph
<1>. QED
  BY <1>1, DeskIs DEF StoredOk, DeskOk

(* A write: those that throw are the ones that missed it.                  *)
LEMMA WrittenOk ==
    ASSUME PanelsInv, NEW ok \in SUBSET Storages
    PROVE  SavedOk(Written(ok)) /\ SavedOk(Flushed(ok)) /\ HasIt(Written(ok), Layout(desk))
<1>. DEFINE w == Written(ok)
<1>1. StoredOk(Layout(desk)) /\ Layout(desk) \in Stored /\ SavedOk(saved) /\ saved \in Saved
  BY LayoutOk DEF StoredOk, SavedOk, PanelsInv
<1>2. /\ w.layout = [s \in Storages |-> IF s \in ok THEN Layout(desk) ELSE saved.layout[s]]
      /\ w.has = saved.has \cup ok /\ w.missed = Storages \ ok
      /\ w = [layout |-> w.layout, has |-> w.has, missed |-> w.missed]
  BY DEF Written
<1>. HIDE DEF w
<1>3. \A x \in Storages : w.layout[x] = Layout(desk) \/ w.layout[x] = saved.layout[x]
  BY <1>2
<1>4. \A x \in Storages : StoredOk(w.layout[x]) /\ w.layout[x] \in Stored
  BY <1>1, <1>3 DEF SavedOk, StoredOk
<1>5. w \in Saved
  <2>1. w.layout \in [Storages -> Stored]
    BY <1>2, <1>4
  <2>2. w.has \in SUBSET Storages /\ w.missed \in SUBSET Storages
    BY <1>1, <1>2 DEF Saved
  <2>. QED
    BY <1>2, <2>1, <2>2 DEF Saved
<1>6. HasIt(w, Layout(desk))
  BY <1>2 DEF HasIt
<1>7. SavedOk(w)
  BY <1>4, <1>5 DEF SavedOk
<1>8. Flushed(ok) = w \/ Flushed(ok) = saved
  BY DEF Flushed, w
<1>. QED
  BY <1>1, <1>6, <1>7, <1>8 DEF w

LEMMA LoadedOk == ASSUME NEW s, SavedOk(s), NEW ok PROVE StoredOk(Loaded(s, ok))
<1>1. "session" \in Storages /\ "local" \in Storages
  BY DEF Storages
<1>2. StoredOk(s.layout["session"]) /\ StoredOk(s.layout["local"])
  BY <1>1 DEF SavedOk
<1>3. StoredOk(Blank)
  <2>1. PanelOk(NewPanel) /\ NewPanel \in Panels
    BY NewPanelOk DEF PanelOk
  <2>. QED
    BY <2>1 DEF Blank, StoredOk, Stored
<1>. QED
  BY <1>2, <1>3 DEF Loaded

LEMMA SavesPanels == ASSUME PanelsInv, Saves PROVE PanelsInv'
<1>1. PICK ok \in SUBSET Storages : saved' = Written(ok)
  BY DEF Saves
<1>2. unsaved' = FALSE /\ UNCHANGED <<desk, posts>>
  BY DEF Saves
<1>3. SavedOk(saved') /\ HasIt(saved', Layout(desk))
  BY <1>1, WrittenOk
<1>. QED
  BY <1>2, <1>3
     DEF PanelsInv, DeskOk, GraphFollows, Mounted, SavedOk, Saved, StoredOk, HasIt, Layout

LEMMA LeavesPanels == ASSUME PanelsInv, Leaves PROVE PanelsInv'
<1>. DEFINE d == [desk EXCEPT !.shown = FALSE, !.docked = {}, !.active = NoTab, !.opener = NoTab]
<1>1. Commits(d) /\ posts' = posts /\ SavedOk(saved')
  <2>1. PICK ok \in SUBSET Storages : saved' = Flushed(ok)
    BY DEF Leaves
  <2>2. Commits(d) /\ posts' = posts
    BY DEF Leaves
  <2>3. SavedOk(Flushed(ok))
    BY WrittenOk
  <2>. QED
    BY <2>1, <2>2, <2>3
<1>2. /\ d \in Desk /\ ~d.shown /\ d.docked = {} /\ d.active = NoTab
      /\ d.graph = desk.graph /\ d.panel = desk.panel
  BY DeskIs DEF Desk
<1>. HIDE DEF d
<1>3. DeskOk(d)
  BY <1>2, DeskIs DEF DeskOk
<1>4. posts' \subseteq Tabs \X Runs
  BY <1>1 DEF PanelsInv
<1>. QED
  BY <1>1, <1>2, <1>3, <1>4, CommitsPanels

LEMMA ComesBackPanels == ASSUME PanelsInv, ComesBack PROVE PanelsInv'
<1>1. PICK ok \in SUBSET Storages :
         Commits([desk EXCEPT !.shown = TRUE, !.docked = Loaded(saved, ok).docked,
                    !.active = Loaded(saved, ok).active, !.opener = Loaded(saved, ok).opener])
  BY DEF ComesBack
<1>2. UNCHANGED <<posts, saved>>
  BY DEF ComesBack
<1>. DEFINE dock == Loaded(saved, ok)
            d == [desk EXCEPT !.shown = TRUE, !.docked = dock.docked, !.active = dock.active,
                    !.opener = dock.opener]
<1>3. StoredOk(dock)
  BY LoadedOk DEF PanelsInv
<1>4. Commits(d)
  BY <1>1
<1>. HIDE DEF dock
<1>5. /\ dock.docked \subseteq Tabs \cup {EventGraph}
      /\ dock.active \in Tabs \cup {EventGraph, NoTab} /\ dock.opener \in Tabs \cup {NoTab}
      /\ dock.active \in dock.docked \cup {NoTab}
  BY <1>3 DEF StoredOk, Stored
<1>6. /\ d \in Desk /\ d.docked = dock.docked /\ d.active = dock.active
      /\ d.graph = desk.graph /\ d.panel = desk.panel
  BY <1>5, DeskIs DEF Desk
<1>. HIDE DEF d
<1>7. DeskOk(d)
  BY <1>5, <1>6, DeskIs DEF DeskOk
<1>. QED
  BY <1>2, <1>4, <1>6, <1>7, OtherCommits

LEMMA ReloadedPanels ==
    ASSUME PanelsInv, NEW s, SavedOk(s), NEW slices, StoredOk(slices), NEW dock, StoredOk(dock),
           Reloaded(s, slices, dock), posts' = {}
    PROVE  PanelsInv'
<1>. DEFINE g == [NewGraph EXCEPT !.tracked = slices.tracked, !.run = slices.run]
            d == [shown |-> desk.shown, panel |-> slices.panel,
                  docked |-> IF desk.shown THEN dock.docked ELSE {},
                  active |-> IF desk.shown THEN dock.active ELSE NoTab,
                  opener |-> IF desk.shown THEN dock.opener ELSE NoTab, graph |-> g]
            was == [d EXCEPT !.docked = {}]
            new == [d EXCEPT !.graph = Follows(was, d)]
<1>1. saved' = s /\ desk' = new /\ unsaved' = desk.shown
  BY DEF Reloaded
<1>2. g \in Graph /\ GraphOk(g)
  <2>1. slices.tracked \in Tabs \cup {NoTab} /\ slices.run \in Runs \cup {NoRun}
    BY DEF StoredOk, Stored
  <2>2. NoKey \in (Tabs \cup {NoTab}) \X (Runs \cup {NoRun})
    BY DEF NoKey
  <2>. QED
    BY <2>1, <2>2 DEF NewGraph, Graph, GraphOk
<1>. HIDE DEF g
<1>3. /\ d \in Desk /\ d.graph = g /\ d.panel = slices.panel /\ d.shown = desk.shown
      /\ d.active \in d.docked \cup {NoTab}
  BY <1>2, DeskIs DEF Desk, StoredOk, Stored
<1>4. DeskOk(d)
  BY <1>2, <1>3 DEF DeskOk, StoredOk
<1>5. ~Mounted(was)
  BY DEF Mounted
<1>. HIDE DEF d, was
<1>6. GraphFollows(was)
  BY <1>5 DEF GraphFollows
<1>7. DeskOk(new) /\ GraphFollows(new) /\ new.shown = desk.shown
  BY <1>3, <1>4, <1>5, <1>6, FollowsOk
<1>. HIDE DEF new
<1>8. unsaved' \in BOOLEAN /\ desk'.shown = unsaved'
  BY <1>1, <1>7, DeskIs DEF Desk
<1>. QED
  BY <1>1, <1>7, <1>8
     DEF PanelsInv, DeskOk, GraphFollows, Mounted, SavedOk, Saved, StoredOk

LEMMA ReloadsPanels == ASSUME PanelsInv, Reloads PROVE PanelsInv'
<1>1. PICK ok, first, second \in SUBSET Storages :
         \E s \in {Flushed(ok), saved} : Reloaded(s, Loaded(s, first), Loaded(s, second))
  BY Zenon DEF Reloads
<1>2. PICK s \in {Flushed(ok), saved} : Reloaded(s, Loaded(s, first), Loaded(s, second))
  BY <1>1
<1>3. SavedOk(s)
  BY <1>1, <1>2, WrittenOk DEF PanelsInv
<1>4. posts' = {}
  BY DEF Reloads
<1>. QED
  BY <1>2, <1>3, <1>4, LoadedOk, ReloadedPanels

LEMMA PanelsStart == WorkbenchInit => PanelsInv
<1>. SUFFICES ASSUME WorkbenchInit PROVE PanelsInv
  OBVIOUS
<1>1. /\ desk = [shown |-> TRUE, docked |-> {}, active |-> NoTab, opener |-> NoTab,
                  panel |-> [t \in Tabs |-> NewPanel], graph |-> NewGraph]
      /\ saved = [layout |-> [s \in Storages |-> Blank], has |-> {}, missed |-> {}]
      /\ unsaved = TRUE /\ posts = {}
  BY DEF WorkbenchInit
<1>2. PanelOk(NewPanel) /\ NewPanel \in Panels
  BY NewPanelOk DEF PanelOk
<1>3. NewGraph \in Graph /\ GraphOk(NewGraph) /\ NewGraph.tracked = NoTab
  BY DEF NewGraph, NoKey, Graph, GraphOk
<1>4. DeskOk(desk) /\ GraphFollows(desk)
  BY <1>1, <1>2, <1>3 DEF DeskOk, Desk, GraphFollows
<1>5. StoredOk(Blank)
  BY <1>2 DEF Blank, StoredOk, Stored
<1>6. SavedOk(saved)
  <2>1. Blank \in Stored
    BY <1>5 DEF StoredOk
  <2>. QED
    BY <1>1, <1>5, <2>1 DEF SavedOk, Saved
<1>. QED
  BY <1>1, <1>4, <1>6 DEF PanelsInv

-----------------------------------------------------------------------------
(* Every step of the page.                                                 *)
PageInv == FeedInv /\ PanelsInv

LEMMA PanelsStay ==
    ASSUME PanelsInv, UNCHANGED <<desk, saved, unsaved, posts>>
    PROVE  PanelsInv'
BY DEF PanelsInv, DeskOk, GraphFollows, Mounted, SavedOk, Saved, StoredOk, HasIt, Layout

LEMMA FeedStays ==
    ASSUME FeedInv, UNCHANGED <<happened, written, stream, kept, query, away, pushed>>,
           begun' \subseteq Runs
    PROVE  FeedInv'
<1>1. /\ query' \in [Runs -> Call] /\ CallsKept /\ written' \in 0 .. Len(happened)
  BY DEF FeedInv, FeedTyped, CallsKept
<1>. QED
  BY <1>1, OnlyCalls

LEMMA StreamSteps ==
    ASSUME PageInv, StreamOpens \/ StreamBreaks \/ Frame \/ LogWrites
    PROVE  PageInv'
<1>1. PanelsInv'
  BY PanelsStay DEF PageInv, StreamOpens, StreamBreaks, Frame, LogWrites, pageVars
<1>2. FeedInv'
  BY StreamTurns, FrameKeeps, LogWritesKeeps DEF PageInv
<1>. QED
  BY <1>1, <1>2 DEF PageInv

LEMMA CallSteps ==
    ASSUME PageInv, NEW r \in Runs,
           Happens(r) \/ Served(r) \/ Filled(r) \/ QueryFails(r) \/ Forgets(r)
    PROVE  PageInv'
<1>1. PanelsInv'
  BY PanelsStay DEF PageInv, Happens, Served, Filled, QueryFails, Forgets, QueryIs, pageVars
<1>2. FeedInv'
  BY HappensKeeps, AskedKeeps, FilledKeeps DEF PageInv
<1>. QED
  BY <1>1, <1>2 DEF PageInv

LEMMA PanelSteps ==
    ASSUME PageInv, NEW t \in Tabs \cup {EventGraph}, Focuses(t) \/ Removes(t)
    PROVE  PageInv'
<1>1. PanelsInv'
  BY FocusesPanels, RemovesPanels DEF PageInv
<1>2. \E d : Commits(d) /\ UNCHANGED feedVars
  BY Zenon DEF Focuses, Removes, Clicks
<1>3. FeedInv'
  BY <1>2, CommitsFeed DEF PageInv, Commits
<1>. QED
  BY <1>1, <1>3 DEF PageInv

LEMMA TabSteps ==
    ASSUME PageInv, NEW t \in Tabs,
           \/ Opened(t) \/ SeedsFromSim(t)
           \/ ReplayToggled(t) \/ ReplayTicks(t) \/ ReplayEnded(t)
           \/ DraftStarted(t) \/ DraftEnded(t)
    PROVE  PageInv'
<1>1. PanelsInv'
  BY OpenedPanels, SeedsPanels, ModesPanels DEF PageInv
<1>2. \E d : Commits(d) /\ UNCHANGED feedVars
  <2>1. CASE Opened(t)
    BY <2>1, Zenon DEF Opened, Clicks
  <2>2. CASE SeedsFromSim(t)
    BY <2>2, Zenon DEF SeedsFromSim
  <2>3. CASE ReplayToggled(t) \/ ReplayTicks(t) \/ ReplayEnded(t) \/ DraftStarted(t) \/ DraftEnded(t)
    <3>1. \E p : InPanel(t, p)
      <4>1. ASSUME ReplayToggled(t) PROVE \E how, cut : ReplayIs(t, how, cut)
        <5>1. desk.panel[t].replay.status \in {"idle", "playing", "paused"}
          BY PanelIs DEF PageInv, Panels
        <5>. QED
          BY <4>1, <5>1 DEF ReplayToggled
      <4>2. ASSUME ReplayTicks(t) \/ ReplayEnded(t) PROVE \E how, cut : ReplayIs(t, how, cut)
        BY <4>2 DEF ReplayTicks, ReplayEnded
      <4>3. ASSUME DraftStarted(t) \/ DraftEnded(t) PROVE \E p : InPanel(t, p)
        BY <4>3 DEF DraftStarted, DraftEnded
      <4>4. ASSUME NEW how, NEW cut, ReplayIs(t, how, cut) PROVE \E p : InPanel(t, p)
        BY <4>4 DEF ReplayIs
      <4>. QED
        BY <2>3, <4>1, <4>2, <4>3, <4>4
    <3>. QED
      BY <3>1 DEF InPanel
  <2>. QED
    BY <2>1, <2>2, <2>3
<1>3. FeedInv'
  BY <1>2, CommitsFeed DEF PageInv, Commits
<1>. QED
  BY <1>1, <1>3 DEF PageInv

LEMMA RunSteps ==
    ASSUME PageInv, NEW t \in Tabs, NEW r \in Runs,
           RequestsRun(t, r) \/ RunSubmitted(t, r) \/ RunRefused(t, r)
    PROVE  PageInv'
<1>1. CASE RequestsRun(t, r)
  <2>1. /\ UNCHANGED <<desk, unsaved, saved, happened, written, stream, kept, query, away, pushed>>
        /\ posts' = posts \cup {<<t, r>>} /\ begun' = begun \cup {r}
    BY <1>1 DEF RequestsRun, pageVars
  <2>2. PanelsInv'
    BY <2>1 DEF PageInv, PanelsInv, DeskOk, GraphFollows, Mounted, SavedOk, Saved, StoredOk,
                HasIt, Layout
  <2>3. begun' \subseteq Runs
    BY <2>1 DEF PageInv, FeedInv, FeedTyped
  <2>. QED
    BY <2>1, <2>2, <2>3, FeedStays DEF PageInv
<1>2. CASE RunSubmitted(t, r)
  <2>1. \E d : Commits(d) /\ UNCHANGED feedVars
    BY <1>2 DEF RunSubmitted
  <2>. QED
    BY <1>2, <2>1, SubmittedPanels, CommitsFeed DEF PageInv, Commits
<1>3. CASE RunRefused(t, r)
  <2>1. /\ UNCHANGED <<desk, unsaved, saved, happened, written, stream, kept, query, away, pushed, begun>>
        /\ posts' = posts \ {<<t, r>>}
    BY <1>3 DEF RunRefused, pageVars, feedVars
  <2>2. PanelsInv'
    BY <2>1 DEF PageInv, PanelsInv, DeskOk, GraphFollows, Mounted, SavedOk, Saved, StoredOk,
                HasIt, Layout
  <2>3. begun' \subseteq Runs
    BY <2>1 DEF PageInv, FeedInv, FeedTyped
  <2>. QED
    BY <2>1, <2>2, <2>3, FeedStays DEF PageInv
<1>. QED
  BY <1>1, <1>2, <1>3

LEMMA DeskSteps ==
    ASSUME PageInv, OpensEventGraph \/ RendersAgain \/ Saves \/ Leaves \/ ComesBack \/ Reloads
    PROVE  PageInv'
<1>1. PanelsInv'
  BY OpensGraphPanels, RendersAgainPanels, SavesPanels, LeavesPanels, ComesBackPanels,
     ReloadsPanels DEF PageInv
<1>2. CASE OpensEventGraph \/ RendersAgain \/ Leaves \/ ComesBack
  <2>1. \E new : CommitsTo(new) /\ UNCHANGED feedVars
    BY <1>2, Zenon DEF OpensEventGraph, RendersAgain, Leaves, ComesBack, Clicks, Commits
  <2>. QED
    BY <1>1, <2>1, CommitsFeed DEF PageInv
<1>3. CASE Saves
  <2>1. UNCHANGED <<happened, written, stream, kept, query, away, pushed, begun>>
    BY <1>3 DEF Saves, feedVars
  <2>2. begun' \subseteq Runs
    BY <2>1 DEF PageInv, FeedInv, FeedTyped
  <2>. QED
    BY <1>1, <2>1, <2>2, FeedStays DEF PageInv
<1>4. CASE Reloads
  BY <1>1, <1>4, ReloadFeed DEF PageInv
<1>. QED
  BY <1>2, <1>3, <1>4

LEMMA PageSteps == PageInv /\ [WorkbenchNext]_workbenchVars => PageInv'
<1>. SUFFICES ASSUME PageInv, [WorkbenchNext]_workbenchVars PROVE PageInv'
  OBVIOUS
<1>1. CASE UNCHANGED workbenchVars
  <2>1. /\ UNCHANGED <<happened, written, stream, kept, query, away, pushed, begun>>
        /\ UNCHANGED <<desk, saved, unsaved, posts>>
    BY <1>1 DEF workbenchVars, feedVars, pageVars
  <2>2. begun' \subseteq Runs
    BY <2>1 DEF PageInv, FeedInv, FeedTyped
  <2>. QED
    BY <2>1, <2>2, FeedStays, PanelsStay DEF PageInv
<1>2. CASE WorkbenchNext
  BY <1>2, StreamSteps, CallSteps, PanelSteps, TabSteps, RunSteps, DeskSteps DEF WorkbenchNext
<1>. QED
  BY <1>1, <1>2

LEMMA PageAlways == WorkbenchSpec => []PageInv
<1>1. WorkbenchInit => PageInv
  BY FeedStarts, PanelsStart DEF PageInv
<1>. QED
  BY <1>1, PageSteps, PTL DEF WorkbenchSpec

(* The page's state has its types (sse.ts, events-slice.ts,                *)
(* flow-graph-panels-slice.ts), also after a reload from what was stored.  *)
THEOREM PageIsTyped == WorkbenchSpec => []WorkbenchTypeOK
<1>1. PageInv => WorkbenchTypeOK
  <2>. SUFFICES ASSUME PageInv PROVE WorkbenchTypeOK
    OBVIOUS
  <2>1. \A t \in Tabs : desk.panel[t].run \in Runs \cup {NoRun}
    BY PanelIs DEF PageInv
  <2>2. /\ desk.docked \subseteq Tabs \cup {EventGraph} /\ desk.active \in desk.docked \cup {NoTab}
        /\ posts \subseteq Tabs \X Runs /\ unsaved \in BOOLEAN
        /\ desk.opener \in Tabs \cup {NoTab} /\ desk.graph.tracked \in Tabs \cup {NoTab}
        /\ saved.has \subseteq {"session", "local"} /\ saved.missed \subseteq {"session", "local"}
    BY DeskIs DEF PageInv, PanelsInv, SavedOk, Saved, Storages
  <2>. QED
    BY <2>1, <2>2 DEF WorkbenchTypeOK, PageInv, FeedInv, FeedTyped, Kept, Call
<1>. QED
  BY <1>1, PageAlways, PTL

(* No event is lost between the server and the panels (sse.ts,             *)
(* events-slice.ts, runs-api.ts): the slice holds each event once, at most *)
(* as many as it keeps, and under each run those of the run in their       *)
(* order; whatever waits in the buffer has a frame to come; and of a run   *)
(* whose events were asked for, the page has each one, unless a window     *)
(* pushed it out or it happened unseen after the answer was read.          *)
THEOREM EventsStayAccounted == WorkbenchSpec => []EventsAreAccounted
<1>1. PageInv => EventsAreAccounted
  BY FeedGives DEF PageInv
<1>. QED
  BY <1>1, PageAlways, PTL

(* The panels agree (use-flow-graph-panel.ts,                              *)
(* use-tracked-flow-graph-panel.ts, Workbench.tsx, dock-persistence.ts),   *)
(* however often storages throw and panels are closed and opened again: no *)
(* panel replays and drafts at once or does either without a run; the      *)
(* event graph, though its hook only renders when it has to, shows the run *)
(* of the panel it tracks if that one is there and was at its last render, *)
(* and never has one panel's run as another's; and unless a write is due   *)
(* each storage whose last write did not throw has all there is.           *)
THEOREM PanelsAlwaysAgree == WorkbenchSpec => []PanelsAgree
<1>1. PageInv => PanelsAgree
  BY PanelsGive DEF PageInv
<1>. QED
  BY <1>1, PageAlways, PTL
=============================================================================
