-------------------------- MODULE EngineStoryProofs --------------------------
(***************************************************************************)
(* What a run has done: no step wakes without a cause, no work is          *)
(* forgotten, the verdict is that of the steps, and every request is       *)
(* answered exactly once.                                                  *)
(*                                                                         *)
(* The first three hold at the end of a run because of what was on the bus *)
(* before it.  Story, on top of EngineInv, therefore says that the ends on *)
(* the bus are true of their steps (EndTrue), that what a step that is     *)
(* over has earned is followed or its end still waits on the bus           *)
(* (Followed), that only what is not reused is executed (Fresh), that a    *)
(* step that left "initialized" has a reason (Reason), that the run        *)
(* context has the failures that count (FailuresCounted) and that a        *)
(* published verdict agrees with them (Judged).                            *)
(*                                                                         *)
(* Asked, which needs no assumption on the flow, follows a request from    *)
(* the bus over the load to its answer; EndsTold follows the end of a run  *)
(* to the event of its flow, whose verdict Judged fixes.                   *)
(*                                                                         *)
(* The last part is about module EdgeWalk: after any edges of a walk, in   *)
(* any order, the run is the one they open and decide together (Reached);  *)
(* what all the edges give is the closed form of module Engine, so the     *)
(* order analyzeFlow found them in decides nothing.                        *)
(***************************************************************************)
EXTENDS EngineProofs, EdgeWalk

(* StoryKept draws its conclusion once and for all: an action needs to     *)
(* show only how it moves the steps (Moves).                               *)

EndingsOf(q) == {q[i] : i \in DOMAIN q} \cap EndEvent
Endings == EndingsOf(bus)
Left(s) == run.step[s] = "initialized"

(* The end of a step tells what became of it.                              *)
EndTrue(x) ==
    /\ run.step[x.step] = Verdict(x.status)
    /\ x.type = "step.reused" => run.reuse[x.step] # "none"
    /\ x.type # "step.reused" => (x.type = "step.completed" <=> x.status = "success")
    /\ Inherited \notin BranchValues /\ Def(x.step).type = "branch" =>
          x.case \in Def(x.step).steps \cup {None}

(* The edges that a step has earned are followed, and the joins it is the  *)
(* last input of are decided.                                              *)
Earned(s) ==
    /\ \A d \in Steps :
          /\ run.step[s] = "completed" /\ ControlEdge(s, d, "success") => ~Left(d)
          /\ run.step[s] = "failed" /\ ControlEdge(s, d, "failure") => ~Left(d)
    /\ run.step[s] = "completed" /\ Def(s).type = "branch" /\ run.reuse[s] = "none"
          /\ Def(s).next # None /\ Inherited \notin BranchValues
         => \E d \in Def(s).steps \cup {Def(s).next} : ~Left(d)
InputsOver(j) == \A s \in Def(j).steps : Over(s)
Decides(s) == \A j \in Steps : JoinEdge(s, j) /\ InputsOver(j) => Over(j)

(* A step that is over hands over to the steps it leads to.                *)
HandsOver(s) ==
    /\ Def(s).type = "join" /\ run.step[s] = "completed" =>
          \A d \in Steps : JoinNext(s, d) => ~Left(d)
    /\ run.step[s] = "completed" /\ run.reuse[s] = "none" =>
          \A c \in Steps : ParallelEdge(s, c) => ~Asleep(c)
Followed(s) ==
    /\ HandsOver(s)
    /\ Over(s) /\ Def(s).type # "join" => Earned(s) \/ \E x \in Endings : x.step = s
    /\ Def(s).type = "join" /\ Def(s).steps # {} /\ InputsOver(s) =>
          Over(s) \/ \E x \in Endings : x.step \in Def(s).steps

(* Only what is not reused is executed.                                    *)
Fresh(s) == run.step[s] = "started" \/ submitted[s] > 0 \/ branching[s] > 0
                => run.reuse[s] = "none"

FailuresCounted == \A s \in Steps : s \in run.failedSteps <=> Fails(s)

Reason(d) ==
    \/ d = flow.start
    \/ \E s \in Steps :
        \/ ParallelEdge(s, d) /\ run.step[s] \in {"started", "completed"}
        \/ ControlEdge(s, d, "success") /\ run.step[s] = "completed"
        \/ ControlEdge(s, d, "failure") /\ run.step[s] = "failed"
        \/ run.step[s] = "completed"
             /\ \E case \in Steps \cup {None} : BranchEdge(s, d, case)
        \/ JoinNext(s, d) /\ run.step[s] = "completed"
    \/ Def(d).type = "join" /\ InputsOver(d)

Judged ==
    /\ announced["run.completed"] > 0 => run.status = "completed" /\ run.failedSteps = {}
    /\ announced["run.failed"] > 0 => run.status = "failed" /\ run.failedSteps # {}

Story == /\ \A x \in Endings : EndTrue(x)
         /\ \A s \in Steps : Followed(s) /\ Fresh(s) /\ (~Asleep(s) => Reason(s))
         /\ FailuresCounted /\ Judged

-----------------------------------------------------------------------------
(* The ends on a bus.                                                      *)

LEMMA EndingsConcat ==
    ASSUME NEW p \in Seq(Event), NEW q \in Seq(Event)
    PROVE  EndingsOf(p \o q) = EndingsOf(p) \cup EndingsOf(q)
<1>. DEFINE held(r) == {r[i] : i \in DOMAIN r}
<1>1. /\ Len(p) \in Nat /\ Len(q) \in Nat
      /\ DOMAIN (p \o q) = 1..(Len(p) + Len(q))
      /\ DOMAIN p = 1..Len(p) /\ DOMAIN q = 1..Len(q)
      /\ \A i \in 1..(Len(p) + Len(q)) :
            (p \o q)[i] = IF i <= Len(p) THEN p[i] ELSE q[i - Len(p)]
  BY ConcatProperties, LenProperties
<1>2. \A i \in DOMAIN (p \o q) : (p \o q)[i] \in held(p) \cup held(q)
  <2>1. ASSUME NEW i \in DOMAIN (p \o q) PROVE (p \o q)[i] \in held(p) \cup held(q)
    <3>1. CASE i <= Len(p)
      BY <1>1, <3>1
    <3>2. CASE ~(i <= Len(p))
      <4>1. i - Len(p) \in DOMAIN q /\ (p \o q)[i] = q[i - Len(p)]
        BY <1>1, <3>2
      <4>. QED  BY <4>1
    <3>. QED  BY <3>1, <3>2
  <2>. QED  BY <2>1
<1>3. \A i \in DOMAIN p : p[i] \in held(p \o q)
  <2>1. \A i \in DOMAIN p : i \in DOMAIN (p \o q) /\ (p \o q)[i] = p[i]
    BY <1>1
  <2>. QED  BY <2>1
<1>4. \A i \in DOMAIN q : q[i] \in held(p \o q)
  <2>1. \A i \in DOMAIN q : i + Len(p) \in DOMAIN (p \o q) /\ (p \o q)[i + Len(p)] = q[i]
    BY <1>1
  <2>. QED  BY <2>1
<1>5. held(p \o q) = held(p) \cup held(q)
  BY <1>2, <1>3, <1>4
<1>. QED  BY <1>5 DEF EndingsOf

LEMMA EndingsOne ==
    ASSUME NEW e
    PROVE  EndingsOf(<<e>>) = {e} \cap EndEvent
<1>1. {<<e>>[i] : i \in DOMAIN <<e>>} = {e}
  OBVIOUS
<1>. QED  BY <1>1 DEF EndingsOf

LEMMA EndingsAppend ==
    ASSUME NEW q \in Seq(Event), NEW e \in Event
    PROVE  EndingsOf(Append(q, e)) = EndingsOf(q) \cup ({e} \cap EndEvent)
<1>1. Append(q, e) = q \o <<e>> /\ <<e>> \in Seq(Event)
  BY AppendIsConcat
<1>. QED  BY <1>1, EndingsConcat, EndingsOne

LEMMA EndingsTail ==
    ASSUME NEW q \in Seq(Event), q # <<>>
    PROVE  /\ Tail(q) \in Seq(Event) /\ Head(q) \in Event
           /\ EndingsOf(q) = EndingsOf(Tail(q)) \cup ({Head(q)} \cap EndEvent)
<1>1. /\ Len(q) \in Nat \ {0} /\ DOMAIN q = 1..Len(q)
      /\ Tail(q) \in Seq(Event) /\ DOMAIN Tail(q) = 1..(Len(q) - 1)
      /\ \A i \in 1..(Len(q) - 1) : Tail(q)[i] = q[i + 1]
      /\ Head(q) = q[1] /\ Head(q) \in Event
  BY HeadTailProperties, EmptySeq, LenProperties
<1>2. \A i \in DOMAIN q : q[i] = Head(q) \/ \E j \in DOMAIN Tail(q) : q[i] = Tail(q)[j]
  <2>1. ASSUME NEW i \in DOMAIN q, i # 1
        PROVE  \E j \in DOMAIN Tail(q) : q[i] = Tail(q)[j]
    <3>1. i - 1 \in DOMAIN Tail(q) /\ Tail(q)[i - 1] = q[i]
      BY <1>1, <2>1
    <3>. QED  BY <3>1
  <2>. QED  BY <1>1, <2>1
<1>3. \A j \in DOMAIN Tail(q) : \E i \in DOMAIN q : q[i] = Tail(q)[j]
  <2>1. ASSUME NEW j \in DOMAIN Tail(q)
        PROVE  j + 1 \in DOMAIN q /\ q[j + 1] = Tail(q)[j]
    BY <1>1, <2>1
  <2>. QED  BY <2>1
<1>4. \E i \in DOMAIN q : q[i] = Head(q)
  <2>1. 1 \in DOMAIN q
    BY <1>1
  <2>. QED  BY <1>1, <2>1
<1>. QED  BY <1>1, <1>2, <1>3, <1>4 DEF EndingsOf

LEMMA EndingsPlanned ==
    ASSUME NEW ids \in SUBSET Steps, NEW evs \in PlannedEvents(ids)
    PROVE  evs \in Seq(Event) /\ EndingsOf(evs) = {}
<1>1. evs \in Seq(Event) /\ EndsIn(evs) = 0
  BY TallyPlanned
<1>2. \A i \in DOMAIN evs : evs[i] \notin EndEvent
  BY <1>1, CountZero DEF EndsIn
<1>. QED  BY <1>1, <1>2 DEF EndingsOf

LEMMA NoEndings ==
    ASSUME NEW q \in Seq(Event)
    PROVE  EndsIn(q) = 0 <=> EndingsOf(q) = {}
<1>1. EndsIn(q) = 0 <=> \A i \in DOMAIN q : q[i] \notin EndEvent
  BY CountZero DEF EndsIn
<1>. QED  BY <1>1 DEF EndingsOf

LEMMA EndingsCompleted ==
    ASSUME NEW ids \in SUBSET Steps, NEW evs \in CompletedEvents(ids)
    PROVE  evs \in Seq(Event) /\ EndingsOf(evs) = {Ended(s, "success", None) : s \in ids}
<1>1. evs \in Seq(Event)
  BY TallyCompleted
<1>2. PICK q \in SetToSeqs(ids) : evs = [i \in DOMAIN q |-> Ended(q[i], "success", None)]
  BY DEF CompletedEvents
<1>3. /\ q \in [1..Cardinality(ids) -> ids]
      /\ \A s \in ids : \E i \in 1..Cardinality(ids) : q[i] = s
  BY Listed
<1>4. /\ \A i \in DOMAIN evs : \E s \in ids : evs[i] = Ended(s, "success", None)
      /\ \A s \in ids : \E i \in DOMAIN evs : evs[i] = Ended(s, "success", None)
  BY <1>2, <1>3
<1>5. \A s \in ids : Ended(s, "success", None) \in EndEvent
  BY DEF Ended, EndEvent, Outcomes
<1>. QED  BY <1>1, <1>4, <1>5 DEF EndingsOf

-----------------------------------------------------------------------------
(* How an action moves the steps.                                          *)

Hands(s) == Earned(s) /\ Decides(s)

Moves ==
    /\ flow' = flow /\ run'.reuse = run.reuse
    /\ \A s \in Steps :
          /\ ~Asleep(s) => ~Asleep(s)'
          /\ ~Left(s) => ~Left(s)'
          /\ Def(s).type = "parallel" /\ run.step[s] = "started" =>
                run'.step[s] \in {"started", "completed"}
          /\ Asleep(s) /\ ~Asleep(s)' => Reason(s)'
          /\ ~Over(s) /\ Over(s)' =>
                /\ HandsOver(s)'
                /\ Def(s).type # "join" => \E x \in Endings' : x.step = s
                /\ Def(s).type = "join" => Endings # {}
          /\ Fresh(s)'
    /\ FailuresCounted'
    /\ \A x \in Endings' : x \in Endings \/ EndTrue(x)'
    /\ \A x \in Endings : x \in Endings' \/ Hands(x.step)'
    /\ announced'["run.completed"] > 0 =>
          announced["run.completed"] > 0 \/ (run'.status = "completed" /\ run'.failedSteps = {})
    /\ announced'["run.failed"] > 0 =>
          announced["run.failed"] > 0 \/ (run'.status = "failed" /\ run'.failedSteps # {})

(* The shape of the flow is as it was.                                     *)
LEMMA EdgesStay ==
    ASSUME flow' = flow
    PROVE  /\ \A s : Def(s)' = Def(s)
           /\ \A s, d : /\ ParallelEdge(s, d)' <=> ParallelEdge(s, d)
                        /\ JoinEdge(s, d)' <=> JoinEdge(s, d)
                        /\ JoinNext(s, d)' <=> JoinNext(s, d)
           /\ \A s, d, x : /\ ControlEdge(s, d, x)' <=> ControlEdge(s, d, x)
                           /\ BranchEdge(s, d, x)' <=> BranchEdge(s, d, x)
BY DEF Def, ParallelEdge, JoinEdge, JoinNext, ControlEdge, BranchEdge

LEMMA TrueStays ==
    ASSUME TypeOK, Moves, Kept, NEW x \in EndEvent, EndTrue(x)
    PROVE  EndTrue(x)'
<1>1. x.step \in Steps /\ x.status \in Outcomes
  BY DEF EndEvent
<1>2. Over(x.step)
  BY <1>1 DEF EndTrue, Over, Verdict
<1>3. run'.step[x.step] = run.step[x.step] /\ run'.reuse = run.reuse /\ flow' = flow
  BY <1>1, <1>2 DEF Kept, Moves
<1>. QED  BY <1>3, EdgesStay DEF EndTrue

LEMMA EarnedStays ==
    ASSUME TypeOK, Moves, Kept, NEW s \in Steps, Over(s), Earned(s)
    PROVE  Earned(s)'
<1>1. run'.step[s] = run.step[s] /\ run'.reuse = run.reuse /\ flow' = flow
  BY DEF Kept, Moves
<1>2. \A d \in Steps : ~Left(d) => ~Left(d)'
  BY DEF Moves
<1>3. Def(s).next = None \/ Def(s).next \in Steps
  BY DefType DEF TypeOK
<1>3a. Def(s).steps \subseteq Steps
  BY DefType DEF TypeOK
<1>4. \A d \in Steps :
          /\ run'.step[s] = "completed" /\ ControlEdge(s, d, "success")' => ~Left(d)'
          /\ run'.step[s] = "failed" /\ ControlEdge(s, d, "failure")' => ~Left(d)'
  BY <1>1, <1>2, EdgesStay DEF Earned
<1>5. ASSUME run'.step[s] = "completed", Def(s)'.type = "branch", run'.reuse[s] = "none",
             Def(s)'.next # None, Inherited \notin BranchValues
      PROVE  \E d \in Def(s)'.steps \cup {Def(s)'.next} : ~Left(d)'
  <2>1. Def(s)' = Def(s)
    BY <1>1, EdgesStay
  <2>2. PICK d \in Def(s).steps \cup {Def(s).next} : ~Left(d)
    BY <1>1, <1>5, <2>1 DEF Earned
  <2>3. d \in Steps
    BY <1>3, <1>3a, <1>5, <2>1, <2>2
  <2>. QED  BY <1>2, <2>1, <2>2, <2>3
<1>. QED  BY <1>4, <1>5 DEF Earned

LEMMA ReasonStays ==
    ASSUME TypeOK, Moves, Kept, NEW d \in Steps, Reason(d)
    PROVE  Reason(d)'
<1>1. flow' = flow
  BY DEF Moves
<1>2. \A s \in Steps : /\ run.step[s] = "completed" => run'.step[s] = "completed"
                       /\ run.step[s] = "failed" => run'.step[s] = "failed"
                       /\ Over(s) => Over(s)'
  BY DEF Kept, Over
<1>3. CASE d = flow.start
  BY <1>1, <1>3 DEF Reason
<1>4. CASE Def(d).type = "join" /\ InputsOver(d)
  <2>1. Def(d).steps \subseteq Steps /\ Def(d)' = Def(d)
    BY <1>1, DefType, EdgesStay DEF TypeOK
  <2>2. InputsOver(d)'
    BY <1>2, <1>4, <2>1 DEF InputsOver
  <2>. QED  BY <1>4, <2>1, <2>2 DEF Reason
<1>5. ASSUME NEW s \in Steps,
             \/ ParallelEdge(s, d) /\ run.step[s] \in {"started", "completed"}
             \/ ControlEdge(s, d, "success") /\ run.step[s] = "completed"
             \/ ControlEdge(s, d, "failure") /\ run.step[s] = "failed"
             \/ run.step[s] = "completed"
                  /\ \E case \in Steps \cup {None} : BranchEdge(s, d, case)
             \/ JoinNext(s, d) /\ run.step[s] = "completed"
      PROVE  Reason(d)'
  <2>1. ParallelEdge(s, d) /\ run.step[s] \in {"started", "completed"} =>
           ParallelEdge(s, d)' /\ run'.step[s] \in {"started", "completed"}
    <3>1. ParallelEdge(s, d) => Def(s).type = "parallel"
      BY DEF ParallelEdge
    <3>. QED  BY <1>1, <1>2, <3>1, EdgesStay DEF Moves
  <2>2. run.step[s] = "completed" /\ (\E case \in Steps \cup {None} : BranchEdge(s, d, case)) =>
           run'.step[s] = "completed" /\ (\E case \in Steps \cup {None} : BranchEdge(s, d, case)')
    BY <1>1, <1>2, EdgesStay
  <2>. QED  BY <1>1, <1>2, <1>5, <2>1, <2>2, EdgesStay DEF Reason
<1>. QED  BY <1>3, <1>4, <1>5 DEF Reason

LEMMA HandsOverStays ==
    ASSUME TypeOK, Moves, Kept, NEW s \in Steps, Over(s), HandsOver(s)
    PROVE  HandsOver(s)'
<1>1. run'.step[s] = run.step[s] /\ run'.reuse = run.reuse /\ flow' = flow
  BY DEF Kept, Moves
<1>2. \A d \in Steps : (~Left(d) => ~Left(d)') /\ (~Asleep(d) => ~Asleep(d)')
  BY DEF Moves
<1>. QED  BY <1>1, <1>2, EdgesStay DEF HandsOver

(* A join all of whose inputs are over is decided, or will be by the end   *)
(* of one of them.                                                         *)
LEMMA JoinFollowed ==
    ASSUME TypeOK, flow \in Flows, Moves, Kept, Endings \subseteq EndEvent,
           NEW j \in Steps, Followed(j), Def(j).type = "join", Def(j).steps # {},
           InputsOver(j)'
    PROVE  Over(j)' \/ \E x \in Endings' : x.step \in Def(j).steps
<1>1. /\ Def(j)' = Def(j) /\ flow' = flow
      /\ Def(j).steps \subseteq Steps
      /\ \A s \in Def(j).steps : Def(s).type # "join"
  <2>1. flow' = flow
    BY DEF Moves
  <2>2. Def(j).steps \subseteq Steps
    BY DefType DEF TypeOK
  <2>3. \A s \in Def(j).steps : Def(s).type # "join"
    BY <2>2, ShapesOf
  <2>. QED  BY <2>1, <2>2, <2>3, EdgesStay
<1>2. ASSUME NEW s \in Def(j).steps, ~Over(s)
      PROVE  \E x \in Endings' : x.step = s
  <2>1. s \in Steps /\ Over(s)'
    BY <1>1 DEF InputsOver
  <2>. QED  BY <1>1, <1>2, <2>1 DEF Moves
<1>3. CASE \A s \in Def(j).steps : Over(s)
  <2>1. InputsOver(j)
    BY <1>3 DEF InputsOver
  <2>2. CASE Over(j)
    BY <2>2 DEF Kept, Over
  <2>3. ASSUME NEW x \in Endings, x.step \in Def(j).steps
        PROVE  Over(j)' \/ \E y \in Endings' : y.step \in Def(j).steps
    <3>1. CASE x \in Endings'
      BY <2>3, <3>1
    <3>2. CASE Decides(x.step)'
      <4>1. JoinEdge(x.step, j)'
        BY <1>1, <2>3, EdgesStay DEF JoinEdge
      <4>. QED  BY <3>2, <4>1 DEF Decides
    <3>3. x \in Endings' \/ Decides(x.step)'
      BY DEF Moves, Hands
    <3>. QED  BY <3>1, <3>2, <3>3
  <2>. QED  BY <2>1, <2>2, <2>3 DEF Followed
<1>. QED  BY <1>2, <1>3

LEMMA FollowedKept ==
    ASSUME TypeOK, flow \in Flows, Moves, Kept, Endings \subseteq EndEvent,
           \A x \in Endings : EndTrue(x), NEW s \in Steps, Followed(s)
    PROVE  Followed(s)'
<1>1. /\ flow' = flow /\ Def(s)' = Def(s)
      /\ ~Over(s) /\ Over(s)' => /\ HandsOver(s)'
                                 /\ Def(s).type # "join" => \E x \in Endings' : x.step = s
      /\ Over(s) => run'.step[s] = run.step[s]
  <2>1. flow' = flow
    BY DEF Moves
  <2>. QED  BY <2>1, EdgesStay DEF Moves, Kept
<1>2. HandsOver(s)'
  <2>1. CASE Over(s)
    BY <2>1, HandsOverStays DEF Followed
  <2>2. CASE ~Over(s) /\ Over(s)'
    BY <1>1, <2>2
  <2>3. CASE ~Over(s)'
    BY <2>3 DEF HandsOver, Over
  <2>. QED  BY <2>1, <2>2, <2>3
<1>3. ASSUME Over(s)', Def(s).type # "join"
      PROVE  Earned(s)' \/ \E x \in Endings' : x.step = s
  <2>1. CASE ~Over(s)
    BY <1>1, <1>3, <2>1
  <2>2. CASE Over(s) /\ Earned(s)
    BY <2>2, EarnedStays
  <2>3. ASSUME Over(s), NEW x \in Endings, x.step = s
        PROVE  Earned(s)' \/ \E y \in Endings' : y.step = s
    <3>1. x \in Endings' \/ Earned(x.step)'
      BY DEF Moves, Hands
    <3>. QED  BY <2>3, <3>1
  <2>. QED  BY <1>3, <2>1, <2>2, <2>3 DEF Followed
<1>4. ASSUME Def(s).type = "join", Def(s).steps # {}, InputsOver(s)'
      PROVE  Over(s)' \/ \E x \in Endings' : x.step \in Def(s).steps
  BY <1>4, JoinFollowed
<1>. QED  BY <1>1, <1>2, <1>3, <1>4 DEF Followed

(* Once an end is published nothing fails that had not failed.             *)
LEMMA NoLateFailure ==
    ASSUME TypeOK, TypeOK', Lives, Lives', Kept, Moves, FailuresCounted,
           Ends > 0, Ends' > 0
    PROVE  /\ \A s \in Steps : Fails(s)' <=> Fails(s)
           /\ run'.failedSteps = run.failedSteps
<1>1. Endings = {} /\ Endings' = {}
  <2>1. EndsIn(bus) = 0 /\ EndsIn(bus') = 0
    BY DEF Lives, Closing
  <2>. QED  BY <2>1, NoEndings DEF TypeOK, Endings
<1>2. /\ \A s \in Steps : Def(s)' = Def(s)
      /\ run'.reuse = run.reuse
  BY EdgesStay DEF Moves
<1>3. ASSUME NEW s \in Steps PROVE Over(s)' <=> Over(s)
  <2>1. Over(s) => Over(s)'
    BY DEF Kept, Over
  <2>2. ~(~Over(s) /\ Over(s)')
    BY <1>1 DEF Moves
  <2>. QED  BY <2>1, <2>2
<1>4. ASSUME NEW s \in Steps PROVE Fails(s)' <=> Fails(s)
  <2>1. CASE Over(s)
    BY <1>2, <2>1 DEF Kept, Fails
  <2>2. CASE ~Over(s)
    BY <1>3, <2>2 DEF Fails, Over
  <2>. QED  BY <2>1, <2>2
<1>5. \A s \in Steps : s \in run'.failedSteps <=> s \in run.failedSteps
  BY <1>4 DEF FailuresCounted, Moves
<1>6. run'.failedSteps \subseteq Steps /\ run.failedSteps \subseteq Steps
  BY DEF TypeOK, RunContext
<1>. QED  BY <1>4, <1>5, <1>6

LEMMA JudgedKept ==
    ASSUME TypeOK, TypeOK', Lives, Lives', Kept, Moves, FailuresCounted, Judged
    PROVE  Judged'
<1>1. /\ announced["run.completed"] \in Nat /\ announced["run.failed"] \in Nat
      /\ announced'["run.completed"] \in Nat /\ announced'["run.failed"] \in Nat
  BY DEF TypeOK, Announcements
<1>2. ASSUME announced'["run.completed"] > 0
      PROVE  run'.status = "completed" /\ run'.failedSteps = {}
  <2>1. CASE announced["run.completed"] > 0
    <3>1. Ends > 0 /\ Ends' > 0
      BY <1>1, <1>2, <2>1 DEF Ends
    <3>. QED  BY <2>1, <3>1, NoLateFailure DEF Judged, Kept
  <2>2. CASE ~(announced["run.completed"] > 0)
    BY <1>2, <2>2 DEF Moves
  <2>. QED  BY <2>1, <2>2
<1>3. ASSUME announced'["run.failed"] > 0
      PROVE  run'.status = "failed" /\ run'.failedSteps # {}
  <2>1. CASE announced["run.failed"] > 0
    <3>1. Ends > 0 /\ Ends' > 0
      BY <1>1, <1>3, <2>1 DEF Ends
    <3>. QED  BY <2>1, <3>1, NoLateFailure DEF Judged, Kept
  <2>2. CASE ~(announced["run.failed"] > 0)
    BY <1>3, <2>2 DEF Moves
  <2>. QED  BY <2>1, <2>2
<1>. QED  BY <1>2, <1>3 DEF Judged

(* Whatever moves the steps so keeps the story.                            *)
LEMMA StoryKept ==
    ASSUME TypeOK, TypeOK', flow \in Flows, Lives, Lives', Kept, Moves, Story
    PROVE  Story'
<1>1. Endings \subseteq EndEvent /\ Endings' \subseteq EndEvent
  BY DEF Endings, EndingsOf
<1>2. \A x \in Endings' : EndTrue(x)'
  <2>1. ASSUME NEW x \in Endings' PROVE EndTrue(x)'
    <3>1. CASE x \in Endings
      BY <1>1, <3>1, TrueStays DEF Story
    <3>2. CASE x \notin Endings
      BY <2>1, <3>2 DEF Moves
    <3>. QED  BY <3>1, <3>2
  <2>. QED  BY <2>1
<1>3. \A s \in Steps : Followed(s)'
  BY <1>1, FollowedKept DEF Story
<1>4. \A s \in Steps : ~Asleep(s)' => Reason(s)'
  <2>1. ASSUME NEW s \in Steps, ~Asleep(s)' PROVE Reason(s)'
    <3>1. CASE Asleep(s)
      BY <2>1, <3>1 DEF Moves
    <3>2. CASE ~Asleep(s)
      BY <3>2, ReasonStays DEF Story
    <3>. QED  BY <3>1, <3>2
  <2>. QED  BY <2>1
<1>5. (\A s \in Steps : Fresh(s)') /\ FailuresCounted'
  BY DEF Moves
<1>6. Judged'
  BY JudgedKept DEF Story
<1>. QED  BY <1>2, <1>3, <1>4, <1>5, <1>6 DEF Story

(* An action that moves no step.                                           *)
LEMMA QuietMoves ==
    ASSUME TypeOK, Story, flow' = flow, run'.step = run.step, run'.reuse = run.reuse,
           run'.failedSteps = run.failedSteps, Endings' = Endings,
           UNCHANGED <<submitted, branching>>,
           announced'["run.completed"] = announced["run.completed"],
           announced'["run.failed"] = announced["run.failed"]
    PROVE  Moves
<1>1. \A s \in Steps : /\ Asleep(s)' <=> Asleep(s)
                       /\ Left(s)' <=> Left(s)
                       /\ Over(s)' <=> Over(s)
                       /\ Fresh(s)' <=> Fresh(s)
                       /\ Fails(s)' <=> Fails(s)
  BY EdgesStay DEF Asleep, Left, Over, Fresh, Fails
<1>2. FailuresCounted' /\ \A s \in Steps : Fresh(s)'
  BY <1>1 DEF Story, FailuresCounted
<1>. QED  BY <1>1, <1>2 DEF Moves

(* Before a run starts nothing is told of it.                              *)
NotBegun ==
    /\ \A s \in Steps : Asleep(s) /\ submitted[s] = 0 /\ branching[s] = 0
    /\ Endings = {} /\ run.failedSteps = {}
    /\ announced["run.completed"] = 0 /\ announced["run.failed"] = 0

LEMMA StoryBegins == TypeOK /\ NotBegun => Story
<1>. SUFFICES ASSUME TypeOK, NotBegun PROVE Story
  OBVIOUS
<1>1. \A s \in Steps : ~Over(s) /\ run.step[s] # "started" /\ run.step[s] # "completed"
                       /\ run.step[s] # "failed"
  BY DEF NotBegun, Asleep, Over
<1>2. \A s \in Steps : Fresh(s)
  BY <1>1, RunFields DEF Fresh, NotBegun, TypeOK
<1>3. FailuresCounted
  BY <1>1 DEF FailuresCounted, Fails, NotBegun
<1>4. Judged
  BY DEF Judged, NotBegun
<1>5. ASSUME NEW s \in Steps PROVE Followed(s)
  <2>1. Def(s).steps \subseteq Steps
    BY DefType DEF TypeOK
  <2>2. Def(s).steps # {} => ~InputsOver(s)
    BY <1>1, <2>1 DEF InputsOver
  <2>. QED  BY <1>1, <2>2 DEF Followed, HandsOver
<1>. QED  BY <1>2, <1>3, <1>4, <1>5 DEF Story, NotBegun

-----------------------------------------------------------------------------
(* The actions.                                                            *)

LEMMA EndingsOfOthers ==
    ASSUME NEW q \in Seq(Event), NEW e \in Event, e \notin EndEvent
    PROVE  /\ EndingsOf(Append(q, e)) = EndingsOf(q)
           /\ q # <<>> /\ Head(q) = e => EndingsOf(Tail(q)) = EndingsOf(q)
<1>1. EndingsOf(Append(q, e)) = EndingsOf(q)
  <2>1. EndingsOf(Append(q, e)) = EndingsOf(q) \cup ({e} \cap EndEvent)
    BY EndingsAppend
  <2>. QED  BY <2>1
<1>2. ASSUME q # <<>>, Head(q) = e PROVE EndingsOf(Tail(q)) = EndingsOf(q)
  <2>1. EndingsOf(q) = EndingsOf(Tail(q)) \cup ({e} \cap EndEvent)
    BY <1>2, EndingsTail
  <2>. QED  BY <2>1
<1>. QED  BY <1>1, <1>2

LEMMA EndingsOfEnd ==
    ASSUME NEW q \in Seq(Event), NEW e \in Event, e \in EndEvent
    PROVE  EndingsOf(Append(q, e)) = EndingsOf(q) \cup {e}
<1>1. EndingsOf(Append(q, e)) = EndingsOf(q) \cup ({e} \cap EndEvent)
  BY EndingsAppend
<1>. QED  BY <1>1

LEMMA RequestMoves ==
    ASSUME TypeOK, Story, NEW t \in Traces, NEW fork \in Forks \cup {NoFork}, Request(t, fork)
    PROVE  Moves
<1>1. PICK e : e = [type |-> "run.requested", trace |-> t, fork |-> fork]
  OBVIOUS
<1>2. e \in Event /\ e.type = "run.requested"
  BY <1>1 DEF Event, RequestEvent
<1>3. e \notin EndEvent
  BY <1>2, KindOf
<1>4. Endings' = Endings
  BY <1>1, <1>2, <1>3, EndingsOfOthers DEF Request, TypeOK, Endings
<1>. QED  BY <1>4, QuietMoves DEF Request, jobVars

LEMMA RunRequestedMoves ==
    ASSUME TypeOK, Story, RunRequested
    PROVE  Moves
<1>1. /\ bus \in Seq(Event) /\ bus # <<>> /\ bus' = Tail(bus)
      /\ Head(bus) \in Event /\ Head(bus).type = "run.requested"
  BY BusParts DEF RunRequested, Handles, TypeOK
<1>2. Head(bus) \notin EndEvent
  BY <1>1, KindOf
<1>3. Endings' = Endings
  BY <1>1, <1>2, EndingsOfOthers DEF Endings
<1>4. run'.step = run.step /\ run'.reuse = run.reuse /\ run'.failedSteps = run.failedSteps
  BY DEF RunRequested, RunRequestedReducer, TypeOK, RunContext
<1>5. /\ announced'["run.completed"] = announced["run.completed"]
      /\ announced'["run.failed"] = announced["run.failed"]
  BY DEF RunRequested, Announce, Announcements, TypeOK
<1>. QED  BY <1>3, <1>4, <1>5, QuietMoves DEF RunRequested, jobVars

LEMMA LoadFailedMoves ==
    ASSUME TypeOK, Story, LoadFailed
    PROVE  Moves
<1>1. run'.step = run.step /\ run'.reuse = run.reuse /\ run'.failedSteps = run.failedSteps
  BY DEF LoadFailed, LoadFailedReducer, TypeOK, RunContext
<1>2. /\ announced'["run.completed"] = announced["run.completed"]
      /\ announced'["run.failed"] = announced["run.failed"]
  BY DEF LoadFailed, Announce, Announcements, TypeOK
<1>3. Endings' = Endings
  BY DEF LoadFailed, Endings
<1>. QED  BY <1>1, <1>2, <1>3, QuietMoves DEF LoadFailed, jobVars

LEMMA MakeRunPlanTells ==
    ASSUME TypeOK, TypeOK', Lives, Story, load # "none", flow' = flow, NEW valid, NEW data,
           MakeRunPlan(valid, data), UNCHANGED <<branching, submitted>>
    PROVE  Story'
<1>1. /\ EndsIn(bus) = 0 /\ Ends = 0
      /\ \A s \in Steps : run.step[s] = "none"
  BY LoadingIsQuiet
<1>2. run.failedSteps = {}
  <2>1. run.failedSteps \subseteq Steps
    BY DEF TypeOK, RunContext
  <2>2. \A s \in Steps : ~Fails(s)
    BY <1>1 DEF Fails
  <2>. QED  BY <2>1, <2>2 DEF Story, FailuresCounted
<1>3. Endings' = {}
  <2>1. Endings = {}
    BY <1>1, NoEndings DEF TypeOK, Endings
  <2>2. PICK e : e = Ev("run.started")
    OBVIOUS
  <2>3. e \in Event /\ e.type = "run.started"
    BY <2>2, EventsMade DEF Ev
  <2>4. e \notin EndEvent
    BY <2>3, KindOf
  <2>5. bus' = bus \/ bus' = Append(bus, e)
    BY <2>2 DEF MakeRunPlan, Ev
  <2>. QED  BY <2>1, <2>3, <2>4, <2>5, EndingsOfOthers DEF Endings, TypeOK
<1>4. \A s \in Steps : Asleep(s)' /\ submitted'[s] = 0 /\ branching'[s] = 0
  <2>1. \A s \in Steps : run'.step[s] \in {"none", "initialized"}
    BY <1>1 DEF MakeRunPlan, MakeRunPlanReducer, TypeOK, RunContext
  <2>2. \A s \in Steps : submitted[s] = 0 /\ branching[s] = 0
    BY <1>1 DEF Lives, Life, Asleep, Untouched
  <2>. QED  BY <2>1, <2>2 DEF Asleep
<1>5. run'.failedSteps = {}
  BY <1>2 DEF MakeRunPlan, MakeRunPlanReducer, TypeOK, RunContext
<1>6. announced'["run.completed"] = 0 /\ announced'["run.failed"] = 0
  <2>1. announced["run.completed"] = 0 /\ announced["run.failed"] = 0
    BY <1>1 DEF Ends, TypeOK, Announcements
  <2>2. \E x \in {"run.started", "run.denied"} : Announce({x})
    BY DEF MakeRunPlan, Ev
  <2>. QED  BY <2>1, <2>2 DEF Announce, Announcements
<1>7. NotBegun'
  BY <1>3, <1>4, <1>5, <1>6 DEF NotBegun
<1>8. TypeOK' /\ NotBegun' => Story'
  BY StoryBegins, PTL
<1>. QED  BY <1>7, <1>8

LEMMA LoadedTells ==
    ASSUME TypeOK, TypeOK', Lives, Story, Loaded
    PROVE  Moves \/ Story'
<1>1. CASE LoadFailed
  BY <1>1, LoadFailedMoves
<1>2. CASE ForkSpecLoaded
  <2>1. Endings' = Endings
    BY <1>2 DEF ForkSpecLoaded, Endings
  <2>. QED  BY <1>2, <2>1, QuietMoves DEF ForkSpecLoaded, jobVars
<1>3. ASSUME NEW valid \in BOOLEAN, FlowDefLoaded(valid) PROVE Moves \/ Story'
  <2>1. CASE run.fork # NoFork
    <3>1. UNCHANGED <<flow, run, bus, announced, branching, submitted>>
      BY <1>3, <2>1 DEF FlowDefLoaded, jobVars
    <3>2. Endings' = Endings
      BY <3>1 DEF Endings
    <3>. QED  BY <3>1, <3>2, QuietMoves
  <2>2. CASE run.fork = NoFork
    <3>1. MakeRunPlan(valid, [s \in Steps |-> "none"]) /\ load # "none"
          /\ UNCHANGED <<flow, branching, submitted>>
      BY <1>3, <2>2 DEF FlowDefLoaded, jobVars
    <3>. QED  BY <3>1, MakeRunPlanTells
  <2>. QED  BY <2>1, <2>2
<1>4. ASSUME NEW valid \in BOOLEAN, NEW data \in [Steps -> Outcomes],
             StepDataLoaded(valid, data)
      PROVE  Moves \/ Story'
  <2>1. MakeRunPlan(valid, data) /\ load # "none" /\ UNCHANGED <<flow, branching, submitted>>
    BY <1>4 DEF StepDataLoaded, jobVars
  <2>. QED  BY <2>1, MakeRunPlanTells
<1>. QED  BY <1>1, <1>2, <1>3, <1>4 DEF Loaded

LEMMA RunFinishedMoves ==
    ASSUME TypeOK, Story, RunFinished
    PROVE  Moves
<1>1. /\ bus \in Seq(Event) /\ bus # <<>> /\ bus' = Tail(bus)
      /\ Head(bus) \in Event /\ Head(bus).type \in {"run.completed", "run.failed"}
  BY BusParts DEF RunFinished, Handles, TypeOK
<1>2. Head(bus) \notin EndEvent
  BY <1>1, KindOf
<1>3. Endings' = Endings
  BY <1>1, <1>2, EndingsOfOthers DEF Endings
<1>4. \E types \in {{"flow.completed"}, {"flow.failed"}, {}} : Announce(types)
  BY DEF RunFinished
<1>5. /\ announced'["run.completed"] = announced["run.completed"]
      /\ announced'["run.failed"] = announced["run.failed"]
  BY <1>4 DEF Announce, Announcements
<1>. QED  BY <1>3, <1>5, QuietMoves DEF RunFinished, jobVars

(* One step moves on, and if it is over its end is published.              *)
LEMMA OneMoves ==
    ASSUME TypeOK, Story, NEW s \in Steps, run.step[s] \in {"planned", "started"},
           flow' = flow, run'.reuse = run.reuse, announced' = announced,
           run'.step[s] \in {"started", "completed", "failed"},
           \A x \in Steps \ {s} : run'.step[x] = run.step[x],
           Def(s).type # "join",
           Def(s).type = "parallel" => run'.step[s] = "started" \/ run.reuse[s] # "none",
           Endings \subseteq Endings', \A x \in Endings' : x \in Endings \/ EndTrue(x)',
           Over(s)' => \E x \in Endings' : x.step = s,
           FailuresCounted', \A x \in Steps : Fresh(x)'
    PROVE  Moves
<1>1. ~Asleep(s) /\ ~Left(s) /\ ~Asleep(s)' /\ ~Left(s)' /\ ~Over(s)
  BY DEF Asleep, Left, Over
<1>2. \A x \in Steps \ {s} : /\ Asleep(x)' <=> Asleep(x)
                             /\ Left(x)' <=> Left(x)
                             /\ Over(x)' <=> Over(x)
  BY DEF Asleep, Left, Over
<1>3. Def(s).type = "parallel" /\ run.step[s] = "started" => run'.step[s] = "started"
  BY DEF Story, Fresh
<1>4. Over(s)' => HandsOver(s)'
  BY EdgesStay DEF HandsOver, Over, ParallelEdge
<1>5. ASSUME NEW x \in Steps
      PROVE  /\ ~Asleep(x) => ~Asleep(x)'
             /\ ~Left(x) => ~Left(x)'
             /\ Def(x).type = "parallel" /\ run.step[x] = "started" =>
                   run'.step[x] \in {"started", "completed"}
             /\ Asleep(x) /\ ~Asleep(x)' => Reason(x)'
             /\ ~Over(x) /\ Over(x)' =>
                   /\ HandsOver(x)'
                   /\ Def(x).type # "join" => \E y \in Endings' : y.step = x
                   /\ Def(x).type = "join" => Endings # {}
  <2>1. CASE x = s
    BY <1>1, <1>3, <1>4, <2>1
  <2>2. CASE x # s
    BY <1>2, <2>2
  <2>. QED  BY <2>1, <2>2
<1>. QED  BY <1>5 DEF Moves

(* The failures stay counted when one step moves.                          *)
LEMMA OneCounted ==
    ASSUME TypeOK, Story, NEW s \in Steps, flow' = flow, run'.reuse = run.reuse,
           \A x \in Steps \ {s} : run'.step[x] = run.step[x],
           \A x \in Steps \ {s} : x \in run'.failedSteps <=> x \in run.failedSteps,
           s \in run'.failedSteps <=> Fails(s)'
    PROVE  FailuresCounted'
<1>1. \A x \in Steps \ {s} : Fails(x)' <=> Fails(x)
  BY EdgesStay DEF Fails
<1>. QED  BY <1>1 DEF Story, FailuresCounted

LEMMA OneFresh ==
    ASSUME TypeOK, Story, NEW s \in Steps, run'.reuse = run.reuse,
           \A x \in Steps \ {s} : /\ run'.step[x] = run.step[x]
                                  /\ submitted'[x] = submitted[x]
                                  /\ branching'[x] = branching[x],
           Fresh(s)'
    PROVE  \A x \in Steps : Fresh(x)'
<1>1. \A x \in Steps \ {s} : Fresh(x)' <=> Fresh(x)
  BY DEF Fresh
<1>. QED  BY <1>1 DEF Story

LEMMA PlannedReuse ==
    ASSUME NEW r \in RunContext, NEW s \in Steps
    PROVE  /\ StepPlannedReducer(r, s).reuse = r.reuse
           /\ StepPlannedReducer(r, s).failedSteps = r.failedSteps
BY DEF StepPlannedReducer, RunContext

LEMMA SettledReuse ==
    ASSUME NEW r \in RunContext, NEW s \in Steps, NEW outcome \in Outcomes
    PROVE  LET new == SettleReducer(r, s, outcome) IN
           /\ new.reuse = r.reuse
           /\ new.failedSteps = IF outcome = "success" THEN r.failedSteps
                                ELSE r.failedSteps \cup {s}
BY DEF SettleReducer, RunContext

LEMMA EndMade ==
    ASSUME NEW s \in Steps, NEW outcome \in Outcomes, NEW case \in Steps \cup {None, Inherited}
    PROVE  /\ Ended(s, outcome, case) \in EndEvent /\ Ended(s, outcome, case) \in Event
           /\ Ended(s, outcome, case).step = s /\ Ended(s, outcome, case).status = outcome
           /\ Ended(s, outcome, case).case = case
           /\ Ended(s, outcome, case).type # "step.reused"
           /\ outcome = "success" <=> Ended(s, outcome, case).type = "step.completed"
           /\ Reused(s, outcome) \in EndEvent /\ Reused(s, outcome) \in Event
           /\ Reused(s, outcome).step = s /\ Reused(s, outcome).status = outcome
           /\ Reused(s, outcome).case = None /\ Reused(s, outcome).type = "step.reused"
BY DEF Ended, Reused, EndEvent, Event, Outcomes

LEMMA StepReusedMoves ==
    ASSUME TypeOK, flow \in Flows, Lives, Story, StepReused
    PROVE  Moves
<1>0. PICK s : s = Head(bus).step
  OBVIOUS
<1>1. /\ s \in Steps /\ run.step[s] = "planned" /\ s \in run.plannedSteps
      /\ bus \in Seq(Event) /\ bus # <<>> /\ Head(bus).type = "step.planned"
      /\ Def(s).type # "join" /\ Untouched(s)
  BY <1>0, PlannedFacts DEF StepReused, Handles, TypeOK
<1>2. /\ run' = StepPlannedReducer(run, s) /\ run.reuse[s] # "none" /\ run \in RunContext
      /\ flow' = flow /\ announced' = announced /\ UNCHANGED <<submitted, branching>>
  BY <1>0 DEF StepReused, TypeOK, jobVars
<1>3. /\ run.reuse[s] \in Outcomes
      /\ run'.step[s] = Verdict(run.reuse[s])
      /\ \A x \in Steps \ {s} : run'.step[x] = run.step[x]
      /\ run'.reuse = run.reuse /\ run'.failedSteps = run.failedSteps
  <2>1. run.reuse[s] \in Outcomes
    BY <1>1, <1>2 DEF RunContext
  <2>. QED  BY <1>1, <1>2, <2>1, PlannedIs, PlannedReuse DEF Verdict, Outcomes
<1>4. PICK o \in Outcomes : o = run.reuse[s]
  BY <1>3
<1>5. bus' = Append(Tail(bus), Reused(s, o))
  BY <1>0, <1>3, <1>4 DEF StepReused, Verdict, Outcomes
<1>6. Endings' = Endings \cup {Reused(s, o)}
  <2>1. Head(bus) \in Event /\ Head(bus) \notin EndEvent
    BY <1>1, BusParts, KindOf
  <2>2. EndingsOf(Tail(bus)) = Endings /\ Tail(bus) \in Seq(Event)
    BY <1>1, <2>1, EndingsOfOthers, EndingsTail DEF Endings
  <2>3. Reused(s, o) \in Event /\ Reused(s, o) \in EndEvent
    BY <1>1, EndMade
  <2>4. PICK e : e = Reused(s, o)
    OBVIOUS
  <2>5. EndingsOf(Append(Tail(bus), e)) = EndingsOf(Tail(bus)) \cup {e}
    BY <2>2, <2>3, <2>4, EndingsOfEnd
  <2>. QED  BY <1>5, <2>2, <2>4, <2>5 DEF Endings
<1>7. EndTrue(Reused(s, o))'
  BY <1>1, <1>2, <1>3, <1>4, EndMade DEF EndTrue
<1>8. \A x \in Endings' : x \in Endings \/ EndTrue(x)'
  BY <1>6, <1>7
<1>9. \E x \in Endings' : x.step = s
  BY <1>1, <1>6, EndMade
<1>10. FailuresCounted'
  <2>1. ~Fails(s) /\ ~Fails(s)'
    BY <1>1, <1>2, <1>3, EdgesStay DEF Fails
  <2>. QED  BY <1>1, <1>2, <1>3, <2>1, OneCounted DEF Story, FailuresCounted
<1>11. \A x \in Steps : Fresh(x)'
  <2>1. Fresh(s)'
    BY <1>1, <1>2, <1>3 DEF Fresh, Verdict, Untouched
  <2>. QED  BY <1>1, <1>2, <1>3, <2>1, OneFresh
<1>. QED
  <2>1. run'.step[s] \in {"started", "completed", "failed"}
    BY <1>3 DEF Verdict
  <2>. QED  BY <1>1, <1>2, <1>3, <1>6, <1>8, <1>9, <1>10, <1>11, <2>1, OneMoves

LEMMA StepPlannedMoves ==
    ASSUME TypeOK, flow \in Flows, Lives, Story, NEW admitted \in Admission,
           StepPlanned(admitted)
    PROVE  Moves
<1>0. PICK s : s = Head(bus).step
  OBVIOUS
<1>1. /\ s \in Steps /\ run.step[s] = "planned" /\ s \in run.plannedSteps
      /\ bus \in Seq(Event) /\ bus # <<>> /\ Head(bus).type = "step.planned"
      /\ Def(s).type # "join" /\ Untouched(s)
  BY <1>0, PlannedFacts DEF StepPlanned, Handles, TypeOK
<1>2. /\ run' = StepPlannedReducer(run, s) /\ run.reuse[s] = "none" /\ run \in RunContext
      /\ flow' = flow /\ announced' = announced
      /\ \A x \in Steps \ {s} : submitted'[x] = submitted[x] /\ branching'[x] = branching[x]
      /\ bus' = Append(Tail(bus), StepEv("step.started", s))
  BY <1>0 DEF StepPlanned, TypeOK, jobVars
<1>3. /\ run'.step[s] = "started"
      /\ \A x \in Steps \ {s} : run'.step[x] = run.step[x]
      /\ run'.reuse = run.reuse /\ run'.failedSteps = run.failedSteps
  BY <1>1, <1>2, PlannedIs, PlannedReuse
<1>4. Endings' = Endings
  <2>1. Head(bus) \in Event /\ Head(bus) \notin EndEvent
    BY <1>1, BusParts, KindOf
  <2>2. EndingsOf(Tail(bus)) = Endings /\ Tail(bus) \in Seq(Event)
    BY <1>1, <2>1, EndingsOfOthers, EndingsTail DEF Endings
  <2>3. PICK e : e = StepEv("step.started", s)
    OBVIOUS
  <2>4. e \in Event /\ e.type = "step.started"
    BY <1>1, <2>3, EventsMade DEF StepEv
  <2>5. e \notin EndEvent
    BY <2>4, KindOf
  <2>. QED  BY <1>2, <2>2, <2>3, <2>4, <2>5, EndingsOfOthers DEF Endings
<1>5. FailuresCounted'
  <2>1. ~Fails(s) /\ ~Fails(s)'
    BY <1>1, <1>3 DEF Fails
  <2>. QED  BY <1>1, <1>2, <1>3, <2>1, OneCounted DEF Story, FailuresCounted
<1>6. \A x \in Steps : Fresh(x)'
  <2>1. Fresh(s)'
    BY <1>2, <1>3 DEF Fresh
  <2>. QED  BY <1>1, <1>2, <1>3, <2>1, OneFresh
<1>7. ~Over(s)'
  BY <1>3 DEF Over
<1>. QED  BY <1>1, <1>2, <1>3, <1>4, <1>5, <1>6, <1>7, OneMoves

LEMMA BranchValueMissingMoves ==
    ASSUME TypeOK, flow \in Flows, Lives, Story, BranchValueMissing
    PROVE  Moves
<1>0. PICK s : s = Head(bus).step
  OBVIOUS
<1>1. /\ s \in Steps /\ run.step[s] = "planned" /\ s \in run.plannedSteps
      /\ bus \in Seq(Event) /\ bus # <<>> /\ Head(bus).type = "step.planned"
      /\ Untouched(s)
  BY <1>0, PlannedFacts DEF BranchValueMissing, Handles, TypeOK
<1>2. PICK mid : mid = StepPlannedReducer(run, s)
  OBVIOUS
<1>3. /\ run' = SettleReducer(mid, s, "failure") /\ run.reuse[s] = "none"
      /\ Def(s).type = "branch" /\ run \in RunContext
      /\ flow' = flow /\ announced' = announced /\ UNCHANGED <<submitted, branching>>
      /\ bus' = Tail(bus) \o <<StepEv("step.started", s), Ended(s, "failure", None)>>
  BY <1>0, <1>2 DEF BranchValueMissing, TypeOK, jobVars
<1>4. /\ mid \in RunContext /\ mid.reuse = run.reuse /\ mid.failedSteps = run.failedSteps
      /\ \A x \in Steps \ {s} : mid.step[x] = run.step[x]
  BY <1>1, <1>2, <1>3, PlannedIs, PlannedReuse
<1>5. /\ run'.step[s] = "failed"
      /\ \A x \in Steps \ {s} : run'.step[x] = run.step[x]
      /\ run'.reuse = run.reuse /\ run'.failedSteps = run.failedSteps \cup {s}
  <2>1. "failure" \in Outcomes
    BY DEF Outcomes
  <2>2. /\ run'.step[s] = Verdict("failure")
        /\ \A x \in Steps \ {s} : run'.step[x] = mid.step[x]
    BY <1>1, <1>3, <1>4, <2>1, SettledIs
  <2>3. run'.reuse = mid.reuse /\ run'.failedSteps = mid.failedSteps \cup {s}
    BY <1>1, <1>3, <1>4, <2>1, SettledReuse
  <2>. QED  BY <1>4, <2>2, <2>3 DEF Verdict
<1>6. PICK f : f = Ended(s, "failure", None)
  OBVIOUS
<1>7. /\ f \in EndEvent /\ f \in Event /\ f.step = s /\ f.status = "failure"
      /\ f.type # "step.reused" /\ f.case = None /\ f.type # "step.completed"
  <2>1. "failure" \in Outcomes
    BY DEF Outcomes
  <2>. QED  BY <1>1, <1>6, <2>1, EndMade
<1>8. Endings' = Endings \cup {f}
  <2>1. Head(bus) \in Event /\ Head(bus) \notin EndEvent
    BY <1>1, BusParts, KindOf
  <2>2. EndingsOf(Tail(bus)) = Endings /\ Tail(bus) \in Seq(Event)
    BY <1>1, <2>1, EndingsOfOthers, EndingsTail DEF Endings
  <2>3. PICK e : e = StepEv("step.started", s)
    OBVIOUS
  <2>4. e \in Event /\ e.type = "step.started"
    BY <1>1, <2>3, EventsMade DEF StepEv
  <2>5. e \notin EndEvent
    BY <2>4, KindOf
  <2>6. bus' = Append(Append(Tail(bus), e), f)
    BY <1>3, <1>6, <2>2, <2>3
  <2>7. PICK q : q = Append(Tail(bus), e)
    OBVIOUS
  <2>8. q \in Seq(Event) /\ EndingsOf(q) = Endings
    BY <2>2, <2>4, <2>5, <2>7, EndingsOfOthers, AppendProperties
  <2>9. EndingsOf(Append(q, f)) = EndingsOf(q) \cup {f}
    BY <1>7, <2>8, EndingsOfEnd
  <2>. QED  BY <1>7, <2>6, <2>7, <2>8, <2>9 DEF Endings
<1>9. EndTrue(f)'
  BY <1>5, <1>7, EdgesStay, <1>3 DEF EndTrue, Verdict
<1>10. \A x \in Endings' : x \in Endings \/ EndTrue(x)'
  BY <1>8, <1>9
<1>11. \E x \in Endings' : x.step = s
  BY <1>7, <1>8
<1>12. FailuresCounted'
  <2>1. Fails(s)'
    BY <1>3, <1>5 DEF Fails
  <2>. QED  BY <1>1, <1>3, <1>5, <2>1, OneCounted
<1>13. \A x \in Steps : Fresh(x)'
  <2>1. Fresh(s)'
    BY <1>3, <1>5 DEF Fresh
  <2>. QED  BY <1>1, <1>3, <1>5, <2>1, OneFresh
<1>. QED  BY <1>1, <1>3, <1>5, <1>8, <1>10, <1>11, <1>12, <1>13, OneMoves

(* A started step is settled.                                              *)
LEMMA SettledMoves ==
    ASSUME TypeOK, flow \in Flows, Lives, Story, NEW s \in Steps, NEW outcome \in Outcomes,
           NEW case \in Steps \cup {None, Inherited}, NEW f, f = Ended(s, outcome, case),
           run.step[s] = "started", Def(s).type \in {"job", "branch"},
           run' = SettleReducer(run, s, outcome), bus' = Append(bus, f),
           flow' = flow, announced' = announced,
           \A x \in Steps \ {s} : submitted'[x] = submitted[x] /\ branching'[x] = branching[x],
           Inherited \notin BranchValues /\ Def(s).type = "branch" =>
              case \in Def(s).steps \cup {None}
    PROVE  Moves
<1>1. run \in RunContext /\ bus \in Seq(Event)
  BY DEF TypeOK
<1>2. /\ run'.step[s] = Verdict(outcome) /\ run'.step[s] \in {"completed", "failed"}
      /\ \A x \in Steps \ {s} : run'.step[x] = run.step[x]
  BY <1>1, SettledIs
<1>3. /\ run'.reuse = run.reuse
      /\ run'.failedSteps = IF outcome = "success" THEN run.failedSteps
                            ELSE run.failedSteps \cup {s}
  BY <1>1, SettledReuse
<1>4. run.reuse[s] = "none" /\ ~Fails(s)
  BY DEF Story, Fresh, Fails
<1>5. /\ f \in EndEvent /\ f \in Event /\ f.step = s /\ f.status = outcome /\ f.case = case
      /\ f.type # "step.reused" /\ (outcome = "success" <=> f.type = "step.completed")
  BY EndMade
<1>6. Endings' = Endings \cup {f}
  BY <1>1, <1>5, EndingsOfEnd DEF Endings
<1>7. EndTrue(f)'
  BY <1>2, <1>5, EdgesStay DEF EndTrue
<1>8. \A x \in Endings' : x \in Endings \/ EndTrue(x)'
  BY <1>6, <1>7
<1>9. \E x \in Endings' : x.step = s
  BY <1>5, <1>6
<1>10. FailuresCounted'
  <2>1. Fails(s)' <=> outcome # "success"
    BY <1>2, <1>3, <1>4 DEF Fails, Verdict
  <2>2. s \notin run.failedSteps
    BY <1>4 DEF Story, FailuresCounted
  <2>. QED  BY <1>2, <1>3, <2>1, <2>2, OneCounted
<1>11. \A x \in Steps : Fresh(x)'
  <2>1. Fresh(s)'
    BY <1>3, <1>4 DEF Fresh
  <2>. QED  BY <1>2, <1>3, <2>1, OneFresh
<1>. QED  BY <1>2, <1>3, <1>6, <1>8, <1>9, <1>10, <1>11, OneMoves

LEMMA JobAnsweredMoves ==
    ASSUME TypeOK, flow \in Flows, Lives, Story, NEW s \in Steps, NEW outcome \in Outcomes,
           JobAnswered(s, outcome)
    PROVE  Moves
<1>1. /\ answers[s] \in Seq(Outcomes) /\ Len(answers[s]) \in Nat /\ submitted[s] \in Nat
      /\ run.step[s] \in StepStatus /\ Len(answers[s]) < submitted[s] /\ Life(s)
  BY RunFields DEF Lives, TypeOK, JobAnswered
<1>2. submitted[s] > 0 /\ ~Untouched(s) /\ ~Over(s)
  BY <1>1 DEF Untouched, Life
<1>3. run.step[s] = "started" /\ Def(s).type = "job"
  BY <1>1, <1>2 DEF Life, Asleep, Over, StepStatus
<1>4. run' = SettleReducer(run, s, outcome) /\ run'.step[s] # run.step[s]
  <2>1. run' = SettleReducer(run, s, outcome) /\ run \in RunContext
    BY DEF JobAnswered, JobFinished, TypeOK
  <2>2. run'.step[s] \in {"completed", "failed"}
    BY <2>1, SettledIs
  <2>. QED  BY <1>3, <2>1, <2>2
<1>5. PICK f : f = Ended(s, outcome, None)
  OBVIOUS
<1>6. /\ bus' = Append(bus, f) /\ flow' = flow /\ announced' = announced
      /\ UNCHANGED <<submitted, branching>>
  BY <1>4, <1>5 DEF JobAnswered, JobFinished
<1>. QED  BY <1>3, <1>4, <1>5, <1>6, SettledMoves

LEMMA BranchValueResolvedMoves ==
    ASSUME TypeOK, flow \in Flows, Lives, Story, NEW s \in Steps, NEW outcome \in Outcomes,
           NEW value \in BranchValues, BranchValueResolved(s, outcome, value)
    PROVE  Moves
<1>1. /\ branching[s] \in Nat /\ run.step[s] \in StepStatus /\ branching[s] > 0 /\ Life(s)
  BY RunFields DEF Lives, TypeOK, BranchValueResolved
<1>2. ~Untouched(s) /\ ~Over(s)
  BY <1>1 DEF Untouched, Life
<1>3. run.step[s] = "started" /\ Def(s).type = "branch"
  BY <1>1, <1>2 DEF Life, Asleep, Over, StepStatus
<1>4. PICK case : case = IF outcome = "success" THEN MatchedCase(s, value) ELSE None
  OBVIOUS
<1>5. /\ case \in Steps \cup {None, Inherited}
      /\ Inherited \notin BranchValues => case \in Def(s).steps \cup {None}
  BY <1>4, DefType DEF MatchedCase, TypeOK
<1>6. PICK f : f = Ended(s, outcome, case)
  OBVIOUS
<1>7. /\ run' = SettleReducer(run, s, outcome) /\ bus' = Append(bus, f)
      /\ flow' = flow /\ announced' = announced /\ submitted' = submitted
      /\ \A x \in Steps \ {s} : branching'[x] = branching[x]
  BY <1>4, <1>6 DEF BranchValueResolved, TypeOK, jobVars
<1>. QED  BY <1>3, <1>5, <1>6, <1>7, SettledMoves

(* A terminal that arrives again finds its failure counted.                *)
LEMMA JobRedeliveredMoves ==
    ASSUME TypeOK, flow \in Flows, Lives, Story, NEW s \in Steps, NEW i \in DOMAIN answers[s],
           JobRedelivered(s, i)
    PROVE  Moves
<1>1. /\ answers[s] \in Seq(Outcomes) /\ answers[s][i] \in Outcomes /\ answers[s] # <<>>
      /\ run.step[s] \in StepStatus /\ Life(s) /\ submitted[s] \in Nat
  BY ElementOfSeq, RunFields DEF Lives, TypeOK
<1>2. Over(s) /\ Verdict(answers[s][i]) = run.step[s]
  BY <1>1 DEF Life, Untouched, Asleep, Over, StepStatus
<1>3. submitted[s] > 0
  <2>1. Len(answers[s]) = submitted[s] /\ Len(answers[s]) > 0
    BY <1>1, <1>2, EmptySeq, LenProperties DEF Life
  <2>. QED  BY <2>1
<1>4. PICK o \in Outcomes : o = answers[s][i]
  BY <1>1
<1>5. /\ run \in RunContext /\ run' = SettleReducer(run, s, o)
      /\ UNCHANGED <<flow, submitted, branching, announced>>
  BY <1>4 DEF JobRedelivered, JobFinished, TypeOK
<1>6. /\ run'.step[s] = Verdict(o) /\ run'.reuse = run.reuse
      /\ \A x \in Steps \ {s} : run'.step[x] = run.step[x]
      /\ run'.failedSteps = IF o = "success" THEN run.failedSteps
                            ELSE run.failedSteps \cup {s}
  <2>1. /\ run'.step[s] = Verdict(o)
        /\ \A x \in Steps \ {s} : run'.step[x] = run.step[x]
    BY <1>5, SettledIs
  <2>2. /\ run'.reuse = run.reuse
        /\ run'.failedSteps = IF o = "success" THEN run.failedSteps
                              ELSE run.failedSteps \cup {s}
    BY <1>5, SettledReuse
  <2>. QED  BY <2>1, <2>2
<1>7. run'.step[s] = run.step[s]
  BY <1>2, <1>4, <1>6
<1>8. run'.failedSteps = run.failedSteps
  <2>1. ASSUME o # "success" PROVE s \in run.failedSteps
    <3>1. run.reuse[s] = "none" /\ run.step[s] = "failed"
      BY <1>2, <1>3, <1>4, <2>1 DEF Story, Fresh, Verdict
    <3>. QED  BY <3>1 DEF Story, FailuresCounted, Fails
  <2>. QED  BY <1>6, <2>1
<1>9. bus' = bus /\ Endings' = Endings
  BY <1>7 DEF JobRedelivered, JobFinished, Endings
<1>10. run'.step = run.step
  <2>1. run' \in RunContext
    BY <1>5, SettleType
  <2>2. \A x \in Steps : run'.step[x] = run.step[x]
    BY <1>6, <1>7
  <2>. QED  BY <1>5, <2>1, <2>2 DEF RunContext
<1>. QED  BY <1>5, <1>6, <1>8, <1>9, <1>10, QuietMoves

(* Steps are planned, and no end is published.                             *)
LEMMA WokenMoves ==
    ASSUME TypeOK, Story, NEW ids \in SUBSET Steps,
           flow' = flow, run'.reuse = run.reuse, run'.failedSteps = run.failedSteps,
           announced' = announced, UNCHANGED <<submitted, branching>>,
           \A x \in ids : Asleep(x) /\ run'.step[x] = "planned" /\ Reason(x)',
           \A x \in Steps \ ids : run'.step[x] = run.step[x],
           Endings' = Endings
    PROVE  Moves
<1>1. ASSUME NEW x \in Steps
      PROVE  /\ ~Asleep(x) => ~Asleep(x)'
             /\ ~Left(x) => ~Left(x)'
             /\ Def(x).type = "parallel" /\ run.step[x] = "started" =>
                   run'.step[x] \in {"started", "completed"}
             /\ Asleep(x) /\ ~Asleep(x)' => Reason(x)'
             /\ ~(~Over(x) /\ Over(x)')
             /\ Fresh(x)'
             /\ Fails(x)' <=> Fails(x)
  <2>1. CASE x \in ids
    <3>1. Fresh(x) /\ Asleep(x) /\ run'.step[x] = "planned" /\ Reason(x)'
      BY <2>1 DEF Story
    <3>. QED  BY <3>1 DEF Asleep, Left, Over, Fresh, Fails
  <2>2. CASE x \notin ids
    <3>1. Fresh(x) /\ run'.step[x] = run.step[x] /\ Def(x)' = Def(x)
      BY <2>2, EdgesStay DEF Story
    <3>. QED  BY <3>1 DEF Asleep, Left, Over, Fresh, Fails
  <2>. QED  BY <2>1, <2>2
<1>2. FailuresCounted'
  BY <1>1 DEF Story, FailuresCounted
<1>. QED  BY <1>1, <1>2 DEF Moves

LEMMA RunStartedMoves ==
    ASSUME TypeOK, flow \in Flows, Lives, Story, RunStarted
    PROVE  Moves
<1>0. PICK s : s = flow.start
  OBVIOUS
<1>1. /\ bus \in Seq(Event) /\ bus # <<>> /\ Head(bus).type = "run.started"
      /\ s \in Steps /\ Def(s).type # "join"
  BY <1>0, ShapesOf DEF RunStarted, Handles, TypeOK
<1>2. /\ Tail(bus) \in Seq(Event)
      /\ BeginsIn(bus) = BeginsIn(Tail(bus)) + 1
  BY <1>1, TallyRunEvent DEF One
<1>3. BeginsIn(bus) = 1
  <2>1. BeginsIn(Tail(bus)) \in Nat
    BY <1>2, TallyType
  <2>2. BeginsIn(bus) <= 1
    BY DEF Lives, Opening
  <2>. QED  BY <1>2, <2>1, <2>2
<1>4. /\ \A x \in Steps : run.step[x] = "initialized"
  BY <1>3 DEF Lives, Opening
<1>5. s \notin run.plannedSteps
  BY <1>1, <1>4 DEF Lives, Indexed
<1>6. /\ run'.reuse = run.reuse /\ run'.failedSteps = run.failedSteps
      /\ run'.plannedSteps = run.plannedSteps \cup {s}
      /\ run'.step[s] = "planned"
      /\ \A x \in Steps \ {s} : run'.step[x] = run.step[x]
  <2>1. run' = Plan(run, {s})
    BY <1>0, <1>1, <1>4 DEF RunStarted, RunStartedReducer
  <2>. QED  BY <1>1, <2>1 DEF Plan, TypeOK, RunContext
<1>7. bus' = Tail(bus) \o <<StepEv("step.planned", s)>>
  BY <1>0, <1>1, <1>4, <1>5, <1>6 DEF RunStarted
<1>8. flow' = flow /\ announced' = announced /\ UNCHANGED <<submitted, branching>>
  BY DEF RunStarted, jobVars
<1>9. Endings' = Endings
  <2>1. Head(bus) \in Event /\ Head(bus) \notin EndEvent
    BY <1>1, BusParts, KindOf
  <2>2. EndingsOf(Tail(bus)) = Endings
    BY <1>1, <2>1, EndingsOfOthers DEF Endings
  <2>3. PICK e : e = StepEv("step.planned", s)
    OBVIOUS
  <2>4. e \in Event /\ e.type = "step.planned"
    BY <1>1, <2>3, EventsMade DEF StepEv
  <2>5. e \notin EndEvent
    BY <2>4, KindOf
  <2>6. bus' = Append(Tail(bus), e)
    BY <1>2, <1>7, <2>3
  <2>. QED  BY <1>2, <2>2, <2>4, <2>5, <2>6, EndingsOfOthers DEF Endings
<1>10. Reason(s)'
  BY <1>0, <1>8 DEF Reason
<1>11. PICK ids \in SUBSET Steps : ids = {s}
  BY <1>1
<1>. QED  BY <1>4, <1>6, <1>8, <1>9, <1>10, <1>11, WokenMoves DEF Asleep

LEMMA ParallelStartedMoves ==
    ASSUME TypeOK, flow \in Flows, Lives, Story, StepStarted,
           Def(Head(bus).step).type = "parallel"
    PROVE  Moves
<1>0. PICK s : s = Head(bus).step
  OBVIOUS
<1>1. /\ s \in Steps /\ run.step[s] = "started" /\ Def(s).type = "parallel"
      /\ bus \in Seq(Event) /\ bus # <<>> /\ Head(bus).type = "step.started"
      /\ Tail(bus) \in Seq(Event) /\ StartsIn(bus, s) > 0
  BY <1>0, StartedFacts DEF StepStarted, Handles, TypeOK
<1>2. PICK ids : ids = {c \in Def(s).steps : run.step[c] = "initialized"}
  OBVIOUS
<1>3. /\ ids \in SUBSET Steps
      /\ \A c \in ids : run.step[c] = "initialized" /\ ParallelEdge(s, c)
      /\ \A c \in Steps : ParallelEdge(s, c) => Asleep(c)
  <2>1. ids \in SUBSET Steps
    BY <1>1, <1>2, DefType DEF TypeOK
  <2>2. \A c \in ids : run.step[c] = "initialized" /\ ParallelEdge(s, c)
    BY <1>1, <1>2 DEF ParallelEdge
  <2>. QED  BY <1>1, <2>1, <2>2 DEF Lives, FamilyAsleep
<1>4. /\ run'.reuse = run.reuse /\ run'.failedSteps = run.failedSteps
      /\ run'.completedSteps = run.completedSteps
      /\ \A x \in ids : run'.step[x] = "planned"
      /\ \A x \in Steps \ ids : run'.step[x] = run.step[x]
  <2>1. run' = Plan(run, ids)
    BY <1>0, <1>1, <1>2 DEF StepStarted, StepStartedReducer
  <2>. QED  BY <1>3, <2>1 DEF Plan, TypeOK, RunContext
<1>5. {c \in Def(s).steps : run'.step[c] = "planned"} = ids
  <2>1. \A c \in Def(s).steps : c \in Steps /\ (run.step[c] \in {"none", "initialized"})
    BY <1>1, <1>3, DefType DEF ParallelEdge, Asleep, TypeOK
  <2>. QED  BY <1>2, <1>4, <2>1
<1>6. PICK ps \in SUBSET Steps : ps = {}
  OBVIOUS
<1>7. PICK planned \in PlannedEvents(ids), ended \in CompletedEvents(ps) :
            bus' = Tail(bus) \o planned \o ended
  <2>1. run'.completedSteps \ run.completedSteps = {}
    BY <1>4
  <2>. QED  BY <1>0, <1>1, <1>5, <1>6, <2>1 DEF StepStarted
<1>8. Endings' = Endings
  <2>1. Head(bus) \in Event /\ Head(bus) \notin EndEvent
    BY <1>1, BusParts, KindOf
  <2>2. EndingsOf(Tail(bus)) = Endings
    BY <1>1, <2>1, EndingsOfOthers DEF Endings
  <2>3. planned \in Seq(Event) /\ EndingsOf(planned) = {}
    BY <1>3, EndingsPlanned
  <2>4. ended \in Seq(Event) /\ EndingsOf(ended) = {}
    BY <1>6, EndingsCompleted
  <2>5. PICK q : q = Tail(bus) \o planned
    OBVIOUS
  <2>6. q \in Seq(Event)
    BY <1>1, <2>3, <2>5, ConcatProperties
  <2>7. EndingsOf(q) = EndingsOf(Tail(bus)) \cup EndingsOf(planned)
    BY <1>1, <2>3, <2>5, EndingsConcat
  <2>8. EndingsOf(q \o ended) = EndingsOf(q) \cup EndingsOf(ended)
    BY <2>4, <2>6, EndingsConcat
  <2>. QED  BY <1>7, <2>2, <2>3, <2>4, <2>5, <2>7, <2>8 DEF Endings
<1>9. flow' = flow /\ announced' = announced /\ UNCHANGED <<submitted, branching>>
  BY DEF StepStarted, jobVars
<1>10. ASSUME NEW x \in ids PROVE Reason(x)'
  <2>1. run'.step[s] = "started"
    BY <1>1, <1>3, <1>4 DEF Asleep
  <2>2. ParallelEdge(s, x)'
    BY <1>3, <1>9, <1>10, EdgesStay
  <2>. QED  BY <1>1, <2>1, <2>2 DEF Reason
<1>. QED  BY <1>3, <1>4, <1>8, <1>9, <1>10, WokenMoves DEF Asleep

LEMMA OtherStartedMoves ==
    ASSUME TypeOK, flow \in Flows, Lives, Story, StepStarted,
           Def(Head(bus).step).type # "parallel"
    PROVE  Moves
<1>0. PICK s : s = Head(bus).step
  OBVIOUS
<1>1. /\ s \in Steps
      /\ bus \in Seq(Event) /\ bus # <<>> /\ Head(bus).type = "step.started"
      /\ Def(s).type # "join" /\ Def(s).type # "parallel"
      /\ Tail(bus) \in Seq(Event)
  BY <1>0, StartedFacts DEF StepStarted, Handles, TypeOK
<1>2. PICK ps : ps = CompletesWith(run, s)
  OBVIOUS
<1>3. /\ ps \in SUBSET Steps
      /\ \A p \in ps : /\ run.step[p] = "started" /\ Def(p).type = "parallel"
                       /\ p \notin run.completedSteps
                       /\ \A c \in Def(p).steps :
                             run.step[c] \in {"started", "completed", "planned"}
  <2>1. ps \in SUBSET Steps
    BY <1>2 DEF CompletesWith
  <2>2. \A p \in ps : /\ run.step[p] = "started" /\ Def(p).type = "parallel"
                      /\ \A c \in Def(p).steps :
                             run.step[c] \in {"started", "completed", "planned"}
    BY <1>2 DEF CompletesWith, ParallelEdge
  <2>. QED  BY <2>1, <2>2 DEF Lives, Indexed
<1>4. /\ run'.reuse = run.reuse /\ run'.failedSteps = run.failedSteps
      /\ run'.completedSteps = run.completedSteps \cup ps
      /\ \A x \in ps : run'.step[x] = "completed"
      /\ \A x \in Steps \ ps : run'.step[x] = run.step[x]
  <2>1. run' = [run EXCEPT !.step = [p \in Steps |-> IF p \in ps THEN "completed"
                                                              ELSE @[p]],
                           !.completedSteps = @ \cup ps]
    BY <1>0, <1>1, <1>2 DEF StepStarted, StepStartedReducer
  <2>. QED  BY <1>3, <2>1 DEF TypeOK, RunContext
<1>5. PICK ids \in SUBSET Steps : ids = {}
  OBVIOUS
<1>6. PICK planned \in PlannedEvents(ids), ended \in CompletedEvents(ps) :
            bus' = Tail(bus) \o planned \o ended
  <2>1. run'.completedSteps \ run.completedSteps = ps
    BY <1>3, <1>4
  <2>. QED  BY <1>0, <1>1, <1>5, <2>1 DEF StepStarted
<1>7. flow' = flow /\ announced' = announced /\ UNCHANGED <<submitted, branching>>
  BY DEF StepStarted, jobVars
<1>8. Endings' = Endings \cup {Ended(p, "success", None) : p \in ps}
  <2>1. Head(bus) \in Event /\ Head(bus) \notin EndEvent
    BY <1>1, BusParts, KindOf
  <2>2. EndingsOf(Tail(bus)) = Endings
    BY <1>1, <2>1, EndingsOfOthers DEF Endings
  <2>3. planned \in Seq(Event) /\ EndingsOf(planned) = {}
    BY EndingsPlanned
  <2>4. ended \in Seq(Event) /\ EndingsOf(ended) = {Ended(p, "success", None) : p \in ps}
    BY <1>3, EndingsCompleted
  <2>5. PICK q : q = Tail(bus) \o planned
    OBVIOUS
  <2>6. q \in Seq(Event)
    BY <1>1, <2>3, <2>5, ConcatProperties
  <2>7. EndingsOf(q) = EndingsOf(Tail(bus)) \cup EndingsOf(planned)
    BY <1>1, <2>3, <2>5, EndingsConcat
  <2>8. EndingsOf(q \o ended) = EndingsOf(q) \cup EndingsOf(ended)
    BY <2>4, <2>6, EndingsConcat
  <2>. QED  BY <1>6, <2>2, <2>3, <2>4, <2>5, <2>7, <2>8 DEF Endings
<1>9. ASSUME NEW p \in ps
      PROVE  /\ p \in Steps /\ run.reuse[p] = "none"
             /\ run.step[p] = "started" /\ run'.step[p] = "completed"
             /\ Def(p)' = Def(p) /\ Def(p).type = "parallel"
             /\ \E x \in Endings' : x.step = p
             /\ EndTrue(Ended(p, "success", None))'
             /\ HandsOver(p)'
  <2>1. /\ p \in Steps /\ run.step[p] = "started" /\ run'.step[p] = "completed"
        /\ Def(p)' = Def(p) /\ Def(p).type = "parallel"
    BY <1>3, <1>4, <1>7, <1>9, EdgesStay
  <2>2. run.reuse[p] = "none"
    BY <2>1 DEF Story, Fresh
  <2>3. PICK f : f = Ended(p, "success", None)
    OBVIOUS
  <2>4. /\ f.step = p /\ f.status = "success" /\ f.type = "step.completed"
    BY <2>3 DEF Ended
  <2>5. f \in Endings'
    BY <1>8, <1>9, <2>3
  <2>6. EndTrue(f)'
    BY <2>1, <2>4 DEF EndTrue, Verdict
  <2>7. HandsOver(p)'
    <3>1. \A c \in Def(p).steps : c \in Steps /\ run.step[c] \in {"started", "completed", "planned"}
      BY <1>3, <1>9, <2>1, DefType DEF TypeOK
    <3>2. \A c \in Def(p).steps : ~Asleep(c)'
      BY <1>4, <3>1 DEF Asleep
    <3>. QED  BY <2>1, <3>2 DEF HandsOver, ParallelEdge
  <2>. QED  BY <2>1, <2>2, <2>3, <2>4, <2>5, <2>6, <2>7
<1>10. ASSUME NEW x \in Steps
       PROVE  /\ ~Asleep(x) => ~Asleep(x)'
              /\ ~Left(x) => ~Left(x)'
              /\ Def(x).type = "parallel" /\ run.step[x] = "started" =>
                    run'.step[x] \in {"started", "completed"}
              /\ Asleep(x) /\ ~Asleep(x)' => Reason(x)'
              /\ ~Over(x) /\ Over(x)' => x \in ps
              /\ Fresh(x)'
              /\ Fails(x)' <=> Fails(x)
  <2>1. CASE x \in ps
    BY <1>4, <1>9, <2>1 DEF Asleep, Left, Over, Fresh, Fails
  <2>2. CASE x \notin ps
    <3>1. Fresh(x) /\ run'.step[x] = run.step[x] /\ Def(x)' = Def(x)
      BY <1>4, <1>7, <2>2, EdgesStay DEF Story
    <3>. QED  BY <1>4, <1>7, <3>1 DEF Asleep, Left, Over, Fresh, Fails
  <2>. QED  BY <2>1, <2>2
<1>11. FailuresCounted'
  BY <1>4, <1>10 DEF Story, FailuresCounted
<1>12. \A x \in Endings' : x \in Endings \/ EndTrue(x)'
  BY <1>8, <1>9
<1>13. \A x \in Endings : x \in Endings'
  BY <1>8
<1>. QED  BY <1>4, <1>7, <1>9, <1>10, <1>11, <1>12, <1>13 DEF Moves

-----------------------------------------------------------------------------
(* The end of a step.                                                      *)

(* What it appends publishes no end of a step, and announces the verdict.  *)
LEMMA SettledTells ==
    ASSUME NEW q \in Seq(Event), NEW ids \in SUBSET Steps, NEW planned \in PlannedEvents(ids),
           NEW end \in {<<>>, <<Ev("run.completed")>>, <<Ev("run.failed")>>}
    PROVE  EndingsOf(q \o planned \o end) = EndingsOf(q)
<1>1. planned \in Seq(Event) /\ EndingsOf(planned) = {}
  BY EndingsPlanned
<1>2. PICK p : p = q \o planned
  OBVIOUS
<1>3. p \in Seq(Event) /\ EndingsOf(p) = EndingsOf(q)
  <2>1. EndingsOf(p) = EndingsOf(q) \cup EndingsOf(planned)
    BY <1>1, <1>2, EndingsConcat
  <2>. QED  BY <1>1, <1>2, <2>1, ConcatProperties
<1>4. CASE end = <<>>
  <2>1. p \o <<>> = p
    BY <1>3, ConcatEmptySeq
  <2>. QED  BY <1>2, <1>3, <1>4, <2>1
<1>5. ASSUME NEW t \in {"run.completed", "run.failed"}, end = <<Ev(t)>>
      PROVE  EndingsOf(q \o planned \o end) = EndingsOf(q)
  <2>1. PICK e : e = Ev(t)
    OBVIOUS
  <2>2. e \in Event /\ e.type = t
    BY <1>5, <2>1, EventsMade DEF Ev
  <2>3. e \notin EndEvent
    BY <2>2, KindOf
  <2>4. p \o end = Append(p, e)
    BY <1>3, <1>5, <2>1
  <2>. QED  BY <1>2, <1>3, <2>2, <2>3, <2>4, EndingsOfOthers
<1>. QED  BY <1>4, <1>5

LEMMA AnnouncedEnd ==
    ASSUME TypeOK,
           NEW end \in {<<>>, <<Ev("run.completed")>>, <<Ev("run.failed")>>}, Announcing(end)
    PROVE  /\ announced'["run.completed"] > 0 =>
                 announced["run.completed"] > 0 \/ end = <<Ev("run.completed")>>
           /\ announced'["run.failed"] > 0 =>
                 announced["run.failed"] > 0 \/ end = <<Ev("run.failed")>>
<1>1. PICK types : types = {end[i].type : i \in DOMAIN end}
  OBVIOUS
<1>2. \A a \in Announcements : announced'[a] = IF a \in types THEN announced[a] + 1
                                               ELSE announced[a]
  BY <1>1, AnnounceType DEF Announcing, TypeOK
<1>3. CASE end = <<>>
  <2>1. types = {}
    BY <1>1, <1>3
  <2>. QED  BY <1>2, <2>1 DEF Announcements
<1>4. CASE end = <<Ev("run.completed")>>
  <2>1. types = {"run.completed"}
    BY <1>1, <1>4 DEF Ev
  <2>. QED  BY <1>2, <1>4, <2>1 DEF Announcements
<1>5. CASE end = <<Ev("run.failed")>>
  <2>1. types = {"run.failed"}
    BY <1>1, <1>5 DEF Ev
  <2>. QED  BY <1>2, <1>5, <2>1 DEF Announcements
<1>. QED  BY <1>3, <1>4, <1>5

(* What the end of a step earns it follows.                                *)
LEMMA EndFollowed ==
    ASSUME TypeOK, flow \in Flows, flow' = flow, run'.reuse = run.reuse,
           NEW e \in EndEvent, EndTrue(e), run'.step[e.step] = run.step[e.step],
           \A d \in OpenedBy(run, e) : run'.step[d] = "planned",
           \A d \in Steps : ~Left(d) => ~Left(d)'
    PROVE  Earned(e.step)'
<1>. DEFINE s == e.step
<1>1. /\ s \in Steps /\ e.status \in Outcomes /\ e.case \in Steps \cup {None, Inherited}
      /\ Def(s)' = Def(s)
      /\ run.step[s] = Verdict(e.status) /\ run'.step[s] = run.step[s]
  BY EventKinds, EdgesStay DEF Event, EndTrue
<1>2. /\ run.step[s] = "completed" <=> e.status = "success"
      /\ run.step[s] = "failed" <=> e.status = "failure"
  BY <1>1 DEF Verdict, Outcomes
<1>3. ASSUME NEW d \in Steps, \/ ControlEdge(s, d, e.status)
                              \/ e.type = "step.completed" /\ BranchEdge(s, d, e.case)
      PROVE  ~Left(d)'
  <2>1. CASE Left(d)
    <3>1. d \in OpenedBy(run, e)
      BY <1>3, <2>1 DEF OpenedBy, Left
    <3>. QED  BY <3>1 DEF Left
  <2>. QED  BY <2>1
<1>4. ASSUME NEW d \in Steps
      PROVE  /\ run'.step[s] = "completed" /\ ControlEdge(s, d, "success")' => ~Left(d)'
             /\ run'.step[s] = "failed" /\ ControlEdge(s, d, "failure")' => ~Left(d)'
  BY <1>1, <1>2, <1>3, EdgesStay
<1>5. ASSUME run'.step[s] = "completed", Def(s).type = "branch", run'.reuse[s] = "none",
             Def(s).next # None, Inherited \notin BranchValues
      PROVE  \E d \in Def(s).steps \cup {Def(s).next} : ~Left(d)'
  <2>1. e.type = "step.completed" /\ e.case \in Def(s).steps \cup {None}
    BY <1>1, <1>2, <1>5 DEF EndTrue
  <2>2. PICK d : d = IF e.case = None THEN Def(s).next ELSE e.case
    OBVIOUS
  <2>3. Def(s).steps \subseteq Steps /\ (Def(s).next \in Steps \cup {None}) /\ None \notin Steps
    BY <1>1, DefType, StepsAssumption DEF TypeOK
  <2>4. d \in Steps /\ d \in Def(s).steps \cup {Def(s).next} /\ BranchEdge(s, d, e.case)
    BY <1>5, <2>1, <2>2, <2>3 DEF BranchEdge
  <2>. QED  BY <1>3, <2>1, <2>4
<1>. QED  BY <1>1, <1>4, <1>5 DEF Earned

LEMMA StepFinishedMoves ==
    ASSUME TypeOK, flow \in Flows, ParallelsOwnChildren, Lives, Story, StepFinished
    PROVE  Moves
<1>1. PICK e : e = Head(bus)
  OBVIOUS
<1>2. /\ e \in EndEvent /\ Tail(bus) \in Seq(Event) /\ Ends = 0
      /\ bus \in Seq(Event) /\ bus # <<>>
  BY <1>1, EndFacts DEF StepFinished, Handles, TypeOK
<1>3. PICK done, lost, opened : /\ done = JoinsCompletedBy(run, e.step)
                                /\ lost = JoinsFailedBy(run, e.step)
                                /\ opened = OpenedBy(run, e)
  OBVIOUS
<1>4. /\ \A j \in done : /\ j \in Steps /\ Def(j).type = "join"
                         /\ run.step[j] # "failed" /\ j \notin lost
                         /\ \A x \in Def(j).steps : run.step[x] = "completed"
      /\ \A j \in lost : /\ j \in Steps /\ Def(j).type = "join"
                         /\ run.step[j] # "completed"
                         /\ \A x \in Def(j).steps : run.step[x] \in {"completed", "failed"}
  <2>1. \A j \in lost : \A x \in Def(j).steps : run.step[x] \in {"completed", "failed"}
    BY <1>3 DEF JoinsFailedBy
  <2>. QED  BY <1>3, <2>1, DecidedFacts
<1>5. /\ opened \in SUBSET Steps
      /\ \A d \in opened : /\ run.step[d] = "initialized" /\ Def(d).type # "join"
                           /\ d \notin done /\ d \notin lost /\ d \notin run.plannedSteps
  <2>1. \A d \in opened : d \in Steps /\ run.step[d] = "initialized" /\ Def(d).type # "join"
    BY <1>2, <1>3, OpenedFacts
  <2>2. \A d \in opened : d \notin done /\ d \notin lost
    BY <1>4, <2>1
  <2>3. \A d \in opened : d \notin run.plannedSteps
    BY <2>1 DEF Lives, Indexed
  <2>. QED  BY <2>1, <2>2, <2>3
<1>6. /\ \A s \in Steps : run'.step[s] = IF s \in opened THEN "planned"
                                         ELSE IF s \in done THEN "completed"
                                         ELSE IF s \in lost THEN "failed"
                                         ELSE run.step[s]
      /\ run'.reuse = run.reuse
      /\ run'.plannedSteps = run.plannedSteps \cup opened
      /\ run'.failedSteps = run.failedSteps \cup lost
      /\ run'.outstanding = 0 =>
            run'.status = IF run'.failedSteps # {} THEN "failed" ELSE "completed"
  <2>1. run' = StepFinishedReducer(run, e) /\ run \in RunContext
    BY <1>1 DEF StepFinished, TypeOK
  <2>. QED  BY <1>3, <2>1, FinishedIs
<1>7. NewlyPlanned(run, run') = opened
  BY <1>5, <1>6 DEF NewlyPlanned
<1>8. PICK planned \in PlannedEvents(opened),
           end \in {<<>>, <<Ev("run.completed")>>, <<Ev("run.failed")>>} :
              /\ bus' = Tail(bus) \o planned \o end /\ Announcing(end)
              /\ end = <<Ev("run.completed")>> => run'.outstanding = 0 /\ run'.status = "completed"
              /\ end = <<Ev("run.failed")>> => run'.outstanding = 0 /\ run'.status = "failed"
  <2>. DEFINE last == IF run'.outstanding # 0 THEN <<>>
                      ELSE CASE run'.status = "completed" -> <<Ev("run.completed")>>
                             [] run'.status = "failed" -> <<Ev("run.failed")>>
                             [] OTHER -> <<>>
  <2>1. /\ last \in {<<>>, <<Ev("run.completed")>>, <<Ev("run.failed")>>}
        /\ last = <<Ev("run.completed")>> => run'.outstanding = 0 /\ run'.status = "completed"
        /\ last = <<Ev("run.failed")>> => run'.outstanding = 0 /\ run'.status = "failed"
    BY DEF Ev
  <2>2. \E planned \in PlannedEvents(opened) :
           bus' = Tail(bus) \o planned \o last /\ Announcing(last)
    BY <1>7 DEF StepFinished
  <2>. HIDE DEF last
  <2>. QED  BY <2>1, <2>2
<1>9. flow' = flow /\ submitted' = submitted /\ branching' = branching
  BY DEF StepFinished, jobVars
<1>10. Endings' \subseteq Endings /\ Endings \subseteq Endings' \cup {e} /\ e \in Endings
  <2>1. Endings' = EndingsOf(Tail(bus))
    BY <1>2, <1>5, <1>8, SettledTells DEF Endings
  <2>2. Endings = EndingsOf(Tail(bus)) \cup ({e} \cap EndEvent)
    BY <1>1, <1>2, EndingsTail DEF Endings
  <2>. QED  BY <1>2, <2>1, <2>2
<1>11. EndTrue(e) /\ e.step \in Steps
  BY <1>2, <1>10 DEF Story, EndEvent
<1>12. ASSUME NEW x \in Steps, Over(x) PROVE run'.step[x] = run.step[x]
  BY <1>4, <1>5, <1>6, <1>12 DEF Over
<1>13. Over(e.step) /\ run'.step[e.step] = run.step[e.step]
  BY <1>11, <1>12 DEF EndTrue, Over, Verdict
<1>14. \A x \in Steps : x \in done \cup lost => run.step[x] \notin {"planned", "started"}
  BY <1>4 DEF Lives, Life
<1>15. ASSUME NEW x \in Steps
       PROVE  /\ ~Asleep(x) => ~Asleep(x)'
              /\ ~Left(x) => ~Left(x)'
              /\ Def(x).type = "parallel" /\ run.step[x] = "started" =>
                    run'.step[x] \in {"started", "completed"}
              /\ ~Over(x) /\ Over(x)' => x \in done \cup lost
              /\ Fresh(x)'
  <2>1. CASE x \in opened
    <3>1. Fresh(x) /\ run.step[x] = "initialized" /\ run'.step[x] = "planned"
      BY <1>5, <1>6, <2>1 DEF Story
    <3>. QED  BY <1>6, <1>9, <3>1 DEF Asleep, Left, Over, Fresh
  <2>2. CASE x \in done \cup lost
    <3>1. /\ Fresh(x) /\ run'.step[x] \in {"completed", "failed"}
          /\ Def(x).type = "join"
      BY <1>4, <1>5, <1>6, <2>2 DEF Story
    <3>. QED  BY <1>6, <1>9, <2>2, <3>1 DEF Asleep, Left, Over, Fresh
  <2>3. CASE x \notin opened /\ x \notin done /\ x \notin lost
    <3>1. Fresh(x) /\ run'.step[x] = run.step[x]
      BY <1>6, <2>3 DEF Story
    <3>. QED  BY <1>6, <1>9, <3>1 DEF Asleep, Left, Over, Fresh
  <2>. QED  BY <2>1, <2>2, <2>3
<1>16. ASSUME NEW x \in Steps, Asleep(x), ~Asleep(x)' PROVE Reason(x)'
  <2>1. CASE x \in opened
    <3>1. /\ e.case \in Steps \cup {None, Inherited} /\ e.status \in Outcomes
          /\ \/ ControlEdge(e.step, x, e.status)
             \/ e.type = "step.completed" /\ BranchEdge(e.step, x, e.case)
             \/ \E j \in done : JoinNext(j, x)
      BY <1>2, <1>3, <2>1 DEF OpenedBy, EndEvent
    <3>2. /\ run'.step[e.step] = "completed" <=> e.status = "success"
          /\ run'.step[e.step] = "failed" <=> e.status = "failure"
      BY <1>11, <1>13, <3>1 DEF EndTrue, Verdict, Outcomes
    <3>3. CASE ControlEdge(e.step, x, e.status)
      BY <1>9, <1>11, <3>1, <3>2, <3>3, EdgesStay DEF Reason, Outcomes
    <3>4. CASE e.type = "step.completed" /\ BranchEdge(e.step, x, e.case)
      <4>1. e.status = "success" /\ e.case \in Steps \cup {None}
        BY <1>11, <2>1, <1>5, <3>1, <3>4, StepsAssumption DEF EndTrue, BranchEdge
      <4>2. BranchEdge(e.step, x, e.case)'
        BY <1>9, <3>4, EdgesStay
      <4>. QED  BY <1>11, <3>2, <4>1, <4>2 DEF Reason
    <3>5. ASSUME NEW j \in done, JoinNext(j, x) PROVE Reason(x)'
      <4>1. j \in Steps /\ run'.step[j] = "completed" /\ JoinNext(j, x)'
        BY <1>4, <1>5, <1>6, <1>9, <3>5, EdgesStay
      <4>. QED  BY <4>1 DEF Reason
    <3>. QED  BY <3>1, <3>3, <3>4, <3>5
  <2>2. CASE x \in done \cup lost
    <3>1. /\ Def(x).type = "join" /\ Def(x)' = Def(x)
          /\ \A y \in Def(x).steps : y \in Steps /\ Over(y)
      BY <1>4, <1>9, <2>2, DefType, EdgesStay DEF Over, TypeOK
    <3>2. InputsOver(x)'
      BY <1>12, <3>1 DEF InputsOver, Over
    <3>. QED  BY <3>1, <3>2 DEF Reason
  <2>3. CASE x \notin opened /\ x \notin done /\ x \notin lost
    BY <1>6, <1>16, <2>3 DEF Asleep
  <2>. QED  BY <2>1, <2>2, <2>3
<1>17. ASSUME NEW j \in done \cup lost
       PROVE  Def(j).type = "join" /\ HandsOver(j)'
  <2>1. /\ j \in Steps /\ Def(j).type = "join" /\ Def(j)' = Def(j)
        /\ j \in lost => run'.step[j] = "failed"
    BY <1>4, <1>5, <1>6, <1>9, <1>17, EdgesStay
  <2>2. ASSUME j \in done, NEW d \in Steps, JoinNext(j, d)' PROVE ~Left(d)'
    <3>1. JoinNext(j, d)
      BY <1>9, <2>2, EdgesStay
    <3>2. CASE Left(d)
      <4>1. d \in opened
        BY <1>3, <2>2, <3>1, <3>2 DEF OpenedBy, Left
      <4>. QED  BY <1>5, <1>6, <4>1 DEF Left
    <3>. QED  BY <1>15, <3>2
  <2>3. \A c : ~ParallelEdge(j, c)'
    BY <1>9, <2>1, EdgesStay DEF ParallelEdge
  <2>. QED  BY <1>17, <2>1, <2>2, <2>3 DEF HandsOver
<1>18. Hands(e.step)'
  <2>1. Earned(e.step)'
    <3>1. \A d \in OpenedBy(run, e) : run'.step[d] = "planned"
      BY <1>3, <1>5, <1>6
    <3>2. \A d \in Steps : ~Left(d) => ~Left(d)'
      BY <1>15
    <3>. QED  BY <1>2, <1>6, <1>9, <1>11, <1>13, <3>1, <3>2, EndFollowed
  <2>2. ASSUME NEW j \in Steps, JoinEdge(e.step, j)', InputsOver(j)'
        PROVE  Over(j)'
    <3>1. /\ JoinEdge(e.step, j) /\ Def(j).type = "join" /\ Def(j)' = Def(j)
          /\ Def(j).steps \subseteq Steps
      BY <1>9, <2>2, EdgesStay, DefType DEF JoinEdge, TypeOK
    <3>2. ASSUME NEW x \in Def(j).steps PROVE run.step[x] \in {"completed", "failed"}
      <4>1. x \in Steps /\ Def(x).type # "join" /\ Over(x)'
        BY <2>2, <3>1, ShapesOf DEF InputsOver
      <4>2. x \notin done /\ x \notin lost
        BY <1>4, <4>1
      <4>. QED  BY <1>6, <4>1, <4>2 DEF Over
    <3>3. j \in done \cup lost
      BY <1>3, <3>1, <3>2 DEF JoinsFailedBy, JoinsCompletedBy
    <3>. QED  BY <1>5, <1>6, <3>3 DEF Over
  <2>. QED  BY <2>1, <2>2 DEF Hands, Decides
<1>19. FailuresCounted'
  <2>1. ASSUME NEW s \in Steps PROVE s \in run'.failedSteps <=> Fails(s)'
    <3>1. s \in run.failedSteps <=> Fails(s)
      BY DEF Story, FailuresCounted
    <3>2. CASE s \in lost
      BY <1>4, <1>5, <1>6, <1>9, <3>2, EdgesStay DEF Fails
    <3>3. CASE s \in opened \cup done
      BY <1>4, <1>5, <1>6, <3>1, <3>3 DEF Fails
    <3>4. CASE s \notin opened /\ s \notin done /\ s \notin lost
      BY <1>6, <1>9, <3>1, <3>4, EdgesStay DEF Fails
    <3>. QED  BY <3>2, <3>3, <3>4
  <2>. QED  BY <2>1 DEF FailuresCounted
<1>20. /\ announced'["run.completed"] > 0 =>
             announced["run.completed"] > 0 \/ (run'.status = "completed" /\ run'.failedSteps = {})
       /\ announced'["run.failed"] > 0 =>
             announced["run.failed"] > 0 \/ (run'.status = "failed" /\ run'.failedSteps # {})
  BY <1>6, <1>8, AnnouncedEnd
<1>. QED
  <2>1. \A s \in Steps : ~Over(s) /\ Over(s)' =>
            HandsOver(s)' /\ Def(s).type = "join" /\ Endings # {}
    BY <1>10, <1>15, <1>17
  <2>2. \A x \in Endings : x \in Endings' \/ Hands(x.step)'
    BY <1>10, <1>18
  <2>. QED  BY <1>6, <1>9, <1>10, <1>15, <1>16, <1>19, <1>20, <2>1, <2>2 DEF Moves

-----------------------------------------------------------------------------
(* The story is inductive.                                                 *)

StoryInv == ParallelsOwnChildren => Story

LEMMA InitStory == Init => Story
<1>. SUFFICES ASSUME Init PROVE Story
  OBVIOUS
<1>1. /\ bus = <<>> /\ run.failedSteps = {}
      /\ announced["run.completed"] = 0 /\ announced["run.failed"] = 0
      /\ \A s \in Steps : run.step[s] = "none" /\ submitted[s] = 0 /\ branching[s] = 0
  BY DEF Init, Absent, Announcements
<1>2. Endings = {}
  <2>1. DOMAIN bus = {}
    BY <1>1
  <2>. QED  BY <2>1 DEF Endings, EndingsOf
<1>3. NotBegun
  BY <1>1, <1>2 DEF NotBegun, Asleep
<1>. QED  BY <1>3, InitType, StoryBegins

LEMMA StepKeepsStory ==
    ASSUME TypeOK, flow \in Flows, ParallelsOwnChildren, Lives, Story, [Next]_vars
    PROVE  Story'
<1>1. TypeOK' /\ Lives' /\ Kept
  BY StepKeepsTypes, StepKeepsLives
<1>2. SUFFICES Moves \/ Story'
  BY <1>1, StoryKept
<1>3. CASE UNCHANGED vars
  <2>1. Endings' = Endings
    BY <1>3 DEF Endings, vars
  <2>. QED  BY <1>3, <2>1, QuietMoves DEF vars
<1>4. CASE StepStarted
  BY <1>4, ParallelStartedMoves, OtherStartedMoves, Zenon
<1>5. CASE Deliver
  BY <1>4, <1>5, RunRequestedMoves, RunStartedMoves, StepReusedMoves, StepPlannedMoves,
     BranchValueMissingMoves, StepFinishedMoves, RunFinishedMoves, Zenon DEF Deliver
<1>6. CASE Loaded
  BY <1>1, <1>6, LoadedTells
<1>. QED
  BY <1>3, <1>5, <1>6, RequestMoves, JobAnsweredMoves, JobRedeliveredMoves,
     BranchValueResolvedMoves, Zenon DEF Next, JobAnswers, BranchResolves

LEMMA StoryHolds == Spec => [](EngineInv /\ StoryInv)
<1>1. Init => StoryInv
  BY InitStory DEF StoryInv
<1>2. EngineInv /\ StoryInv /\ [Next]_vars => StoryInv'
  <2>. SUFFICES ASSUME EngineInv, StoryInv, [Next]_vars PROVE StoryInv'
    OBVIOUS
  <2>1. flow' = flow
    BY FlowStays
  <2>2. ParallelsOwnChildren' <=> ParallelsOwnChildren
    BY <2>1 DEF ParallelsOwnChildren, ParallelEdge, Plans, ControlEdge, BranchEdge,
                JoinNext, Def
  <2>. QED  BY <2>2, StepKeepsStory DEF EngineInv, StoryInv
<1>. QED  BY <1>1, <1>2, EngineInvHolds, PTL DEF Spec

(* No step leaves "initialized" without a cause: it is the start step, or  *)
(* an edge into it has been earned by the step at its other end.           *)
THEOREM WakingHasACause == Spec => []Caused
<1>1. EngineInv /\ StoryInv => Caused
  <2>. SUFFICES ASSUME EngineInv, StoryInv, ParallelsOwnChildren,
                       NEW d \in Steps, run.step[d] \notin {"none", "initialized"}
                PROVE  \/ d = flow.start
                       \/ \E s \in Steps :
                           \/ ParallelEdge(s, d) /\ run.step[s] \in {"started", "completed"}
                           \/ ControlEdge(s, d, "success") /\ run.step[s] = "completed"
                           \/ ControlEdge(s, d, "failure") /\ run.step[s] = "failed"
                           \/ run.step[s] = "completed"
                                /\ \E case \in Steps \cup {None} : BranchEdge(s, d, case)
                           \/ JoinNext(s, d) /\ run.step[s] = "completed"
                       \/ Def(d).type = "join" /\ \A s \in Def(d).steps : Over(s)
    BY DEF Caused
  <2>1. Reason(d)
    BY DEF StoryInv, Story, Asleep
  <2>. QED  BY <2>1 DEF Reason, InputsOver
<1>. QED  BY <1>1, StoryHolds, PTL

(* When a run ends every edge that was earned has been followed: no work   *)
(* was forgotten, and every join whose inputs are over is decided as they  *)
(* say.                                                                    *)
THEOREM NothingIsForgotten == Spec => []NothingForgotten
<1>1. EngineInv /\ StoryInv => NothingForgotten
  <2>. SUFFICES ASSUME EngineInv, StoryInv, ParallelsOwnChildren, ReusesOnlyJobs, Ends > 0,
                       NEW s \in Steps
                PROVE
            /\ \A d \in Steps :
                 /\ run.step[s] = "completed" /\ ControlEdge(s, d, "success") => ~Left(d)
                 /\ run.step[s] = "failed" /\ ControlEdge(s, d, "failure") => ~Left(d)
                 /\ run.step[s] = "completed" /\ JoinNext(s, d) => ~Left(d)
                 /\ run.step[s] = "completed" /\ ParallelEdge(s, d) => ~Left(d)
            /\ run.step[s] = "completed" /\ Def(s).type = "branch"
                  /\ Def(s).next # None /\ Inherited \notin BranchValues
                 => \E d \in Def(s).steps \cup {Def(s).next} : ~Left(d)
            /\ Def(s).type = "join" /\ Def(s).steps # {}
                  /\ (\A d \in Def(s).steps : Over(d))
                 => run.step[s] = IF \A d \in Def(s).steps : run.step[d] = "completed"
                                  THEN "completed" ELSE "failed"
    BY DEF NothingForgotten, Left
  <2>1. TypeOK /\ Lives /\ Story /\ Followed(s) /\ JoinDecided(s)
    BY DEF EngineInv, StoryInv, Story, Lives
  <2>2. Endings = {}
    <3>1. EndsIn(bus) = 0
      BY <2>1 DEF Lives, Closing
    <3>. QED  BY <2>1, <3>1, NoEndings DEF TypeOK, Endings
  <2>3. /\ Over(s) /\ Def(s).type # "join" => Earned(s)
        /\ Def(s).type = "join" /\ Def(s).steps # {} /\ InputsOver(s) => Over(s)
        /\ HandsOver(s)
    BY <2>1, <2>2 DEF Followed
  <2>4. Def(s).type # "job" => run.reuse[s] = "none"
    BY DEF ReusesOnlyJobs
  <2>5. ASSUME NEW d \in Steps
        PROVE  /\ run.step[s] = "completed" /\ ControlEdge(s, d, "success") => ~Left(d)
               /\ run.step[s] = "failed" /\ ControlEdge(s, d, "failure") => ~Left(d)
    BY <2>3 DEF ControlEdge, Earned, Over
  <2>6. ASSUME NEW d \in Steps
        PROVE  /\ run.step[s] = "completed" /\ JoinNext(s, d) => ~Left(d)
               /\ run.step[s] = "completed" /\ ParallelEdge(s, d) => ~Left(d)
    BY <2>3, <2>4 DEF HandsOver, JoinNext, ParallelEdge, Asleep, Left
  <2>7. ASSUME run.step[s] = "completed", Def(s).type = "branch",
               Def(s).next # None, Inherited \notin BranchValues
        PROVE  \E d \in Def(s).steps \cup {Def(s).next} : ~Left(d)
    BY <2>3, <2>4, <2>7 DEF Earned, Over
  <2>8. ASSUME Def(s).type = "join", Def(s).steps # {}, \A d \in Def(s).steps : Over(d)
        PROVE  run.step[s] = IF \A d \in Def(s).steps : run.step[d] = "completed"
                             THEN "completed" ELSE "failed"
    <3>1. Over(s)
      BY <2>3, <2>8 DEF InputsOver
    <3>. QED  BY <2>1, <2>8, <3>1 DEF JoinDecided, Over
  <2>. QED  BY <2>5, <2>6, <2>7, <2>8
<1>. QED  BY <1>1, StoryHolds, PTL

(* The verdict is the steps': run.completed means that no failure counts,  *)
(* run.failed that one does.                                               *)
THEOREM VerdictIsTheSteps == Spec => []VerdictOfSteps
<1>1. EngineInv /\ StoryInv => VerdictOfSteps
  <2>. SUFFICES ASSUME EngineInv, StoryInv, ParallelsOwnChildren
                PROVE  /\ announced["run.completed"] > 0 => \A s \in Steps : ~Fails(s)
                       /\ announced["run.failed"] > 0 => \E s \in Steps : Fails(s)
    BY DEF VerdictOfSteps
  <2>1. TypeOK /\ FailuresCounted /\ Judged
    BY DEF EngineInv, StoryInv, Story
  <2>2. run.failedSteps \subseteq Steps
    BY <2>1 DEF TypeOK, RunContext
  <2>. QED  BY <2>1, <2>2 DEF FailuresCounted, Judged
<1>. QED  BY <1>1, StoryHolds, PTL

-----------------------------------------------------------------------------
(* Requests and their answers.  What an engine is told and tells of a run  *)
(* as a whole passes the bus once: the requests, and the two ends of a     *)
(* run.  A request is on the bus, being loaded, or answered (Accounted); a *)
(* trace is on the bus or is the run's, so the run's own request comes     *)
(* only once (OneOwner), and a load has a run (LoadsHaveRuns).             *)

Notices == RequestEvent \cup {Ev("run.completed"), Ev("run.failed")}
RequestsOf(t) == {e \in RequestEvent : e.trace = t}

Accounted ==
    /\ IsFiniteSet(requested)
    /\ Count(bus, RequestEvent) + One(load # "none")
          + announced["run.denied"] + announced["run.started"] = Cardinality(requested)
OneOwner == \A t \in Traces :
    Count(bus, RequestsOf(t)) + One(run.trace = t) <= One(t \in requested)
LoadsHaveRuns == load # "none" => run.status # "absent"

Asked == Accounted /\ OneOwner /\ LoadsHaveRuns

LEMMA NoNotice ==
    ASSUME NEW e \in Event, e.type \in {"step.planned", "step.started", "step.completed",
                                        "step.failed", "step.reused", "run.started"}
    PROVE  e \notin Notices
BY DEF Notices, RequestEvent, Ev

LEMMA NoticesPass ==
    ASSUME NEW T \in SUBSET Notices, NEW q \in Seq(Event)
    PROVE  /\ Count(q, T) \in Nat
           /\ \A e \in Event : e \notin T => Count(Append(q, e), T) = Count(q, T)
           /\ \A e \in Event : e \in T => Count(Append(q, e), T) = Count(q, T) + 1
           /\ q # <<>> /\ Head(q) \notin T => Count(Tail(q), T) = Count(q, T)
           /\ q # <<>> /\ Head(q) \in T => Count(q, T) = Count(Tail(q), T) + 1
<1>1. Count(q, T) \in Nat
  BY CountFinite
<1>2. ASSUME NEW e \in Event
      PROVE  Count(Append(q, e), T) = Count(q, T) + (IF e \in T THEN 1 ELSE 0)
  BY CountAppend
<1>3. ASSUME q # <<>>
      PROVE  /\ Count(q, T) = Count(Tail(q), T) + (IF Head(q) \in T THEN 1 ELSE 0)
             /\ Count(Tail(q), T) \in Nat
  <2>1. Tail(q) \in Seq(Event)
    BY <1>3, HeadTailProperties
  <2>. QED  BY <1>3, <2>1, CountTail, CountFinite
<1>. QED  BY <1>1, <1>2, <1>3

LEMMA NoticesOfSteps ==
    ASSUME NEW T \in SUBSET Notices, NEW q \in Seq(Event), NEW r \in Seq(Event),
           \A i \in DOMAIN r : r[i].type \in {"step.planned", "step.completed"}
    PROVE  Count(q \o r, T) = Count(q, T) /\ q \o r \in Seq(Event)
<1>1. \A i \in DOMAIN r : r[i] \notin T
  BY NoNotice, ElementOfSeq
<1>2. Count(r, T) = 0 /\ Count(q, T) \in Nat
  BY <1>1, CountZero, CountFinite
<1>3. Count(q \o r, T) = Count(q, T) + Count(r, T) /\ q \o r \in Seq(Event)
  BY CountConcat, ConcatProperties
<1>. QED  BY <1>2, <1>3

LEMMA ListsPlain ==
    ASSUME NEW ids \in SUBSET Steps
    PROVE  /\ \A evs \in PlannedEvents(ids) : evs \in Seq(Event)
                 /\ \A i \in DOMAIN evs : evs[i].type \in {"step.planned", "step.completed"}
           /\ \A evs \in CompletedEvents(ids) : evs \in Seq(Event)
                 /\ \A i \in DOMAIN evs : evs[i].type \in {"step.planned", "step.completed"}
<1>1. ASSUME NEW evs \in PlannedEvents(ids)
      PROVE  evs \in Seq(Event)
             /\ \A i \in DOMAIN evs : evs[i].type \in {"step.planned", "step.completed"}
  BY TallyPlanned, PlannedListed DEF StepEv
<1>2. ASSUME NEW evs \in CompletedEvents(ids)
      PROVE  evs \in Seq(Event)
             /\ \A i \in DOMAIN evs : evs[i].type \in {"step.planned", "step.completed"}
  BY TallyCompleted, CompletedListed DEF Ended
<1>. QED  BY <1>1, <1>2

(* What is left alone while the steps of a run go on.                      *)
Silent(T) == /\ Count(bus', T) = Count(bus, T)
             /\ UNCHANGED <<requested, load, announced>>
             /\ run'.status = run.status /\ run'.trace = run.trace

LEMMA RunStartedSilent ==
    ASSUME TypeOK, NEW T \in SUBSET Notices, RunStarted
    PROVE  Silent(T)
<1>1. /\ bus \in Seq(Event) /\ bus # <<>> /\ Head(bus).type = "run.started"
      /\ Head(bus) \in Event /\ Tail(bus) \in Seq(Event) /\ flow.start \in Steps
      /\ run \in RunContext
  BY BusParts DEF RunStarted, Handles, TypeOK, FlowDef
<1>2. Count(Tail(bus), T) = Count(bus, T)
  BY <1>1, NoNotice, NoticesPass
<1>3. PICK e : e = StepEv("step.planned", flow.start)
  OBVIOUS
<1>4. e \in Event /\ e \notin T
  <2>1. e \in Event /\ e.type = "step.planned"
    BY <1>1, <1>3, EventsMade DEF StepEv
  <2>. QED  BY <2>1, NoNotice
<1>5. bus' = Tail(bus) \/ bus' = Append(Tail(bus), e)
  <2>1. bus' = Tail(bus) \o <<e>> \/ bus' = Tail(bus) \o <<>>
    BY <1>3 DEF RunStarted
  <2>. QED  BY <1>1, <2>1
<1>6. Count(bus', T) = Count(bus, T)
  BY <1>1, <1>2, <1>4, <1>5, NoticesPass
<1>7. run'.status = run.status /\ run'.trace = run.trace
  BY <1>1 DEF RunStarted, RunStartedReducer, Plan, RunContext
<1>. QED  BY <1>6, <1>7 DEF Silent, RunStarted

LEMMA PlannedKeeps ==
    ASSUME NEW r \in RunContext, NEW s \in Steps
    PROVE  /\ StepPlannedReducer(r, s).status = r.status
           /\ StepPlannedReducer(r, s).trace = r.trace
           /\ \A o \in Outcomes : /\ SettleReducer(r, s, o).status = r.status
                                  /\ SettleReducer(r, s, o).trace = r.trace
<1>1. /\ StepPlannedReducer(r, s).status = r.status
      /\ StepPlannedReducer(r, s).trace = r.trace
  BY DEF StepPlannedReducer, RunContext
<1>2. \A o \in Outcomes : /\ SettleReducer(r, s, o).status = r.status
                          /\ SettleReducer(r, s, o).trace = r.trace
  BY DEF SettleReducer, RunContext
<1>. QED  BY <1>1, <1>2

(* An end of a step, or its start, is handled and others are appended.     *)
LEMMA SilentTail ==
    ASSUME TypeOK, NEW T \in SUBSET Notices, NEW types,
           types \subseteq {"step.planned", "step.started", "step.completed",
                            "step.failed", "step.reused"}, Handles(types)
    PROVE  /\ Tail(bus) \in Seq(Event) /\ Count(Tail(bus), T) = Count(bus, T)
           /\ Head(bus) \in Event /\ Head(bus).step \in Steps
<1>1. /\ bus \in Seq(Event) /\ bus # <<>> /\ Head(bus) \in Event /\ Tail(bus) \in Seq(Event)
      /\ Head(bus).type \in {"step.planned", "step.started", "step.completed",
                             "step.failed", "step.reused"}
  BY BusParts DEF Handles, TypeOK
<1>2. Head(bus) \notin T
  BY <1>1, NoNotice
<1>3. Head(bus).step \in Steps
  BY <1>1, EventKinds
<1>. QED  BY <1>1, <1>2, <1>3, NoticesPass

LEMMA StepReusedSilent ==
    ASSUME TypeOK, NEW T \in SUBSET Notices, StepReused
    PROVE  Silent(T)
<1>0. PICK s : s = Head(bus).step
  OBVIOUS
<1>1. /\ Tail(bus) \in Seq(Event) /\ Count(Tail(bus), T) = Count(bus, T) /\ s \in Steps
      /\ run \in RunContext
  BY <1>0, SilentTail DEF StepReused, TypeOK
<1>2. PICK o \in Outcomes : bus' = Append(Tail(bus), Reused(s, o))
  BY <1>0 DEF StepReused, Outcomes
<1>3. PICK e : e = Reused(s, o)
  OBVIOUS
<1>4. e \in Event /\ e \notin T
  <2>1. e \in Event /\ e.type = "step.reused"
    BY <1>1, <1>3, EventsMade DEF Reused
  <2>. QED  BY <2>1, NoNotice
<1>5. Count(bus', T) = Count(bus, T)
  BY <1>1, <1>2, <1>3, <1>4, NoticesPass
<1>6. run'.status = run.status /\ run'.trace = run.trace
  BY <1>0, <1>1, PlannedKeeps DEF StepReused
<1>. QED  BY <1>5, <1>6 DEF Silent, StepReused

LEMMA StepPlannedSilent ==
    ASSUME TypeOK, NEW T \in SUBSET Notices, NEW admitted \in Admission, StepPlanned(admitted)
    PROVE  Silent(T)
<1>0. PICK s : s = Head(bus).step
  OBVIOUS
<1>1. /\ Tail(bus) \in Seq(Event) /\ Count(Tail(bus), T) = Count(bus, T) /\ s \in Steps
      /\ run \in RunContext
  BY <1>0, SilentTail DEF StepPlanned, TypeOK
<1>2. PICK e : e = StepEv("step.started", s)
  OBVIOUS
<1>3. bus' = Append(Tail(bus), e)
  BY <1>0, <1>2 DEF StepPlanned
<1>4. e \in Event /\ e \notin T
  <2>1. e \in Event /\ e.type = "step.started"
    BY <1>1, <1>2, EventsMade DEF StepEv
  <2>. QED  BY <2>1, NoNotice
<1>5. Count(bus', T) = Count(bus, T)
  BY <1>1, <1>3, <1>4, NoticesPass
<1>6. run'.status = run.status /\ run'.trace = run.trace
  BY <1>0, <1>1, PlannedKeeps DEF StepPlanned
<1>. QED  BY <1>5, <1>6 DEF Silent, StepPlanned

LEMMA BranchValueMissingSilent ==
    ASSUME TypeOK, NEW T \in SUBSET Notices, BranchValueMissing
    PROVE  Silent(T)
<1>0. PICK s : s = Head(bus).step
  OBVIOUS
<1>1. /\ Tail(bus) \in Seq(Event) /\ Count(Tail(bus), T) = Count(bus, T) /\ s \in Steps
      /\ run \in RunContext
  BY <1>0, SilentTail DEF BranchValueMissing, TypeOK
<1>2. PICK e, f : e = StepEv("step.started", s) /\ f = Ended(s, "failure", None)
  OBVIOUS
<1>3. e \in Event /\ e \notin T /\ f \in Event /\ f \notin T
  <2>1. e \in Event /\ e.type = "step.started"
    BY <1>1, <1>2, EventsMade DEF StepEv
  <2>2. f \in Event /\ f.type = "step.failed"
    BY <1>1, <1>2, EventsMade DEF Ended, Outcomes
  <2>. QED  BY <2>1, <2>2, NoNotice
<1>4. PICK q : q = Append(Tail(bus), e)
  OBVIOUS
<1>5. bus' = Append(q, f) /\ q \in Seq(Event) /\ Count(q, T) = Count(bus, T)
  <2>1. bus' = Tail(bus) \o <<e, f>>
    BY <1>0, <1>2 DEF BranchValueMissing
  <2>2. Tail(bus) \o <<e, f>> = Append(q, f)
    BY <1>1, <1>3, <1>4
  <2>3. q \in Seq(Event) /\ Count(q, T) = Count(Tail(bus), T)
    BY <1>1, <1>3, <1>4, NoticesPass, AppendProperties
  <2>. QED  BY <1>1, <2>1, <2>2, <2>3
<1>6. Count(bus', T) = Count(bus, T)
  BY <1>3, <1>5, NoticesPass
<1>7. PICK mid \in RunContext : mid = StepPlannedReducer(run, s)
  BY <1>1, PlannedType
<1>8. /\ run' = SettleReducer(mid, s, "failure") /\ mid.status = run.status
      /\ mid.trace = run.trace /\ "failure" \in Outcomes
  BY <1>0, <1>1, <1>7, PlannedKeeps DEF BranchValueMissing, Outcomes
<1>9. run'.status = run.status /\ run'.trace = run.trace
  BY <1>1, <1>8, PlannedKeeps
<1>. QED  BY <1>6, <1>9 DEF Silent, BranchValueMissing

LEMMA StepStartedSilent ==
    ASSUME TypeOK, NEW T \in SUBSET Notices, StepStarted
    PROVE  Silent(T)
<1>0. PICK s : s = Head(bus).step
  OBVIOUS
<1>1. /\ Tail(bus) \in Seq(Event) /\ Count(Tail(bus), T) = Count(bus, T) /\ s \in Steps
      /\ run \in RunContext /\ run' \in RunContext
  BY <1>0, SilentTail, StepStartedKeepsTypes DEF StepStarted, TypeOK
<1>2. PICK ids, ps : /\ ids = IF Def(s).type # "parallel" THEN {}
                              ELSE {c \in Def(s).steps : run'.step[c] = "planned"}
                     /\ ps = run'.completedSteps \ run.completedSteps
  OBVIOUS
<1>3. ids \in SUBSET Steps /\ ps \in SUBSET Steps
  BY <1>1, <1>2, DefType DEF TypeOK, RunContext
<1>4. PICK planned \in PlannedEvents(ids), ended \in CompletedEvents(ps) :
          bus' = Tail(bus) \o planned \o ended
  BY <1>0, <1>2 DEF StepStarted
<1>5. Count(bus', T) = Count(bus, T)
  <2>1. /\ planned \in Seq(Event) /\ ended \in Seq(Event)
        /\ \A i \in DOMAIN planned : planned[i].type \in {"step.planned", "step.completed"}
        /\ \A i \in DOMAIN ended : ended[i].type \in {"step.planned", "step.completed"}
    BY <1>3, <1>4, ListsPlain
  <2>2. PICK q : q = Tail(bus) \o planned
    OBVIOUS
  <2>3. Count(q, T) = Count(bus, T) /\ q \in Seq(Event)
    BY <1>1, <2>1, <2>2, NoticesOfSteps
  <2>4. Count(q \o ended, T) = Count(q, T)
    BY <2>1, <2>3, NoticesOfSteps
  <2>. QED  BY <1>4, <2>2, <2>3, <2>4
<1>6. run'.status = run.status /\ run'.trace = run.trace
  <2>1. run' = StepStartedReducer(run, s)
    BY <1>0 DEF StepStarted
  <2>2. CASE Def(s).type = "parallel"
    BY <1>1, <2>1, <2>2 DEF StepStartedReducer, Plan, RunContext
  <2>3. CASE Def(s).type = "join"
    BY <2>1, <2>3 DEF StepStartedReducer
  <2>4. CASE Def(s).type \notin {"parallel", "join"}
    BY <1>1, <2>1, <2>4 DEF StepStartedReducer, RunContext
  <2>. QED  BY <2>2, <2>3, <2>4
<1>. QED  BY <1>5, <1>6 DEF Silent, StepStarted

LEMMA JobFinishedSilent ==
    ASSUME TypeOK, NEW T \in SUBSET Notices, NEW s \in Steps, NEW outcome \in Outcomes,
           JobFinished(s, outcome)
    PROVE  /\ Count(bus', T) = Count(bus, T)
           /\ run'.status = run.status /\ run'.trace = run.trace
<1>1. bus \in Seq(Event) /\ run \in RunContext
  BY DEF TypeOK
<1>2. PICK f : f = Ended(s, outcome, None)
  OBVIOUS
<1>3. f \in Event /\ f \notin T
  <2>1. f \in Event /\ f.type \in {"step.completed", "step.failed"}
    BY <1>2, EventsMade DEF Ended
  <2>. QED  BY <2>1, NoNotice
<1>4. bus' = bus \/ bus' = Append(bus, f)
  BY <1>2 DEF JobFinished
<1>5. Count(bus', T) = Count(bus, T)
  BY <1>1, <1>3, <1>4, NoticesPass
<1>. QED  BY <1>1, <1>5, PlannedKeeps DEF JobFinished

LEMMA BranchValueResolvedSilent ==
    ASSUME TypeOK, NEW T \in SUBSET Notices, NEW s \in Steps, NEW outcome \in Outcomes,
           NEW value \in BranchValues, BranchValueResolved(s, outcome, value)
    PROVE  Silent(T)
<1>1. bus \in Seq(Event) /\ run \in RunContext
  BY DEF TypeOK
<1>2. PICK case : case = IF outcome = "success" THEN MatchedCase(s, value) ELSE None
  OBVIOUS
<1>3. case \in Steps \cup {None, Inherited}
  BY <1>2, DefType DEF MatchedCase, TypeOK
<1>4. PICK f : f = Ended(s, outcome, case)
  OBVIOUS
<1>5. f \in Event /\ f \notin T
  <2>1. f \in Event /\ f.type \in {"step.completed", "step.failed"}
    BY <1>3, <1>4, EventsMade DEF Ended
  <2>. QED  BY <2>1, NoNotice
<1>6. bus' = Append(bus, f)
  BY <1>2, <1>4 DEF BranchValueResolved
<1>7. Count(bus', T) = Count(bus, T)
  BY <1>1, <1>5, <1>6, NoticesPass
<1>. QED  BY <1>1, <1>7, PlannedKeeps DEF Silent, BranchValueResolved

(* The steps going on.                                                     *)
Onward == \/ RunStarted \/ StepReused \/ StepStarted \/ BranchValueMissing
          \/ \E admitted \in Admission : StepPlanned(admitted)
          \/ \E s \in Steps : \/ JobAnswers(s) \/ BranchResolves(s)
                              \/ \E i \in DOMAIN answers[s] : JobRedelivered(s, i)

LEMMA OnwardIsSilent ==
    ASSUME TypeOK, Onward, NEW T \in SUBSET Notices
    PROVE  Silent(T)
<1>1. ASSUME NEW s \in Steps, JobAnswers(s) PROVE Silent(T)
  <2>1. PICK outcome \in Outcomes : JobAnswered(s, outcome)
    BY <1>1 DEF JobAnswers
  <2>2. JobFinished(s, outcome) /\ UNCHANGED <<requested, load, announced>>
    BY <2>1 DEF JobAnswered
  <2>. QED  BY <2>2, JobFinishedSilent DEF Silent
<1>2. ASSUME NEW s \in Steps, NEW i \in DOMAIN answers[s], JobRedelivered(s, i)
      PROVE  Silent(T)
  <2>1. PICK outcome \in Outcomes : outcome = answers[s][i]
    BY <1>2, ElementOfSeq DEF TypeOK
  <2>2. JobFinished(s, outcome) /\ UNCHANGED <<requested, load, announced>>
    BY <1>2, <2>1 DEF JobRedelivered
  <2>. QED  BY <2>2, JobFinishedSilent DEF Silent
<1>3. ASSUME NEW s \in Steps, BranchResolves(s) PROVE Silent(T)
  BY <1>3, BranchValueResolvedSilent DEF BranchResolves
<1>. QED
  BY <1>1, <1>2, <1>3, RunStartedSilent, StepReusedSilent, StepStartedSilent,
     BranchValueMissingSilent, StepPlannedSilent DEF Onward

(* The handlers of the ends of steps and of a run.                         *)
LEMMA StepFinishedNotices ==
    ASSUME TypeOK, StepFinished
    PROVE  /\ UNCHANGED <<requested, load>> /\ run'.trace = run.trace
           /\ run'.status = run.status \/ run'.status \in {"completed", "failed"}
           /\ announced'["run.denied"] = announced["run.denied"]
           /\ announced'["run.started"] = announced["run.started"]
           /\ announced'["flow.completed"] = announced["flow.completed"]
           /\ announced'["flow.failed"] = announced["flow.failed"]
           /\ \A T \in SUBSET RequestEvent : Count(bus', T) = Count(bus, T)
           /\ \A t \in {"run.completed", "run.failed"} :
                 Count(bus', {Ev(t)}) - announced'[t] = Count(bus, {Ev(t)}) - announced[t]
<1>1. PICK e : e = Head(bus)
  OBVIOUS
<1>2. run' = StepFinishedReducer(run, e) /\ run \in RunContext /\ run' \in RunContext
  BY <1>1, StepFinishedKeepsTypes DEF StepFinished, TypeOK
<1>3. /\ run'.trace = run.trace
      /\ run'.status = run.status \/ run'.status \in {"completed", "failed"}
  BY <1>2, FinishedIs
<1>4. PICK fresh \in SUBSET Steps : fresh = NewlyPlanned(run, run')
  BY <1>2 DEF NewlyPlanned, RunContext
<1>5. PICK planned \in PlannedEvents(fresh),
           end \in {<<>>, <<Ev("run.completed")>>, <<Ev("run.failed")>>} :
              bus' = Tail(bus) \o planned \o end /\ Announcing(end)
  <2>. DEFINE last == IF run'.outstanding # 0 THEN <<>>
                      ELSE CASE run'.status = "completed" -> <<Ev("run.completed")>>
                             [] run'.status = "failed" -> <<Ev("run.failed")>>
                             [] OTHER -> <<>>
  <2>1. last \in {<<>>, <<Ev("run.completed")>>, <<Ev("run.failed")>>}
    OBVIOUS
  <2>2. \E planned \in PlannedEvents(fresh) :
           bus' = Tail(bus) \o planned \o last /\ Announcing(last)
    BY <1>4 DEF StepFinished
  <2>. HIDE DEF last
  <2>. QED  BY <2>1, <2>2
<1>6. PICK types : types = {end[i].type : i \in DOMAIN end}
  OBVIOUS
<1>7. \A a \in Announcements : /\ announced[a] \in Nat
                               /\ announced'[a] = IF a \in types THEN announced[a] + 1
                                                  ELSE announced[a]
  BY <1>5, <1>6, AnnounceType DEF Announcing, TypeOK
<1>8. /\ end = <<>> => types = {}
      /\ \A t \in {"run.completed", "run.failed"} : end = <<Ev(t)>> => types = {t}
  BY <1>6 DEF Ev
<1>9. types \subseteq {"run.completed", "run.failed"}
  BY <1>5, <1>8
<1>10. PICK q : q = Tail(bus) \o planned
  OBVIOUS
<1>11. \A T \in SUBSET Notices : Count(q, T) = Count(bus, T) /\ q \in Seq(Event)
  <2>1. ASSUME NEW T \in SUBSET Notices PROVE Count(q, T) = Count(bus, T) /\ q \in Seq(Event)
    <3>1. Tail(bus) \in Seq(Event) /\ Count(Tail(bus), T) = Count(bus, T)
      BY SilentTail DEF StepFinished
    <3>2. planned \in Seq(Event)
          /\ \A i \in DOMAIN planned : planned[i].type \in {"step.planned", "step.completed"}
      BY <1>5, ListsPlain
    <3>. QED  BY <1>10, <3>1, <3>2, NoticesOfSteps
  <2>. QED  BY <2>1
<1>12. ASSUME NEW T \in SUBSET Notices
       PROVE  Count(bus', T) = Count(bus, T)
                 + (IF \E t \in types : Ev(t) \in T THEN 1 ELSE 0)
  <2>1. q \in Seq(Event) /\ Count(q, T) = Count(bus, T) /\ Count(q, T) \in Nat
    BY <1>11, CountFinite
  <2>2. CASE end = <<>>
    <3>1. bus' = q
      BY <1>5, <1>10, <2>1, <2>2, ConcatEmptySeq
    <3>. QED  BY <1>8, <2>1, <2>2, <3>1
  <2>3. ASSUME NEW t \in {"run.completed", "run.failed"}, end = <<Ev(t)>>
        PROVE  Count(bus', T) = Count(bus, T)
                 + (IF \E x \in types : Ev(x) \in T THEN 1 ELSE 0)
    <3>1. PICK d : d = Ev(t)
      OBVIOUS
    <3>2. d \in Event /\ types = {t}
      BY <1>8, <2>3, <3>1, EventsMade
    <3>3. bus' = Append(q, d)
      BY <1>5, <1>10, <2>1, <2>3, <3>1
    <3>4. Count(Append(q, d), T) = Count(q, T) + (IF d \in T THEN 1 ELSE 0)
      BY <2>1, <3>2, CountAppend
    <3>. QED  BY <2>1, <3>1, <3>2, <3>3, <3>4
  <2>. QED  BY <1>5, <2>2, <2>3
<1>13. \A T \in SUBSET RequestEvent : Count(bus', T) = Count(bus, T)
  <2>1. ASSUME NEW T \in SUBSET RequestEvent PROVE Count(bus', T) = Count(bus, T)
    <3>1. \A t \in types : Ev(t) \notin T
      BY <1>9 DEF RequestEvent, Ev
    <3>2. T \in SUBSET Notices /\ Count(bus, T) \in Nat
      BY CountFinite DEF Notices, TypeOK
    <3>. QED  BY <1>12, <3>1, <3>2
  <2>. QED  BY <2>1
<1>14. ASSUME NEW t \in {"run.completed", "run.failed"}
       PROVE  Count(bus', {Ev(t)}) - announced'[t] = Count(bus, {Ev(t)}) - announced[t]
  <2>1. {Ev(t)} \in SUBSET Notices /\ Count(bus, {Ev(t)}) \in Nat
    BY CountFinite DEF Notices, TypeOK
  <2>2. (\E x \in types : Ev(x) \in {Ev(t)}) <=> t \in types
    BY DEF Ev
  <2>3. Count(bus', {Ev(t)}) = Count(bus, {Ev(t)}) + (IF t \in types THEN 1 ELSE 0)
    BY <1>12, <2>1, <2>2
  <2>4. /\ announced[t] \in Nat
        /\ announced'[t] = IF t \in types THEN announced[t] + 1 ELSE announced[t]
    BY <1>7 DEF Announcements
  <2>. QED  BY <2>1, <2>3, <2>4
<1>. QED  BY <1>3, <1>7, <1>9, <1>13, <1>14 DEF StepFinished, Announcements

LEMMA RequestsAreNotices ==
    /\ RequestEvent \in SUBSET Notices /\ \A t : RequestsOf(t) \in SUBSET Notices
    /\ \A e \in Event : e.type # "run.requested" =>
          e \notin RequestEvent /\ \A t : e \notin RequestsOf(t)
BY DEF Notices, RequestsOf, RequestEvent

LEMMA AskedFrame ==
    ASSUME TypeOK, TypeOK', Asked, requested' = requested, run'.trace = run.trace,
           One(load' # "none") + announced'["run.denied"] + announced'["run.started"]
             = One(load # "none") + announced["run.denied"] + announced["run.started"],
           load' # "none" => run'.status # "absent",
           Count(bus', RequestEvent) = Count(bus, RequestEvent),
           \A t \in Traces : Count(bus', RequestsOf(t)) = Count(bus, RequestsOf(t))
    PROVE  Asked'
<1>1. /\ Count(bus, RequestEvent) \in Nat
      /\ announced["run.denied"] \in Nat /\ announced["run.started"] \in Nat
      /\ One(load # "none") \in Nat /\ One(load' # "none") \in Nat
  BY CountFinite DEF TypeOK, Announcements, One
<1>2. Accounted'
  <2>1. Count(bus, RequestEvent) + (One(load # "none")
          + announced["run.denied"] + announced["run.started"]) = Cardinality(requested)
    BY <1>1 DEF Asked, Accounted
  <2>2. Count(bus', RequestEvent) + (One(load' # "none")
          + announced'["run.denied"] + announced'["run.started"]) = Cardinality(requested')
    BY <2>1
  <2>3. announced'["run.denied"] \in Nat /\ announced'["run.started"] \in Nat
    BY DEF TypeOK, Announcements
  <2>4. Count(bus', RequestEvent) + One(load' # "none")
          + announced'["run.denied"] + announced'["run.started"] = Cardinality(requested')
    BY <1>1, <2>2, <2>3
  <2>. QED  BY <2>4 DEF Asked, Accounted
<1>3. OneOwner' /\ LoadsHaveRuns'
  BY DEF Asked, OneOwner, LoadsHaveRuns
<1>. QED  BY <1>2, <1>3 DEF Asked

LEMMA RequestAsked ==
    ASSUME TypeOK, Asked, NEW t \in Traces, NEW fork \in Forks \cup {NoFork}, Request(t, fork)
    PROVE  Asked'
<1>1. PICK e : e = [type |-> "run.requested", trace |-> t, fork |-> fork]
  OBVIOUS
<1>2. e \in RequestEvent /\ e \in Event /\ e.trace = t
  BY <1>1 DEF Event, RequestEvent
<1>3. /\ t \notin requested /\ requested' = requested \cup {t} /\ bus' = Append(bus, e)
      /\ run' = run /\ load' = load /\ announced' = announced /\ bus \in Seq(Event)
  BY <1>1 DEF Request, TypeOK
<1>4. IsFiniteSet(requested') /\ Cardinality(requested') = Cardinality(requested) + 1
      /\ Cardinality(requested) \in Nat
  BY <1>3, FS_AddElement, FS_CardinalityType DEF Asked, Accounted
<1>5. Count(bus', RequestEvent) = Count(bus, RequestEvent) + 1
      /\ Count(bus, RequestEvent) \in Nat
  BY <1>2, <1>3, NoticesPass, RequestsAreNotices
<1>6. Accounted'
  <2>1. /\ announced["run.denied"] \in Nat /\ announced["run.started"] \in Nat
        /\ One(load # "none") \in Nat
    BY DEF TypeOK, Announcements, One
  <2>2. Count(bus, RequestEvent) + One(load # "none")
          + announced["run.denied"] + announced["run.started"] = Cardinality(requested)
    BY DEF Asked, Accounted
  <2>3. Count(bus', RequestEvent) + One(load # "none")
          + announced["run.denied"] + announced["run.started"] = Cardinality(requested')
    BY <1>4, <1>5, <2>1, <2>2
  <2>. QED  BY <1>3, <1>4, <2>3 DEF Accounted
<1>7. ASSUME NEW u \in Traces
      PROVE  Count(bus', RequestsOf(u)) + One(run'.trace = u) <= One(u \in requested')
  <2>1. Count(bus, RequestsOf(u)) + One(run.trace = u) <= One(u \in requested)
        /\ Count(bus, RequestsOf(u)) \in Nat
    BY <1>3, CountFinite DEF Asked, OneOwner
  <2>2. CASE u = t
    <3>1. One(u \in requested) = 0 /\ One(u \in requested') = 1 /\ One(run.trace = u) \in Nat
      BY <1>3, <2>2 DEF One
    <3>2. e \in RequestsOf(u)
      BY <1>2, <2>2 DEF RequestsOf
    <3>3. Count(bus', RequestsOf(u)) = Count(bus, RequestsOf(u)) + 1
      BY <1>2, <1>3, <3>2, NoticesPass, RequestsAreNotices
    <3>. QED  BY <1>3, <2>1, <3>1, <3>3
  <2>3. CASE u # t
    <3>1. e \notin RequestsOf(u)
      BY <1>2, <2>3 DEF RequestsOf
    <3>2. Count(bus', RequestsOf(u)) = Count(bus, RequestsOf(u))
      BY <1>2, <1>3, <3>1, NoticesPass, RequestsAreNotices
    <3>3. u \in requested' <=> u \in requested
      BY <1>3, <2>3
    <3>. QED  BY <1>3, <2>1, <3>2, <3>3 DEF One
  <2>. QED  BY <2>2, <2>3
<1>. QED  BY <1>3, <1>6, <1>7 DEF Asked, OneOwner, LoadsHaveRuns

LEMMA RunRequestedAsked ==
    ASSUME TypeOK, Asked, RunRequested
    PROVE  Asked'
<1>1. PICK e : e = Head(bus)
  OBVIOUS
<1>2. /\ bus \in Seq(Event) /\ bus # <<>> /\ bus' = Tail(bus) /\ e \in Event
      /\ e.type = "run.requested" /\ e \in RequestEvent /\ e.trace \in Traces
      /\ run \in RunContext
  BY <1>1, BusParts, EventKinds DEF RunRequested, Handles, TypeOK, RequestEvent
<1>3. /\ Count(bus, RequestEvent) = Count(bus', RequestEvent) + 1
      /\ Count(bus', RequestEvent) \in Nat
  <2>1. bus' \in Seq(Event)
    BY <1>2, HeadTailProperties
  <2>. QED  BY <1>1, <1>2, <2>1, NoticesPass, RequestsAreNotices, CountFinite
<1>4. /\ run' = RunRequestedReducer(run, e) /\ requested' = requested
      /\ IF run'.status # "requested" \/ run'.trace # e.trace
         THEN Announce({"run.denied"}) /\ UNCHANGED load
         ELSE load' = "flowDef" /\ UNCHANGED announced
  BY <1>1 DEF RunRequested
<1>5. /\ announced["run.denied"] \in Nat /\ announced["run.started"] \in Nat
  BY DEF TypeOK, Announcements
<1>6. ASSUME NEW u \in Traces
      PROVE  /\ Count(bus, RequestsOf(u)) + One(run.trace = u) <= One(u \in requested)
             /\ Count(bus, RequestsOf(u)) \in Nat /\ Count(bus', RequestsOf(u)) \in Nat
             /\ Count(bus, RequestsOf(u)) = Count(bus', RequestsOf(u)) + One(u = e.trace)
  <2>1. Count(bus, RequestsOf(u)) + One(run.trace = u) <= One(u \in requested)
    BY DEF Asked, OneOwner
  <2>2. Count(bus', RequestsOf(u)) \in Nat /\ Count(bus, RequestsOf(u)) \in Nat
    BY <1>2, HeadTailProperties, CountFinite
  <2>3. e \in RequestsOf(u) <=> u = e.trace
    BY <1>2 DEF RequestsOf
  <2>4. Count(bus, RequestsOf(u)) = Count(bus', RequestsOf(u)) + One(u = e.trace)
    <3>1. CASE e \in RequestsOf(u)
      <4>1. Count(bus, RequestsOf(u)) = Count(bus', RequestsOf(u)) + 1
        BY <1>1, <1>2, <3>1, NoticesPass, RequestsAreNotices
      <4>. QED  BY <2>3, <3>1, <4>1 DEF One
    <3>2. CASE e \notin RequestsOf(u)
      <4>1. Count(bus, RequestsOf(u)) = Count(bus', RequestsOf(u))
        BY <1>1, <1>2, <3>2, NoticesPass, RequestsAreNotices
      <4>. QED  BY <2>2, <2>3, <3>2, <4>1 DEF One
    <3>. QED  BY <3>1, <3>2
  <2>. QED  BY <2>1, <2>2, <2>4
<1>7. run.trace # e.trace
  <2>1. /\ Count(bus, RequestsOf(e.trace)) + One(run.trace = e.trace) <= One(e.trace \in requested)
        /\ Count(bus', RequestsOf(e.trace)) \in Nat
        /\ Count(bus, RequestsOf(e.trace)) = Count(bus', RequestsOf(e.trace)) + One(e.trace = e.trace)
    BY <1>2, <1>6
  <2>2. One(e.trace = e.trace) = 1 /\ One(e.trace \in requested) <= 1
    BY DEF One
  <2>3. One(run.trace = e.trace) # 1
    <3>1. PICK a, b, c : /\ a = Count(bus', RequestsOf(e.trace))
                         /\ b = One(run.trace = e.trace) /\ c = One(e.trace \in requested)
      OBVIOUS
    <3>2. /\ (a + 1) + b <= c /\ a \in Nat /\ c <= 1 /\ c \in Nat /\ b \in Nat
      BY <2>1, <2>2, <3>1 DEF One
    <3>. QED  BY <3>1, <3>2
  <2>. QED  BY <2>3 DEF One
<1>8. CASE run.status = "absent"
  <2>1. run'.status = "requested" /\ run'.trace = e.trace
    BY <1>2, <1>4, <1>8 DEF RunRequestedReducer, RunContext
  <2>2. load = "none" /\ load' = "flowDef" /\ announced' = announced
    BY <1>4, <1>8, <2>1 DEF Asked, LoadsHaveRuns
  <2>3. Accounted'
    <3>1. One(load # "none") = 0 /\ One(load' # "none") = 1
      BY <2>2 DEF One
    <3>. QED  BY <1>3, <1>4, <1>5, <2>2, <3>1 DEF Asked, Accounted
  <2>4. ASSUME NEW u \in Traces
        PROVE  Count(bus', RequestsOf(u)) + One(run'.trace = u) <= One(u \in requested')
    BY <1>4, <1>6, <2>1 DEF One
  <2>. QED  BY <2>1, <2>3, <2>4 DEF Asked, OneOwner, LoadsHaveRuns
<1>9. CASE run.status # "absent"
  <2>1. run' = run
    BY <1>4, <1>9 DEF RunRequestedReducer
  <2>2. Announce({"run.denied"}) /\ load' = load
    BY <1>4, <1>7, <2>1
  <2>3. /\ announced'["run.denied"] = announced["run.denied"] + 1
        /\ announced'["run.started"] = announced["run.started"]
    BY <2>2 DEF Announce, Announcements
  <2>4. Accounted'
    <3>1. One(load # "none") \in Nat
      BY DEF One
    <3>. QED  BY <1>3, <1>4, <1>5, <2>2, <2>3, <3>1 DEF Asked, Accounted
  <2>5. ASSUME NEW u \in Traces
        PROVE  Count(bus', RequestsOf(u)) + One(run'.trace = u) <= One(u \in requested')
    BY <1>4, <1>6, <2>1 DEF One
  <2>. QED  BY <2>1, <2>2, <2>4, <2>5 DEF Asked, OneOwner, LoadsHaveRuns
<1>. QED  BY <1>8, <1>9

LEMMA MakeRunPlanAsked ==
    ASSUME TypeOK, TypeOK', Asked, load # "none", requested' = requested, NEW valid, NEW data,
           MakeRunPlan(valid, data)
    PROVE  Asked'
<1>1. bus \in Seq(Event) /\ run \in RunContext
  BY DEF TypeOK
<1>2. run'.trace = run.trace
  BY <1>1 DEF MakeRunPlan, MakeRunPlanReducer, RunContext
<1>3. PICK e : e = Ev("run.started")
  OBVIOUS
<1>4. e \in Event /\ e.type = "run.started"
  BY <1>3, EventsMade DEF Ev
<1>5. bus' = bus \/ bus' = Append(bus, e)
  BY <1>3 DEF MakeRunPlan, Ev
<1>6. /\ Count(bus', RequestEvent) = Count(bus, RequestEvent)
      /\ \A t \in Traces : Count(bus', RequestsOf(t)) = Count(bus, RequestsOf(t))
  <2>1. e \notin RequestEvent /\ \A t : e \notin RequestsOf(t)
    BY <1>4, RequestsAreNotices
  <2>. QED  BY <1>1, <1>4, <1>5, <2>1, NoticesPass, RequestsAreNotices
<1>7. load' = "none" /\ \E x \in {"run.started", "run.denied"} : Announce({x})
  BY DEF MakeRunPlan, Ev
<1>8. announced'["run.denied"] + announced'["run.started"]
        = announced["run.denied"] + announced["run.started"] + 1
      /\ announced["run.denied"] \in Nat /\ announced["run.started"] \in Nat
      /\ announced'["run.denied"] \in Nat /\ announced'["run.started"] \in Nat
  <2>1. announced["run.denied"] \in Nat /\ announced["run.started"] \in Nat
    BY DEF Announcements, TypeOK
  <2>2. CASE Announce({"run.started"})
    <3>1. /\ announced'["run.denied"] = announced["run.denied"]
          /\ announced'["run.started"] = announced["run.started"] + 1
      BY <2>2 DEF Announce, Announcements
    <3>. QED  BY <2>1, <3>1
  <2>3. CASE Announce({"run.denied"})
    <3>1. /\ announced'["run.denied"] = announced["run.denied"] + 1
          /\ announced'["run.started"] = announced["run.started"]
      BY <2>3 DEF Announce, Announcements
    <3>. QED  BY <2>1, <3>1
  <2>. QED  BY <1>7, <2>2, <2>3
<1>9. One(load # "none") = 1 /\ One(load' # "none") = 0
  BY <1>7 DEF One
<1>10. One(load' # "none") + announced'["run.denied"] + announced'["run.started"]
         = One(load # "none") + announced["run.denied"] + announced["run.started"]
  BY <1>8, <1>9
<1>. QED  BY <1>2, <1>6, <1>7, <1>10, AskedFrame

LEMMA LoadedAsked ==
    ASSUME TypeOK, TypeOK', Asked, Loaded
    PROVE  Asked'
<1>1. CASE LoadFailed
  <2>1. /\ load # "none" /\ load' = "none" /\ requested' = requested /\ bus' = bus
        /\ run'.trace = run.trace /\ Announce({"run.denied"})
    BY <1>1 DEF LoadFailed, LoadFailedReducer, TypeOK, RunContext
  <2>2. /\ announced'["run.denied"] = announced["run.denied"] + 1
        /\ announced'["run.started"] = announced["run.started"]
        /\ announced["run.denied"] \in Nat /\ announced["run.started"] \in Nat
    BY <2>1 DEF Announce, Announcements, TypeOK
  <2>3. One(load # "none") = 1 /\ One(load' # "none") = 0
    BY <2>1 DEF One
  <2>4. One(load' # "none") + announced'["run.denied"] + announced'["run.started"]
          = One(load # "none") + announced["run.denied"] + announced["run.started"]
    BY <2>2, <2>3
  <2>. QED  BY <2>1, <2>4, AskedFrame
<1>2. CASE ForkSpecLoaded
  <2>1. /\ load # "none" /\ load' # "none" /\ UNCHANGED <<requested, bus, run, announced>>
    BY <1>2 DEF ForkSpecLoaded
  <2>2. One(load # "none") = One(load' # "none")
    BY <2>1 DEF One
  <2>3. run'.status # "absent"
    BY <2>1 DEF Asked, LoadsHaveRuns
  <2>. QED  BY <2>1, <2>2, <2>3, AskedFrame
<1>3. ASSUME NEW valid \in BOOLEAN, FlowDefLoaded(valid) PROVE Asked'
  <2>1. CASE run.fork # NoFork
    <3>1. /\ load # "none" /\ load' # "none" /\ UNCHANGED <<requested, bus, run, announced>>
      BY <1>3, <2>1 DEF FlowDefLoaded
    <3>2. One(load # "none") = One(load' # "none")
      BY <3>1 DEF One
    <3>3. run'.status # "absent"
      BY <3>1 DEF Asked, LoadsHaveRuns
    <3>. QED  BY <3>1, <3>2, <3>3, AskedFrame
  <2>2. CASE run.fork = NoFork
    <3>1. MakeRunPlan(valid, [s \in Steps |-> "none"]) /\ load # "none"
          /\ requested' = requested
      BY <1>3, <2>2 DEF FlowDefLoaded
    <3>. QED  BY <3>1, MakeRunPlanAsked
  <2>. QED  BY <2>1, <2>2
<1>4. ASSUME NEW valid \in BOOLEAN, NEW data \in [Steps -> Outcomes],
             StepDataLoaded(valid, data)
      PROVE  Asked'
  <2>1. MakeRunPlan(valid, data) /\ load # "none" /\ requested' = requested
    BY <1>4 DEF StepDataLoaded
  <2>. QED  BY <2>1, MakeRunPlanAsked
<1>. QED  BY <1>1, <1>2, <1>3, <1>4 DEF Loaded

LEMMA RunFinishedTold ==
    ASSUME TypeOK, RunFinished
    PROVE  /\ bus \in Seq(Event) /\ bus # <<>> /\ bus' = Tail(bus) /\ Head(bus) \in Event
           /\ Head(bus) \in {Ev("run.completed"), Ev("run.failed")}
           /\ UNCHANGED <<requested, run, load>>
           /\ \A a \in Announcements \ {"flow.completed", "flow.failed"} :
                 announced'[a] = announced[a]
           /\ announced'["flow.completed"] = announced["flow.completed"]
                                               + One(run.status = "completed")
           /\ announced'["flow.failed"] = announced["flow.failed"]
                                               + One(run.status = "failed")
<1>1. /\ bus \in Seq(Event) /\ bus # <<>> /\ bus' = Tail(bus) /\ Head(bus) \in Event
      /\ Head(bus) \in {Ev("run.completed"), Ev("run.failed")}
  BY BusParts, EventKinds DEF RunFinished, Handles, TypeOK
<1>2. /\ announced["flow.completed"] \in Nat /\ announced["flow.failed"] \in Nat
      /\ UNCHANGED <<requested, run, load>>
  BY DEF RunFinished, TypeOK, Announcements
<1>3. CASE run.status = "completed"
  <2>1. Announce({"flow.completed"})
    BY <1>3 DEF RunFinished
  <2>. QED  BY <1>1, <1>2, <1>3, <2>1 DEF Announce, Announcements, One
<1>4. CASE run.status = "failed"
  <2>1. Announce({"flow.failed"})
    BY <1>4 DEF RunFinished
  <2>. QED  BY <1>1, <1>2, <1>4, <2>1 DEF Announce, Announcements, One
<1>5. CASE run.status \notin {"completed", "failed"}
  <2>1. Announce({})
    BY <1>5 DEF RunFinished
  <2>. QED  BY <1>1, <1>2, <1>5, <2>1 DEF Announce, Announcements, One
<1>. QED  BY <1>3, <1>4, <1>5

LEMMA StepKeepsAsked ==
    ASSUME TypeOK, Asked, [Next]_vars
    PROVE  Asked'
<1>0. TypeOK'
  BY StepKeepsTypes
<1>1. CASE UNCHANGED vars
  BY <1>1 DEF Asked, Accounted, OneOwner, LoadsHaveRuns, vars
<1>2. CASE Onward
  <2>1. \A T \in SUBSET Notices : Silent(T)
    BY <1>2, OnwardIsSilent
  <2>2. Silent(RequestEvent) /\ \A t \in Traces : Silent(RequestsOf(t))
    BY <2>1, RequestsAreNotices
  <2>3. load' # "none" => run'.status # "absent"
    BY <2>2 DEF Silent, Asked, LoadsHaveRuns
  <2>4. One(load' # "none") + announced'["run.denied"] + announced'["run.started"]
          = One(load # "none") + announced["run.denied"] + announced["run.started"]
    BY <2>2 DEF Silent
  <2>. QED  BY <1>0, <2>2, <2>3, <2>4, AskedFrame DEF Silent
<1>3. CASE StepFinished
  <2>1. \A t : RequestsOf(t) \in SUBSET RequestEvent
    BY DEF RequestsOf
  <2>2. load' # "none" => run'.status # "absent"
    BY <1>3, StepFinishedNotices DEF Asked, LoadsHaveRuns
  <2>. QED  BY <1>0, <1>3, <2>1, <2>2, StepFinishedNotices, AskedFrame
<1>4. CASE RunFinished
  <2>1. Head(bus) \notin RequestEvent /\ \A t : Head(bus) \notin RequestsOf(t)
    BY <1>4, RunFinishedTold DEF Ev, RequestEvent, RequestsOf
  <2>2. /\ Count(bus', RequestEvent) = Count(bus, RequestEvent)
        /\ \A t \in Traces : Count(bus', RequestsOf(t)) = Count(bus, RequestsOf(t))
    BY <1>4, <2>1, RunFinishedTold, NoticesPass, RequestsAreNotices
  <2>3. /\ announced'["run.denied"] = announced["run.denied"]
        /\ announced'["run.started"] = announced["run.started"]
        /\ UNCHANGED <<requested, run, load>>
    BY <1>4, RunFinishedTold DEF Announcements
  <2>4. load' # "none" => run'.status # "absent"
    BY <2>3 DEF Asked, LoadsHaveRuns
  <2>. QED  BY <1>0, <2>2, <2>3, <2>4, AskedFrame
<1>. QED
  <2>1. \/ \E t \in Traces, fork \in Forks \cup {NoFork} : Request(t, fork)
        \/ RunRequested \/ Loaded \/ Onward \/ StepFinished \/ RunFinished \/ UNCHANGED vars
    BY Zenon DEF Next, Deliver, Onward
  <2>. QED  BY <1>0, <1>1, <1>2, <1>3, <1>4, <2>1, RequestAsked, RunRequestedAsked, LoadedAsked

(* An end of the run is on the bus or told to the flow's observers.        *)
Told(end, told) == Count(bus, {Ev(end)}) + announced[told] <= announced[end]
EndsTold == Told("run.completed", "flow.completed") /\ Told("run.failed", "flow.failed")

LEMMA TalliesOfEnds ==
    ASSUME TypeOK
    PROVE  /\ \A t \in {"run.completed", "run.failed"} :
                 Count(bus, {Ev(t)}) \in Nat /\ announced[t] \in Nat
           /\ announced["flow.completed"] \in Nat /\ announced["flow.failed"] \in Nat
           /\ \A t \in {"run.completed", "run.failed"} : {Ev(t)} \in SUBSET Notices
           /\ \A t \in {"run.completed", "run.failed"}, e \in Event :
                 e.type # t => e \notin {Ev(t)}
<1>1. \A t \in {"run.completed", "run.failed"} :
           Count(bus, {Ev(t)}) \in Nat /\ announced[t] \in Nat
  BY CountFinite DEF TypeOK, Announcements
<1>2. announced["flow.completed"] \in Nat /\ announced["flow.failed"] \in Nat
  BY DEF TypeOK, Announcements
<1>3. \A t \in {"run.completed", "run.failed"} : {Ev(t)} \in SUBSET Notices
  BY DEF Notices
<1>4. \A t \in {"run.completed", "run.failed"}, e \in Event :
           e.type # t => e \notin {Ev(t)}
  BY DEF Ev
<1>. QED  BY <1>1, <1>2, <1>3, <1>4

LEMMA ToldFrame ==
    ASSUME EndsTold,
           \A t \in {"run.completed", "run.failed"} :
              Count(bus', {Ev(t)}) = Count(bus, {Ev(t)}) /\ announced'[t] = announced[t],
           announced'["flow.completed"] = announced["flow.completed"],
           announced'["flow.failed"] = announced["flow.failed"]
    PROVE  EndsTold'
BY DEF EndsTold, Told

LEMMA LoadedTold ==
    ASSUME TypeOK, EndsTold, Loaded
    PROVE  EndsTold'
<1>1. \A t \in {"run.completed", "run.failed"} : {Ev(t)} \in SUBSET Notices
  BY TalliesOfEnds
<1>2. PICK e : e = Ev("run.started")
  OBVIOUS
<1>3. e \in Event /\ \A t \in {"run.completed", "run.failed"} : e \notin {Ev(t)}
  BY <1>2, EventsMade DEF Ev
<1>4. bus' = bus \/ bus' = Append(bus, e)
  BY <1>2 DEF Loaded, LoadFailed, ForkSpecLoaded, FlowDefLoaded, StepDataLoaded, MakeRunPlan, Ev
<1>5. \A t \in {"run.completed", "run.failed"} : Count(bus', {Ev(t)}) = Count(bus, {Ev(t)})
  BY <1>1, <1>3, <1>4, NoticesPass DEF TypeOK
<1>6. announced' = announced \/ \E x \in {"run.started", "run.denied"} : Announce({x})
  BY DEF Loaded, LoadFailed, ForkSpecLoaded, FlowDefLoaded, StepDataLoaded, MakeRunPlan, Ev
<1>7. \A a \in {"run.completed", "run.failed", "flow.completed", "flow.failed"} :
          announced'[a] = announced[a]
  BY <1>6 DEF Announce, Announcements
<1>. QED  BY <1>5, <1>7, ToldFrame

LEMMA RunFinishedKeepsTold ==
    ASSUME TypeOK, Judged, EndsTold, RunFinished
    PROVE  EndsTold'
<1>1. /\ bus \in Seq(Event) /\ bus # <<>> /\ bus' = Tail(bus) /\ Head(bus) \in Event
      /\ Head(bus) \in {Ev("run.completed"), Ev("run.failed")}
      /\ \A t \in {"run.completed", "run.failed"} : announced'[t] = announced[t]
      /\ announced'["flow.completed"] = announced["flow.completed"]
                                          + One(run.status = "completed")
      /\ announced'["flow.failed"] = announced["flow.failed"] + One(run.status = "failed")
  BY RunFinishedTold DEF Announcements
<1>2. /\ \A t \in {"run.completed", "run.failed"} :
             /\ Count(bus, {Ev(t)}) \in Nat /\ announced[t] \in Nat
             /\ {Ev(t)} \in SUBSET Notices
      /\ announced["flow.completed"] \in Nat /\ announced["flow.failed"] \in Nat
  BY TalliesOfEnds
<1>3. ASSUME NEW t \in {"run.completed", "run.failed"}
      PROVE  /\ Head(bus) = Ev(t) => Count(bus, {Ev(t)}) = Count(bus', {Ev(t)}) + 1
             /\ Head(bus) # Ev(t) => Count(bus', {Ev(t)}) = Count(bus, {Ev(t)})
             /\ Count(bus', {Ev(t)}) \in Nat
  <2>1. Head(bus) \in {Ev(t)} <=> Head(bus) = Ev(t)
    OBVIOUS
  <2>2. bus' \in Seq(Event)
    BY <1>1, HeadTailProperties
  <2>. QED  BY <1>1, <1>2, <2>1, <2>2, NoticesPass, CountFinite
<1>4. Ev("run.completed") # Ev("run.failed")
  BY DEF Ev
<1>5. CASE Head(bus) = Ev("run.completed")
  <2>1. /\ Count(bus, {Ev("run.completed")}) = Count(bus', {Ev("run.completed")}) + 1
        /\ Count(bus', {Ev("run.failed")}) = Count(bus, {Ev("run.failed")})
    BY <1>3, <1>4, <1>5
  <2>2. announced["run.completed"] > 0
    BY <1>2, <1>3, <2>1 DEF EndsTold, Told
  <2>3. One(run.status = "completed") = 1 /\ One(run.status = "failed") = 0
    BY <2>2 DEF Judged, One
  <2>. QED  BY <1>1, <1>2, <1>3, <2>1, <2>3 DEF EndsTold, Told
<1>6. CASE Head(bus) = Ev("run.failed")
  <2>1. /\ Count(bus, {Ev("run.failed")}) = Count(bus', {Ev("run.failed")}) + 1
        /\ Count(bus', {Ev("run.completed")}) = Count(bus, {Ev("run.completed")})
    BY <1>3, <1>4, <1>6
  <2>2. announced["run.failed"] > 0
    BY <1>2, <1>3, <2>1 DEF EndsTold, Told
  <2>3. One(run.status = "completed") = 0 /\ One(run.status = "failed") = 1
    BY <2>2 DEF Judged, One
  <2>. QED  BY <1>1, <1>2, <1>3, <2>1, <2>3 DEF EndsTold, Told
<1>. QED  BY <1>1, <1>5, <1>6

LEMMA StepKeepsTold ==
    ASSUME TypeOK, Judged, EndsTold, [Next]_vars
    PROVE  EndsTold'
<1>0. \A t \in {"run.completed", "run.failed"} : {Ev(t)} \in SUBSET Notices
  BY TalliesOfEnds
<1>1. CASE UNCHANGED vars
  BY <1>1 DEF EndsTold, Told, vars
<1>2. CASE Onward
  <2>1. \A t \in {"run.completed", "run.failed"} : Silent({Ev(t)})
    BY <1>0, <1>2, OnwardIsSilent
  <2>. QED  BY <2>1, ToldFrame DEF Silent
<1>3. CASE StepFinished
  <2>1. TypeOK'
    BY <1>3, StepFinishedKeepsTypes
  <2>2. /\ \A t \in {"run.completed", "run.failed"} :
              /\ Count(bus, {Ev(t)}) \in Nat /\ announced[t] \in Nat
              /\ Count(bus', {Ev(t)}) - announced'[t] = Count(bus, {Ev(t)}) - announced[t]
        /\ announced["flow.completed"] \in Nat /\ announced["flow.failed"] \in Nat
        /\ announced'["flow.completed"] = announced["flow.completed"]
        /\ announced'["flow.failed"] = announced["flow.failed"]
    BY <1>3, TalliesOfEnds, StepFinishedNotices
  <2>3. \A t \in {"run.completed", "run.failed"} :
            Count(bus', {Ev(t)}) \in Nat /\ announced'[t] \in Nat
    <3>1. bus' \in Seq(Event)
      BY <2>1 DEF TypeOK
    <3>. QED  BY <2>1, <3>1, CountFinite DEF TypeOK, Announcements
  <2>. QED  BY <2>2, <2>3 DEF EndsTold, Told
<1>4. CASE RunRequested
  <2>1. /\ bus \in Seq(Event) /\ bus # <<>> /\ bus' = Tail(bus) /\ Head(bus) \in Event
        /\ Head(bus).type = "run.requested"
    BY <1>4, BusParts DEF RunRequested, Handles, TypeOK
  <2>2. \A t \in {"run.completed", "run.failed"} : Head(bus) \notin {Ev(t)}
    BY <2>1 DEF Ev
  <2>3. \A t \in {"run.completed", "run.failed"} : Count(bus', {Ev(t)}) = Count(bus, {Ev(t)})
    BY <1>0, <2>1, <2>2, NoticesPass
  <2>4. announced' = announced \/ Announce({"run.denied"})
    BY <1>4 DEF RunRequested
  <2>5. \A a \in {"run.completed", "run.failed", "flow.completed", "flow.failed"} :
            announced'[a] = announced[a]
    BY <2>4 DEF Announce, Announcements
  <2>. QED  BY <2>3, <2>5, ToldFrame
<1>5. ASSUME NEW t \in Traces, NEW fork \in Forks \cup {NoFork}, Request(t, fork)
      PROVE  EndsTold'
  <2>1. PICK e : e = [type |-> "run.requested", trace |-> t, fork |-> fork]
    OBVIOUS
  <2>2. e \in Event /\ \A x \in {"run.completed", "run.failed"} : e \notin {Ev(x)}
    BY <2>1 DEF Event, RequestEvent, Ev
  <2>3. bus \in Seq(Event) /\ bus' = Append(bus, e) /\ announced' = announced
    BY <1>5, <2>1 DEF Request, TypeOK
  <2>4. \A x \in {"run.completed", "run.failed"} : Count(bus', {Ev(x)}) = Count(bus, {Ev(x)})
    BY <1>0, <2>2, <2>3, NoticesPass
  <2>. QED  BY <2>3, <2>4, ToldFrame
<1>. QED
  <2>1. \/ \E t \in Traces, fork \in Forks \cup {NoFork} : Request(t, fork)
        \/ RunRequested \/ Loaded \/ Onward \/ StepFinished \/ RunFinished \/ UNCHANGED vars
    BY Zenon DEF Next, Deliver, Onward
  <2>. QED  BY <1>1, <1>2, <1>3, <1>4, <1>5, <2>1, LoadedTold, RunFinishedKeepsTold

ToldInv == ParallelsOwnChildren => EndsTold

LEMMA AskedHolds == Spec => [](EngineInv /\ StoryInv /\ Asked /\ ToldInv)
<1>1. ASSUME Init PROVE Asked /\ ToldInv
  <2>1. /\ bus = <<>> /\ requested = {} /\ load = "none" /\ run.trace = None
        /\ announced["run.denied"] = 0 /\ announced["run.started"] = 0
        /\ announced["run.completed"] = 0 /\ announced["run.failed"] = 0
        /\ announced["flow.completed"] = 0 /\ announced["flow.failed"] = 0
    BY <1>1 DEF Init, Absent, Announcements
  <2>2. \A T : Count(bus, T) = 0
    BY <2>1, CountEmpty
  <2>3. Asked
    BY <2>1, <2>2, FS_EmptySet, TracesAssumption
       DEF Asked, Accounted, OneOwner, LoadsHaveRuns, One
  <2>4. EndsTold
    BY <2>1, <2>2 DEF EndsTold, Told
  <2>. QED  BY <2>3, <2>4 DEF ToldInv
<1>2. EngineInv /\ StoryInv /\ Asked /\ ToldInv /\ [Next]_vars => Asked' /\ ToldInv'
  <2>. SUFFICES ASSUME EngineInv, StoryInv, Asked, ToldInv, [Next]_vars
                PROVE  Asked' /\ ToldInv'
    OBVIOUS
  <2>1. flow' = flow
    BY FlowStays
  <2>2. ParallelsOwnChildren' <=> ParallelsOwnChildren
    BY <2>1 DEF ParallelsOwnChildren, ParallelEdge, Plans, ControlEdge, BranchEdge,
                JoinNext, Def
  <2>3. TypeOK /\ (ParallelsOwnChildren => Judged)
    BY DEF EngineInv, StoryInv, Story
  <2>. QED  BY <2>2, <2>3, StepKeepsAsked, StepKeepsTold DEF ToldInv
<1>. QED  BY <1>1, <1>2, StoryHolds, PTL DEF Spec

(* Whatever is requested, refused or delivered again: each request is      *)
(* answered once, and the run that was asked for starts and ends once.     *)
THEOREM EachIsAnsweredOnce == Spec => []AnsweredOnce
<1>1. EngineInv /\ StoryInv /\ Asked /\ ToldInv => AnsweredOnce
  <2>. SUFFICES ASSUME EngineInv, StoryInv, Asked, ToldInv PROVE AnsweredOnce
    OBVIOUS
  <2>0. TypeOK
    BY DEF EngineInv
  <2>1. RequestsAnswered
    <3>1. SUFFICES ASSUME load = "none", \A i \in DOMAIN bus : bus[i].type # "run.requested"
                   PROVE  announced["run.denied"] + announced["run.started"]
                             = Cardinality(requested)
      BY DEF RequestsAnswered
    <3>2. \A i \in DOMAIN bus : bus[i] \notin RequestEvent
      BY <3>1 DEF RequestEvent
    <3>3. Count(bus, RequestEvent) = 0
      BY <2>0, <3>2, CountZero DEF TypeOK
    <3>4. /\ announced["run.denied"] \in Nat /\ announced["run.started"] \in Nat
          /\ One(load # "none") = 0
      BY <2>0, <3>1 DEF TypeOK, Announcements, One
    <3>. QED  BY <3>3, <3>4 DEF Asked, Accounted
  <2>2. EndsOnce
    <3>1. SUFFICES ASSUME ParallelsOwnChildren
                   PROVE  /\ announced["run.started"] <= 1 /\ Ends <= announced["run.started"]
                          /\ announced["flow.completed"] <= announced["run.completed"]
                          /\ announced["flow.failed"] <= announced["run.failed"]
      BY DEF EndsOnce
    <3>2. announced["run.started"] <= 1 /\ Ends <= announced["run.started"]
      BY <3>1 DEF EngineInv, Lives, Opening, Closing
    <3>3. EndsTold
      BY <3>1 DEF ToldInv
    <3>. QED  BY <2>0, <3>2, <3>3, TalliesOfEnds DEF EndsTold, Told
  <2>. QED  BY <2>1, <2>2 DEF AnsweredOnce
<1>. QED  BY <1>1, AskedHolds, PTL

-----------------------------------------------------------------------------
(* The walk over the out edges.                                            *)

(* What an edge of the step ending e opens and decides.                    *)
Gives(e, edge, d) ==
    /\ run.step[d] = "initialized"
    /\ \/ edge.type = "control" /\ edge.gate = e.status /\ d = edge.to
       \/ edge.type = "branch" /\ e.type = "step.completed" /\ edge.case = e.case
             /\ d = edge.to
       \/ edge.type = "join" /\ edge.to \in JoinsCompletedBy(run, e.step)
             /\ JoinNext(edge.to, d)
OpenedIn(e, edges) == {d \in Steps : \E edge \in edges : Gives(e, edge, d)}
JoinedIn(joins, edges) == {j \in joins : \E edge \in edges : edge.type = "join"
                                                             /\ edge.to = j}

(* r is the run after the end e has opened and decided these steps.        *)
Reached(r, opened, done, lost) ==
    /\ r \in RunContext
    /\ r.status = run.status /\ r.trace = run.trace /\ r.fork = run.fork
    /\ r.reuse = run.reuse
    /\ \A s \in Steps : r.step[s] = IF s \in opened THEN "planned"
                                    ELSE IF s \in done THEN "completed"
                                    ELSE IF s \in lost THEN "failed"
                                    ELSE run.step[s]
    /\ r.outstanding = Distance(run.outstanding - 1) + Cardinality(opened)
    /\ r.plannedSteps = run.plannedSteps \cup opened
    /\ r.completedSteps = run.completedSteps \cup done
    /\ r.failedSteps = run.failedSteps \cup lost

(* Opened are sleeping steps that are no joins; decided are joins.         *)
Parts(opened, done, lost) ==
    /\ opened \in SUBSET Steps /\ done \in SUBSET Steps /\ lost \in SUBSET Steps
    /\ \A d \in opened : run.step[d] = "initialized" /\ Def(d).type # "join"
    /\ \A j \in done : Def(j).type = "join" /\ j \notin lost
    /\ \A j \in lost : Def(j).type = "join"

LEMMA SameContext ==
    ASSUME NEW p \in RunContext, NEW q \in RunContext,
           p.status = q.status, p.trace = q.trace, p.fork = q.fork,
           p.reuse = q.reuse, \A s \in Steps : p.step[s] = q.step[s],
           p.outstanding = q.outstanding, p.plannedSteps = q.plannedSteps,
           p.completedSteps = q.completedSteps, p.failedSteps = q.failedSteps
    PROVE  p = q
<1>1. p.step \in [Steps -> StepStatus] /\ q.step \in [Steps -> StepStatus]
  BY RunFields
<1>2. p.step = q.step
  BY <1>1
<1>. QED
  BY <1>2 DEF RunContext

(* Planning the target of an edge opens it if it sleeps.                   *)
LEMMA PlanEdgeReaches ==
    ASSUME TypeOK, NEW opened, NEW done, NEW lost, Parts(opened, done, lost),
           NEW r, Reached(r, opened, done, lost),
           NEW d \in Steps, Def(d).type # "join"
    PROVE  LET new == opened \cup {x \in {d} : run.step[d] = "initialized"}
           IN  Reached(PlanEdge(r, d), new, done, lost) /\ Parts(new, done, lost)
<1>. DEFINE new == opened \cup {x \in {d} : run.step[d] = "initialized"}
            p == PlanEdge(r, d)
<1>1. d \notin done /\ d \notin lost
  BY DEF Parts
<1>2. r \in RunContext /\ r.step \in [Steps -> StepStatus] /\ r.outstanding \in Nat
  BY RunFields DEF Reached
<1>3. CASE r.step[d] # "initialized"
  <2>1. new = opened
    <3>1. CASE d \in opened
      BY <3>1
    <3>2. CASE d \notin opened
      <4>1. run.step[d] # "initialized"
        BY <1>1, <1>3, <3>2 DEF Reached
      <4>. QED
        BY <4>1
    <3>. QED
      BY <3>1, <3>2
  <2>2. p = r
    BY <1>3 DEF PlanEdge
  <2>. HIDE DEF p, new
  <2>3. Reached(p, new, done, lost) /\ Parts(new, done, lost)
    BY <2>1, <2>2
  <2>. QED
    BY <2>3 DEF p, new
<1>4. CASE r.step[d] = "initialized"
  <2>1. d \notin opened /\ run.step[d] = "initialized"
    BY <1>1, <1>4 DEF Reached
  <2>2. new = opened \cup {d}
    BY <2>1
  <2>3. Cardinality(new) = Cardinality(opened) + 1 /\ Cardinality(opened) \in Nat
    <3>1. IsFiniteSet(opened) /\ Cardinality(opened) \in Nat
      BY StepsAssumption, FS_Subset, FS_CardinalityType DEF Parts
    <3>. HIDE DEF new
    <3>. QED
      BY <2>1, <2>2, <3>1, OneMore
  <2>4. /\ p \in RunContext
        /\ p.status = r.status /\ p.trace = r.trace /\ p.fork = r.fork /\ p.reuse = r.reuse
        /\ p.step = [r.step EXCEPT ![d] = "planned"]
        /\ p.outstanding = r.outstanding + 1
        /\ p.plannedSteps = r.plannedSteps \cup {d}
        /\ p.completedSteps = r.completedSteps /\ p.failedSteps = r.failedSteps
    <3>1. p = [r EXCEPT !.step = [r.step EXCEPT ![d] = "planned"],
                        !.plannedSteps = r.plannedSteps \cup {d},
                        !.outstanding = r.outstanding + 1]
      BY <1>2, <1>4 DEF PlanEdge, RunContext
    <3>2. [r.step EXCEPT ![d] = "planned"] \in [Steps -> StepStatus]
      BY <1>2 DEF StepStatus
    <3>3. r.outstanding + 1 \in Nat /\ r.plannedSteps \cup {d} \in SUBSET Steps
      BY <1>2, RunFields
    <3>. QED
      BY <1>2, <3>1, <3>2, <3>3 DEF RunContext
  <2>. HIDE DEF p, new
  <2>5. \A s \in Steps : p.step[s] = IF s \in new THEN "planned"
                                     ELSE IF s \in done THEN "completed"
                                     ELSE IF s \in lost THEN "failed"
                                     ELSE run.step[s]
    BY <1>2, <2>2, <2>4 DEF Reached
  <2>6. p.outstanding = Distance(run.outstanding - 1) + Cardinality(new)
    <3>1. Distance(run.outstanding - 1) \in Nat
      BY RunFields DEF TypeOK, Distance
    <3>2. p.outstanding = Distance(run.outstanding - 1) + Cardinality(opened) + 1
      BY <2>4 DEF Reached
    <3>. QED
      BY ONLY <2>3, <3>1, <3>2
  <2>7. p.plannedSteps = run.plannedSteps \cup new
    BY <2>2, <2>4 DEF Reached
  <2>8. Reached(p, new, done, lost)
    BY <2>4, <2>5, <2>6, <2>7 DEF Reached
  <2>9. Parts(new, done, lost)
    BY <2>1, <2>2 DEF Parts
  <2>. QED
    BY <2>8, <2>9 DEF p, new
<1>. QED
  BY <1>3, <1>4

(* An input of a join is none, so that what the walk has done so far does  *)
(* not show in what the join asks.                                         *)
LEMMA InputsAsBefore ==
    ASSUME TypeOK, flow \in Flows, NEW opened, NEW done, NEW lost,
           Parts(opened, done, lost), NEW r, Reached(r, opened, done, lost),
           NEW j \in Steps, Def(j).type = "join"
    PROVE  /\ {r.step[s] : s \in Def(j).steps} \subseteq {"completed"}
                 <=> \A s \in Def(j).steps : run.step[s] = "completed"
           /\ {r.step[s] : s \in Def(j).steps} \subseteq {"completed", "failed"}
                 <=> \A s \in Def(j).steps : run.step[s] \in {"completed", "failed"}
<1>1. \A s \in Def(j).steps : s \in Steps /\ Def(s).type # "join"
  BY ShapesOf DEF TypeOK, FlowDef, StepDef, Def
<1>2. \A s \in Def(j).steps : /\ r.step[s] = "completed" <=> run.step[s] = "completed"
                              /\ r.step[s] = "failed" <=> run.step[s] = "failed"
  BY <1>1 DEF Reached, Parts
<1>. QED
  BY <1>2

(* Deciding a join.                                                        *)
LEMMA DecideReaches ==
    ASSUME TypeOK, NEW opened, NEW done, NEW lost, Parts(opened, done, lost),
           NEW r, Reached(r, opened, done, lost),
           NEW j \in Steps, Def(j).type = "join"
    PROVE  /\ j \notin lost =>
                /\ Reached([r EXCEPT !.step[j] = "completed",
                                     !.completedSteps = @ \cup {j}],
                           opened, done \cup {j}, lost)
                /\ Parts(opened, done \cup {j}, lost)
           /\ j \notin done =>
                /\ Reached([r EXCEPT !.step[j] = "failed",
                                     !.failedSteps = @ \cup {j}],
                           opened, done, lost \cup {j})
                /\ Parts(opened, done, lost \cup {j})
<1>1. j \notin opened
  BY DEF Parts
<1>2. r \in RunContext /\ r.step \in [Steps -> StepStatus]
      /\ r.completedSteps \in SUBSET Steps /\ r.failedSteps \in SUBSET Steps
  BY RunFields DEF Reached
<1>3. ASSUME j \notin lost
      PROVE  /\ Reached([r EXCEPT !.step[j] = "completed",
                                  !.completedSteps = @ \cup {j}],
                        opened, done \cup {j}, lost)
             /\ Parts(opened, done \cup {j}, lost)
  <2>. DEFINE p == [r EXCEPT !.step[j] = "completed", !.completedSteps = @ \cup {j}]
  <2>1. /\ p \in RunContext
        /\ p.status = r.status /\ p.trace = r.trace /\ p.fork = r.fork /\ p.reuse = r.reuse
        /\ p.step = [r.step EXCEPT ![j] = "completed"]
        /\ p.outstanding = r.outstanding /\ p.plannedSteps = r.plannedSteps
        /\ p.completedSteps = r.completedSteps \cup {j} /\ p.failedSteps = r.failedSteps
    <3>1. [r.step EXCEPT ![j] = "completed"] \in [Steps -> StepStatus]
      BY <1>2 DEF StepStatus
    <3>2. r.completedSteps \cup {j} \in SUBSET Steps
      BY <1>2
    <3>. QED
      BY <1>2, <3>1, <3>2 DEF RunContext
  <2>. HIDE DEF p
  <2>2. \A s \in Steps : p.step[s] = IF s \in opened THEN "planned"
                                     ELSE IF s \in done \cup {j} THEN "completed"
                                     ELSE IF s \in lost THEN "failed"
                                     ELSE run.step[s]
    BY <1>1, <1>2, <2>1 DEF Reached
  <2>3. Reached(p, opened, done \cup {j}, lost)
    BY <2>1, <2>2 DEF Reached
  <2>4. Parts(opened, done \cup {j}, lost)
    BY <1>3 DEF Parts
  <2>. QED
    BY <2>3, <2>4 DEF p
<1>4. ASSUME j \notin done
      PROVE  /\ Reached([r EXCEPT !.step[j] = "failed",
                                  !.failedSteps = @ \cup {j}],
                        opened, done, lost \cup {j})
             /\ Parts(opened, done, lost \cup {j})
  <2>. DEFINE p == [r EXCEPT !.step[j] = "failed", !.failedSteps = @ \cup {j}]
  <2>1. /\ p \in RunContext
        /\ p.status = r.status /\ p.trace = r.trace /\ p.fork = r.fork /\ p.reuse = r.reuse
        /\ p.step = [r.step EXCEPT ![j] = "failed"]
        /\ p.outstanding = r.outstanding /\ p.plannedSteps = r.plannedSteps
        /\ p.completedSteps = r.completedSteps /\ p.failedSteps = r.failedSteps \cup {j}
    <3>1. [r.step EXCEPT ![j] = "failed"] \in [Steps -> StepStatus]
      BY <1>2 DEF StepStatus
    <3>2. r.failedSteps \cup {j} \in SUBSET Steps
      BY <1>2
    <3>. QED
      BY <1>2, <3>1, <3>2 DEF RunContext
  <2>. HIDE DEF p
  <2>2. \A s \in Steps : p.step[s] = IF s \in opened THEN "planned"
                                     ELSE IF s \in done THEN "completed"
                                     ELSE IF s \in lost \cup {j} THEN "failed"
                                     ELSE run.step[s]
    BY <1>1, <1>2, <1>4, <2>1 DEF Reached
  <2>3. Reached(p, opened, done, lost \cup {j})
    BY <2>1, <2>2 DEF Reached
  <2>4. Parts(opened, done, lost \cup {j})
    BY <1>4 DEF Parts
  <2>. QED
    BY <2>3, <2>4 DEF p
<1>. QED
  BY <1>3, <1>4

(* The three kinds of edges.                                               *)
JoinEdges(s) == {[type |-> "join", to |-> j] : j \in {j \in Steps : JoinEdge(s, j)}}

ControlEdges(s, gate) == {[type |-> "control", to |-> d, gate |-> gate] :
                             d \in {d \in Steps : ControlEdge(s, d, gate)}}

BranchEdges(s, case) == {[type |-> "branch", to |-> d, case |-> case] :
                            d \in {d \in Steps : BranchEdge(s, d, case)}}

LEMMA OutEdgesAre ==
    ASSUME NEW s
    PROVE  OutEdges(s) = JoinEdges(s)
                          \cup (UNION {ControlEdges(s, gate) : gate \in Outcomes})
                          \cup (UNION {BranchEdges(s, c) : c \in Steps \cup {None}})
BY Zenon DEF OutEdges, JoinEdges, ControlEdges, BranchEdges

LEMMA EdgeKinds ==
    ASSUME NEW s, NEW edge \in OutEdges(s)
    PROVE  \/ \E j \in Steps : JoinEdge(s, j) /\ edge = [type |-> "join", to |-> j]
           \/ \E gate \in Outcomes, d \in Steps :
                 ControlEdge(s, d, gate)
                   /\ edge = [type |-> "control", to |-> d, gate |-> gate]
           \/ \E case \in Steps \cup {None}, d \in Steps :
                 BranchEdge(s, d, case)
                   /\ edge = [type |-> "branch", to |-> d, case |-> case]
<1>1. \/ edge \in JoinEdges(s)
      \/ \E gate \in Outcomes : edge \in ControlEdges(s, gate)
      \/ \E c \in Steps \cup {None} : edge \in BranchEdges(s, c)
  BY OutEdgesAre
<1>2. CASE edge \in JoinEdges(s)
  BY <1>2 DEF JoinEdges
<1>3. ASSUME NEW gate \in Outcomes, edge \in ControlEdges(s, gate)
      PROVE  \E d \in Steps : /\ ControlEdge(s, d, gate)
                              /\ edge = [type |-> "control", to |-> d, gate |-> gate]
  BY <1>3 DEF ControlEdges
<1>4. ASSUME NEW case \in Steps \cup {None}, edge \in BranchEdges(s, case)
      PROVE  \E d \in Steps : /\ BranchEdge(s, d, case)
                              /\ edge = [type |-> "branch", to |-> d, case |-> case]
  BY <1>4 DEF BranchEdges
<1>. QED
  BY <1>1, <1>2, <1>3, <1>4

LEMMA EdgeIsOut ==
    ASSUME NEW s, NEW d \in Steps
    PROVE  /\ JoinEdge(s, d) => [type |-> "join", to |-> d] \in OutEdges(s)
           /\ \A gate \in Outcomes : ControlEdge(s, d, gate)
                => [type |-> "control", to |-> d, gate |-> gate] \in OutEdges(s)
           /\ \A case \in Steps \cup {None} : BranchEdge(s, d, case)
                => [type |-> "branch", to |-> d, case |-> case] \in OutEdges(s)
<1>1. JoinEdge(s, d) => [type |-> "join", to |-> d] \in JoinEdges(s)
  BY DEF JoinEdges
<1>2. ASSUME NEW gate \in Outcomes, ControlEdge(s, d, gate)
      PROVE  [type |-> "control", to |-> d, gate |-> gate] \in OutEdges(s)
  <2>1. [type |-> "control", to |-> d, gate |-> gate] \in ControlEdges(s, gate)
    BY <1>2 DEF ControlEdges
  <2>. QED
    BY <2>1, OutEdgesAre
<1>3. ASSUME NEW case \in Steps \cup {None}, BranchEdge(s, d, case)
      PROVE  [type |-> "branch", to |-> d, case |-> case] \in OutEdges(s)
  <2>1. [type |-> "branch", to |-> d, case |-> case] \in BranchEdges(s, case)
    BY <1>3 DEF BranchEdges
  <2>. QED
    BY <2>1, OutEdgesAre
<1>. QED
  BY <1>1, <1>2, <1>3, OutEdgesAre

(* One edge of the walk opens and decides what it gives.                   *)
LEMMA EdgeReaches ==
    ASSUME TypeOK, flow \in Flows, NEW e \in EndEvent, NEW edge \in OutEdges(e.step),
           NEW opened, NEW done, NEW lost, Parts(opened, done, lost),
           done \subseteq JoinsCompletedBy(run, e.step),
           lost \subseteq JoinsFailedBy(run, e.step),
           NEW r, Reached(r, opened, done, lost)
    PROVE  LET more == opened \cup OpenedIn(e, {edge})
               ends == done \cup JoinedIn(JoinsCompletedBy(run, e.step), {edge})
               fails == lost \cup JoinedIn(JoinsFailedBy(run, e.step), {edge})
           IN  Reached(Walk(r, e, edge), more, ends, fails) /\ Parts(more, ends, fails)
<1>. DEFINE D == JoinsCompletedBy(run, e.step)
            L == JoinsFailedBy(run, e.step)
            more == opened \cup OpenedIn(e, {edge})
            ends == done \cup JoinedIn(D, {edge})
            fails == lost \cup JoinedIn(L, {edge})
            Goal == Reached(Walk(r, e, edge), more, ends, fails) /\ Parts(more, ends, fails)
<1>. SUFFICES Goal
  OBVIOUS
<1>0. ASSUME NEW a, NEW b, NEW c, NEW p, a = more, b = ends, c = fails,
             Walk(r, e, edge) = p, Reached(p, a, b, c) /\ Parts(a, b, c)
      PROVE  Goal
  <2>. HIDE DEF more, ends, fails
  <2>. QED
    BY <1>0
<1>1. \A d \in Steps : Def(d) \in StepDef
  BY DEF TypeOK, FlowDef, Def
(* An edge to a step that is no join.                                      *)
<1>2. ASSUME NEW d \in Steps, Def(d).type # "join", edge.to = d,
             edge.type \in {"control", "branch"},
             NEW P \in BOOLEAN,
             Walk(r, e, edge) = IF P THEN PlanEdge(r, d) ELSE r,
             \A x \in Steps : Gives(e, edge, x)
                                <=> P /\ x = d /\ run.step[x] = "initialized"
      PROVE  Goal
  <2>1. ends = done /\ fails = lost
    BY <1>2 DEF JoinedIn
  <2>2. CASE P
    <3>1. more = opened \cup {x \in {d} : run.step[d] = "initialized"}
      BY <1>2, <2>2 DEF OpenedIn
    <3>2. LET new == opened \cup {x \in {d} : run.step[d] = "initialized"}
          IN  Reached(PlanEdge(r, d), new, done, lost) /\ Parts(new, done, lost)
      BY <1>2, PlanEdgeReaches
    <3>. HIDE DEF more, ends, fails, Goal
    <3>3. Reached(PlanEdge(r, d), more, done, lost) /\ Parts(more, done, lost)
      BY <3>1, <3>2
    <3>. QED
      BY <1>0, <1>2, <2>1, <2>2, <3>3
  <2>3. CASE ~P
    <3>1. more = opened
      BY <1>2, <2>3 DEF OpenedIn
    <3>. HIDE DEF more, ends, fails, Goal
    <3>. QED
      BY <1>0, <1>2, <2>1, <2>3, <3>1
  <2>. QED
    BY <2>2, <2>3
<1>3. CASE edge.type = "control"
  <2>1. PICK gate \in Outcomes, d \in Steps :
           ControlEdge(e.step, d, gate) /\ edge = [type |-> "control", to |-> d, gate |-> gate]
    BY <1>3, EdgeKinds
  <2>2. Def(d).type # "join" /\ edge.to = d /\ edge.gate = gate
    <3>1. e.step \in Steps
      BY DEF EndEvent
    <3>. QED
      BY <2>1, <3>1, ShapesOf DEF ControlEdge
  <2>3. Walk(r, e, edge) = IF edge.gate = e.status THEN PlanEdge(r, d) ELSE r
    BY <1>3, <2>2 DEF Walk
  <2>4. \A x \in Steps : Gives(e, edge, x)
              <=> (edge.gate = e.status) /\ x = d /\ run.step[x] = "initialized"
    BY <1>3, <2>2 DEF Gives
  <2>. HIDE DEF Goal
  <2>. QED
    BY <1>2, <1>3, <2>2, <2>3, <2>4
<1>4. CASE edge.type = "branch"
  <2>1. PICK case \in Steps \cup {None}, d \in Steps :
           BranchEdge(e.step, d, case) /\ edge = [type |-> "branch", to |-> d, case |-> case]
    BY <1>4, EdgeKinds
  <2>2. Def(d).type # "join" /\ edge.to = d /\ edge.case = case
    <3>1. e.step \in Steps
      BY DEF EndEvent
    <3>. QED
      BY <2>1, <3>1, ShapesOf DEF BranchEdge
  <2>. DEFINE P == e.type = "step.completed" /\ edge.case = e.case
  <2>3. Walk(r, e, edge) = IF P THEN PlanEdge(r, d) ELSE r
    BY <1>4, <2>2 DEF Walk
  <2>4. \A x \in Steps : Gives(e, edge, x) <=> P /\ x = d /\ run.step[x] = "initialized"
    BY <1>4, <2>2 DEF Gives
  <2>5. P \in BOOLEAN
    OBVIOUS
  <2>. HIDE DEF Goal, P
  <2>. QED
    BY <1>2, <1>4, <2>2, <2>3, <2>4, <2>5
<1>5. CASE edge.type = "join"
  <2>1. PICK j \in Steps : JoinEdge(e.step, j) /\ edge = [type |-> "join", to |-> j]
    BY <1>5, EdgeKinds
  <2>2. Def(j).type = "join" /\ edge.to = j /\ e.step \in Def(j).steps
        /\ Walk(r, e, edge) = PlanJoinEdge(r, j)
    BY <1>5, <2>1 DEF JoinEdge, Walk
  <2>3. /\ {r.step[s] : s \in Def(j).steps} \subseteq {"completed"} <=> j \in D
        /\ {r.step[s] : s \in Def(j).steps} \subseteq {"completed", "failed"}
             <=> j \in D \/ j \in L
    <3>1. /\ {r.step[s] : s \in Def(j).steps} \subseteq {"completed"}
               <=> \A s \in Def(j).steps : run.step[s] = "completed"
          /\ {r.step[s] : s \in Def(j).steps} \subseteq {"completed", "failed"}
               <=> \A s \in Def(j).steps : run.step[s] \in {"completed", "failed"}
      BY <2>1, <2>2, InputsAsBefore
    <3>2. /\ j \in D <=> \A s \in Def(j).steps : run.step[s] = "completed"
          /\ j \in D \/ j \in L
               <=> \A s \in Def(j).steps : run.step[s] \in {"completed", "failed"}
      BY <2>1 DEF JoinsCompletedBy, JoinsFailedBy
    <3>. HIDE DEF D, L
    <3>. QED
      BY <3>1, <3>2
  <2>4. D \cap L = {}
    BY DEF JoinsFailedBy
  <2>5. /\ ends = IF j \in D THEN done \cup {j} ELSE done
        /\ fails = IF j \in L THEN lost \cup {j} ELSE lost
    <3>. HIDE DEF D, L
    <3>. QED
      BY <1>5, <2>2 DEF JoinedIn
  <2>6. \A x \in Steps : Gives(e, edge, x)
              <=> j \in D /\ x = Def(j).next /\ run.step[x] = "initialized"
    BY <1>5, <2>2 DEF Gives, JoinNext
  <2>. DEFINE completed == [r EXCEPT !.step[j] = "completed",
                                     !.completedSteps = @ \cup {j}]
              failed == [r EXCEPT !.step[j] = "failed", !.failedSteps = @ \cup {j}]
  <2>7. CASE j \in D
    <3>1. j \notin lost
      BY <2>4, <2>7
    <3>2. Reached(completed, opened, done \cup {j}, lost) /\ Parts(opened, done \cup {j}, lost)
      BY <2>2, <3>1, DecideReaches
    <3>3. ends = done \cup {j} /\ fails = lost
      BY <2>4, <2>5, <2>7
    <3>4. PlanJoinEdge(r, j) = IF Def(j).next = None THEN completed
                               ELSE PlanEdge(completed, Def(j).next)
      BY <2>3, <2>7 DEF PlanJoinEdge
    <3>. HIDE DEF completed, ends, fails, D, L
    <3>5. CASE Def(j).next = None
      <4>1. more = opened
        BY <2>6, <3>5, StepsAssumption DEF OpenedIn
      <4>. HIDE DEF more, Goal
      <4>. QED
        BY <1>0, <2>2, <3>2, <3>3, <3>4, <3>5, <4>1
    <3>6. CASE Def(j).next # None
      <4>. DEFINE d == Def(j).next
      <4>1. d \in Steps /\ Def(d).type # "join"
        BY <1>1, <2>1, <3>6, ShapesOf DEF StepDef
      <4>2. more = opened \cup {x \in {d} : run.step[d] = "initialized"}
        BY <2>6, <2>7, <4>1 DEF OpenedIn
      <4>. HIDE DEF d
      <4>3. LET new == opened \cup {x \in {d} : run.step[d] = "initialized"}
            IN  /\ Reached(PlanEdge(completed, d), new, done \cup {j}, lost)
                /\ Parts(new, done \cup {j}, lost)
        BY <3>2, <4>1, PlanEdgeReaches
      <4>. HIDE DEF more, Goal
      <4>4. /\ Reached(PlanEdge(completed, d), more, done \cup {j}, lost)
            /\ Parts(more, done \cup {j}, lost)
        BY <4>2, <4>3
      <4>5. Walk(r, e, edge) = PlanEdge(completed, d)
        BY <2>2, <3>4, <3>6 DEF d
      <4>. QED
        BY <1>0, <3>3, <4>4, <4>5
    <3>. QED
      BY <3>5, <3>6
  <2>8. CASE j \notin D
    <3>1. more = opened
      BY <2>6, <2>8 DEF OpenedIn
    <3>2. CASE j \in L
      <4>1. j \notin done
        BY <2>8
      <4>2. Reached(failed, opened, done, lost \cup {j}) /\ Parts(opened, done, lost \cup {j})
        BY <2>2, <4>1, DecideReaches
      <4>3. ends = done /\ fails = lost \cup {j}
        BY <2>5, <2>8, <3>2
      <4>4. PlanJoinEdge(r, j) = failed
        BY <2>3, <2>8, <3>2 DEF PlanJoinEdge
      <4>. HIDE DEF failed, ends, fails, D, L, more, Goal
      <4>. QED
        BY <1>0, <2>2, <3>1, <4>2, <4>3, <4>4
    <3>3. CASE j \notin L
      <4>1. ends = done /\ fails = lost
        BY <2>5, <2>8, <3>3
      <4>2. PlanJoinEdge(r, j) = r
        BY <2>3, <2>8, <3>3 DEF PlanJoinEdge
      <4>. HIDE DEF ends, fails, D, L, more, Goal
      <4>. QED
        BY <1>0, <2>2, <3>1, <4>1, <4>2
    <3>. QED
      BY <3>2, <3>3
  <2>. QED
    BY <2>7, <2>8
<1>6. edge.type \in {"join", "control", "branch"}
  BY EdgeKinds
<1>. QED
  BY <1>3, <1>4, <1>5, <1>6

(* The fold takes the edges one after the other.                           *)
WalkBy(e, base, edges, it, n) ==
    [d \in SUBSET (1 .. n) |-> IF d = {} THEN base
                               ELSE Walk(it[d \ {Max(d)}], e, edges[Max(d)])]

LEMMA WalkExists ==
    ASSUME NEW e, NEW base, NEW edges, NEW n \in Nat
    PROVE  \E it : it = WalkBy(e, base, edges, it, n)
<1>. DEFINE S == {k \in Nat : \E it : it = WalkBy(e, base, edges, it, k)}
<1>1. 0 \in S
  <2>1. \A d \in SUBSET (1 .. 0) : d = {}
    <3>1. 1 .. 0 = {}
      OBVIOUS
    <3>. QED
      BY <3>1
  <2>. DEFINE it == [d \in SUBSET (1 .. 0) |-> base]
  <2>2. it = WalkBy(e, base, edges, it, 0)
    BY <2>1 DEF WalkBy
  <2>. QED
    BY <2>2
<1>2. ASSUME NEW k \in Nat, k \in S PROVE k + 1 \in S
  <2>1. PICK old : old = WalkBy(e, base, edges, old, k)
    BY <1>2
  <2>. DEFINE new == WalkBy(e, base, edges, old, k + 1)
  <2>2. ASSUME NEW d \in SUBSET (1 .. k) PROVE new[d] = old[d]
    <3>1. d \in SUBSET (1 .. k + 1)
      OBVIOUS
    <3>2. /\ new[d] = IF d = {} THEN base ELSE Walk(old[d \ {Max(d)}], e, edges[Max(d)])
          /\ WalkBy(e, base, edges, old, k)[d]
                = IF d = {} THEN base ELSE Walk(old[d \ {Max(d)}], e, edges[Max(d)])
      BY <3>1 DEF WalkBy
    <3>. QED
      BY <2>1, <3>2
  <2>. HIDE DEF new
  <2>3. ASSUME NEW d \in SUBSET (1 .. k + 1), d # {}
        PROVE  new[d \ {Max(d)}] = old[d \ {Max(d)}]
    BY <2>2, <2>3, WithoutLast
  <2>4. new = WalkBy(e, base, edges, new, k + 1)
    <3>1. new = [d \in SUBSET (1 .. k + 1) |->
                    IF d = {} THEN base ELSE Walk(old[d \ {Max(d)}], e, edges[Max(d)])]
      BY DEF new, WalkBy
    <3>2. \A d \in SUBSET (1 .. k + 1) :
             (IF d = {} THEN base ELSE Walk(old[d \ {Max(d)}], e, edges[Max(d)]))
           = (IF d = {} THEN base ELSE Walk(new[d \ {Max(d)}], e, edges[Max(d)]))
      BY <2>3
    <3>. QED
      BY <3>1, <3>2 DEF WalkBy
  <2>. QED
    BY <2>4
<1>. HIDE DEF S
<1>3. n \in S
  BY <1>1, <1>2, NatSetInduction
<1>. QED
  BY <1>3 DEF S

Base(r) == [r EXCEPT !.outstanding = Distance(@ - 1)]

WalkSteps(r, e, edges, n, f) ==
    /\ f[0] = Base(r) /\ Walked(r, e, edges) = SetRunStatus(f[n])
    /\ \A k \in 0 .. n - 1 : f[k + 1] = Walk(f[k], e, edges[k + 1])

LEMMA WalkedIs ==
    ASSUME NEW r, NEW e, NEW edges, NEW n \in Nat, DOMAIN edges = 1 .. n
    PROVE  \E f : WalkSteps(r, e, edges, n, f)
<1>. DEFINE base == Base(r)
            it == CHOOSE it : it = WalkBy(e, base, edges, it, n)
<1>2. Walked(r, e, edges) = SetRunStatus(it[1 .. n])
  BY DEF Walked, FoldLeft, MapThenFoldSet, WalkBy, Base
<1>. HIDE DEF base
<1>3. it = WalkBy(e, base, edges, it, n)
  BY WalkExists
<1>. HIDE DEF it
<1>. DEFINE f == [k \in 0 .. n |-> it[1 .. k]]
<1>4. \A d \in SUBSET (1 .. n) : it[d] =
          IF d = {} THEN base ELSE Walk(it[d \ {Max(d)}], e, edges[Max(d)])
  BY <1>3 DEF WalkBy
<1>5. f[0] = base
  <2>1. 1 .. 0 = {} /\ {} \in SUBSET (1 .. n) /\ 0 \in 0 .. n
    OBVIOUS
  <2>. QED
    BY <1>4, <2>1
<1>6. ASSUME NEW k \in 0 .. n - 1 PROVE f[k + 1] = Walk(f[k], e, edges[k + 1])
  <2>1. /\ 1 .. k + 1 \in SUBSET (1 .. n) /\ k \in Nat
        /\ k \in 0 .. n /\ k + 1 \in 0 .. n
    OBVIOUS
  <2>2. /\ Max(1 .. k + 1) = k + 1 /\ (1 .. k + 1) \ {k + 1} = 1 .. k
        /\ 1 .. k + 1 # {}
    BY <2>1, LastPosition
  <2>3. it[1 .. k + 1] = Walk(it[1 .. k], e, edges[k + 1])
    BY <1>4, <2>1, <2>2
  <2>. QED
    BY <2>1, <2>3
<1>7. f[n] = it[1 .. n]
  OBVIOUS
<1>. QED
  BY <1>2, <1>5, <1>6, <1>7 DEF base, WalkSteps

(* The edges of a step are finitely many, and a listing has them all.      *)
LEMMA RangeFinite ==
    ASSUME NEW D, IsFiniteSet(D), NEW f, DOMAIN f = D
    PROVE  IsFiniteSet({f[x] : x \in D})
<1>. DEFINE R == {f[x] : x \in D}
            g == [x \in D |-> f[x]]
<1>1. g \in Surjection(D, R)
  BY DEF Surjection
<1>. HIDE DEF g, R
<1>2. IsFiniteSet(R)
  BY <1>1, FS_Surjection
<1>. QED
  BY <1>2 DEF R

LEMMA EdgesFinite ==
    ASSUME NEW s
    PROVE  IsFiniteSet(OutEdges(s))
<1>. DEFINE D == Steps \X (Outcomes \cup Steps \cup {None})
            f1 == [d \in Steps |-> [type |-> "join", to |-> d]]
            f2 == [x \in D |-> [type |-> "control", to |-> x[1], gate |-> x[2]]]
            f3 == [x \in D |-> [type |-> "branch", to |-> x[1], case |-> x[2]]]
            R1 == {f1[x] : x \in Steps}
            R2 == {f2[x] : x \in D}
            R3 == {f3[x] : x \in D}
<1>1. IsFiniteSet(D)
  <2>1. IsFiniteSet(Outcomes) /\ IsFiniteSet({None})
    <3>1. Outcomes = {"success"} \cup {"failure"}
      BY DEF Outcomes
    <3>2. IsFiniteSet({"success"}) /\ IsFiniteSet({"failure"}) /\ IsFiniteSet({None})
      BY FS_Singleton
    <3>. QED
      BY <3>1, <3>2, FS_Union
  <2>2. IsFiniteSet(Outcomes \cup Steps)
    BY <2>1, StepsAssumption, FS_Union
  <2>3. IsFiniteSet(Outcomes \cup Steps \cup {None})
    BY <2>1, <2>2, FS_Union
  <2>. QED
    BY <2>3, StepsAssumption, FS_Product
<1>2. IsFiniteSet(R1) /\ IsFiniteSet(R2) /\ IsFiniteSet(R3)
  <2>1. DOMAIN f1 = Steps /\ DOMAIN f2 = D /\ DOMAIN f3 = D
    OBVIOUS
  <2>. HIDE DEF f1, f2, f3, D
  <2>. QED
    BY <1>1, <2>1, StepsAssumption, RangeFinite
<1>3. ASSUME NEW edge \in OutEdges(s) PROVE edge \in R1 \cup R2 \cup R3
  <2>1. CASE \E j \in Steps : JoinEdge(s, j) /\ edge = [type |-> "join", to |-> j]
    <3>1. PICK j \in Steps : edge = f1[j]
      BY <2>1
    <3>. QED
      BY <3>1
  <2>2. ASSUME NEW gate \in Outcomes, NEW d \in Steps,
               edge = [type |-> "control", to |-> d, gate |-> gate]
        PROVE  edge \in R2
    <3>1. <<d, gate>> \in D /\ edge = f2[<<d, gate>>]
      BY <2>2
    <3>. HIDE DEF f2, D
    <3>. QED
      BY <3>1
  <2>3. ASSUME NEW case \in Steps \cup {None}, NEW d \in Steps,
               edge = [type |-> "branch", to |-> d, case |-> case]
        PROVE  edge \in R3
    <3>1. <<d, case>> \in D /\ edge = f3[<<d, case>>]
      BY <2>3
    <3>. HIDE DEF f3, D
    <3>. QED
      BY <3>1
  <2>. HIDE DEF R1, R2, R3
  <2>. QED
    BY <2>1, <2>2, <2>3, EdgeKinds
<1>. HIDE DEF R1, R2, R3
<1>4. IsFiniteSet(R1 \cup R2 \cup R3)
  BY <1>2, FS_Union
<1>. QED
  BY <1>3, <1>4, FS_Subset

LEMMA EdgesListed ==
    ASSUME NEW s, NEW order \in SetToSeqs(OutEdges(s))
    PROVE  \E n \in Nat : /\ DOMAIN order = 1 .. n
                          /\ \A i \in 1 .. n : order[i] \in OutEdges(s)
                          /\ \A edge \in OutEdges(s) : \E i \in 1 .. n : order[i] = edge
<1>. DEFINE E == OutEdges(s)  n == Cardinality(E)
<1>1. IsFiniteSet(E) /\ n \in Nat
  BY EdgesFinite, FS_CardinalityType
<1>2. /\ order \in [1 .. n -> E]
      /\ \A i, j \in 1 .. n : order[i] = order[j] => i = j
  BY DEF SetToSeqs
<1>. HIDE DEF E
<1>3. order \in Injection(1 .. n, E)
  BY <1>2 DEF Injection, IsInjective
<1>4. Cardinality(1 .. n) = n /\ IsFiniteSet(1 .. n)
  BY <1>1, FS_Interval
<1>5. order \in Surjection(1 .. n, E)
  BY <1>1, <1>3, <1>4, FS_Injection
<1>6. \A edge \in E : \E i \in 1 .. n : order[i] = edge
  BY <1>5 DEF Surjection
<1>. HIDE DEF n
<1>. QED
  BY <1>1, <1>2, <1>6 DEF E

(* After all the edges the walk has done what the closed form does.        *)
LEMMA WalkEnds ==
    ASSUME TypeOK, flow \in Flows, NEW e \in EndEvent,
           NEW order \in SetToSeqs(OutEdges(e.step))
    PROVE  Walked(run, e, order) = StepFinishedReducer(run, e)
<1>. DEFINE D == JoinsCompletedBy(run, e.step)
            L == JoinsFailedBy(run, e.step)
            Seen(k) == {order[i] : i \in 1 .. k}
<1>1. PICK n \in Nat : /\ DOMAIN order = 1 .. n
                       /\ \A i \in 1 .. n : order[i] \in OutEdges(e.step)
                       /\ \A edge \in OutEdges(e.step) : \E i \in 1 .. n : order[i] = edge
  BY EdgesListed
<1>2a. PICK f : WalkSteps(run, e, order, n, f)
  BY <1>1, WalkedIs
<1>2. /\ f[0] = Base(run) /\ Walked(run, e, order) = SetRunStatus(f[n])
      /\ \A k \in 0 .. n - 1 : f[k + 1] = Walk(f[k], e, order[k + 1])
  BY <1>2a DEF WalkSteps
<1>. DEFINE O(S) == OpenedIn(e, S)
            J(S) == JoinedIn(D, S)
            F(S) == JoinedIn(L, S)
            Ok(k) == /\ Reached(f[k], O(Seen(k)), J(Seen(k)), F(Seen(k)))
                     /\ Parts(O(Seen(k)), J(Seen(k)), F(Seen(k)))
            K == {k \in Nat : k <= n => Ok(k)}
<1>3. 0 \in K
  <2>1. Seen(0) = {}
    OBVIOUS
  <2>2. O({}) = {} /\ J({}) = {} /\ F({}) = {}
    BY DEF OpenedIn, JoinedIn
  <2>3. Parts({}, {}, {})
    BY DEF Parts
  <2>4. Reached(Base(run), {}, {}, {})
    <3>1. /\ run \in RunContext /\ Distance(run.outstanding - 1) \in Nat
      BY RunFields DEF TypeOK, Distance
    <3>2. /\ Base(run) \in RunContext
          /\ Base(run).outstanding = Distance(run.outstanding - 1)
          /\ Base(run).status = run.status /\ Base(run).trace = run.trace
          /\ Base(run).fork = run.fork /\ Base(run).reuse = run.reuse
          /\ Base(run).step = run.step /\ Base(run).plannedSteps = run.plannedSteps
          /\ Base(run).completedSteps = run.completedSteps
          /\ Base(run).failedSteps = run.failedSteps
      BY <3>1 DEF Base, RunContext
    <3>3. Cardinality({}) = 0
      BY FS_EmptySet
    <3>. QED
      BY <3>1, <3>2, <3>3 DEF Reached
  <2>. HIDE DEF O, J, F
  <2>. QED
    BY <1>2, <2>1, <2>2, <2>3, <2>4
<1>4. ASSUME NEW k \in Nat, k \in K PROVE k + 1 \in K
  <2>. SUFFICES ASSUME k + 1 <= n PROVE Ok(k + 1)
    BY <1>4
  <2>. DEFINE edge == order[k + 1]
  <2>1. k \in 0 .. n - 1 /\ k + 1 \in 1 .. n /\ k <= n
    BY <1>1
  <2>2. edge \in OutEdges(e.step) /\ f[k + 1] = Walk(f[k], e, edge) /\ Ok(k)
    BY <1>1, <1>2, <1>4, <2>1
  <2>3. Seen(k + 1) = Seen(k) \cup {edge}
    <3>1. 1 .. k + 1 = (1 .. k) \cup {k + 1}
      OBVIOUS
    <3>. QED
      BY <3>1
  <2>. HIDE DEF Seen, edge
  <2>4. /\ O(Seen(k) \cup {edge}) = O(Seen(k)) \cup O({edge})
        /\ J(Seen(k) \cup {edge}) = J(Seen(k)) \cup J({edge})
        /\ F(Seen(k) \cup {edge}) = F(Seen(k)) \cup F({edge})
    BY DEF OpenedIn, JoinedIn
  <2>5. J(Seen(k)) \subseteq D /\ F(Seen(k)) \subseteq L
    BY DEF JoinedIn
  <2>6. LET more == O(Seen(k)) \cup O({edge})
            ends == J(Seen(k)) \cup J({edge})
            fails == F(Seen(k)) \cup F({edge})
        IN  Reached(Walk(f[k], e, edge), more, ends, fails) /\ Parts(more, ends, fails)
    BY <2>2, <2>5, EdgeReaches
  <2>. HIDE DEF O, J, F, D, L
  <2>. QED
    BY <2>2, <2>3, <2>4, <2>6
<1>. HIDE DEF K
<1>5. n \in K
  BY <1>3, <1>4, NatSetInduction
<1>6. Ok(n)
  BY <1>5 DEF K
<1>7. Seen(n) = OutEdges(e.step)
  BY <1>1
<1>8. /\ O(OutEdges(e.step)) = OpenedBy(run, e)
      /\ J(OutEdges(e.step)) = D /\ F(OutEdges(e.step)) = L
  <2>. DEFINE E == OutEdges(e.step)
  <2>0. /\ e.step \in Steps /\ e.status \in Outcomes /\ e.case \in Steps \cup {None, Inherited}
    BY DEF EndEvent
  <2>1. \A j \in Steps : JoinEdge(e.step, j) => [type |-> "join", to |-> j] \in E
    BY EdgeIsOut
  <2>2. \A d \in Steps : \A gate \in Outcomes : ControlEdge(e.step, d, gate)
            => [type |-> "control", to |-> d, gate |-> gate] \in E
    BY EdgeIsOut
  <2>3. \A d \in Steps : \A case \in Steps \cup {None} : BranchEdge(e.step, d, case)
            => [type |-> "branch", to |-> d, case |-> case] \in E
    BY EdgeIsOut
  <2>4. J(E) = D /\ F(E) = L
    <3>1. \A j \in D \cup L : j \in Steps /\ JoinEdge(e.step, j)
      BY DEF JoinsCompletedBy, JoinsFailedBy
    <3>2. \A j \in D \cup L : \E edge \in E : edge.type = "join" /\ edge.to = j
      BY <2>1, <3>1
    <3>. HIDE DEF D, L, E
    <3>. QED
      BY <3>2 DEF JoinedIn
  <2>5. ASSUME NEW d \in O(E) PROVE d \in OpenedBy(run, e)
    <3>1. PICK edge \in E : Gives(e, edge, d) /\ d \in Steps
      BY DEF OpenedIn
    <3>2. \/ \E j \in Steps : JoinEdge(e.step, j) /\ edge = [type |-> "join", to |-> j]
          \/ \E gate \in Outcomes, x \in Steps :
                ControlEdge(e.step, x, gate)
                  /\ edge = [type |-> "control", to |-> x, gate |-> gate]
          \/ \E case \in Steps \cup {None}, x \in Steps :
                BranchEdge(e.step, x, case)
                  /\ edge = [type |-> "branch", to |-> x, case |-> case]
      BY EdgeKinds
    <3>. HIDE DEF E
    <3>3. CASE edge.type = "join"
      BY <3>1, <3>3 DEF Gives, OpenedBy
    <3>4. CASE edge.type = "control"
      <4>1. ControlEdge(e.step, d, e.status)
        BY <3>1, <3>2, <3>4 DEF Gives
      <4>. QED
        BY <3>1, <4>1 DEF Gives, OpenedBy
    <3>5. CASE edge.type = "branch"
      <4>1. e.type = "step.completed" /\ BranchEdge(e.step, d, e.case)
        BY <3>1, <3>2, <3>5 DEF Gives
      <4>. QED
        BY <3>1, <4>1 DEF Gives, OpenedBy
    <3>. QED
      BY <3>2, <3>3, <3>4, <3>5
  <2>6. ASSUME NEW d \in OpenedBy(run, e) PROVE d \in O(E)
    <3>1. d \in Steps /\ run.step[d] = "initialized"
      BY DEF OpenedBy
    <3>2. CASE ControlEdge(e.step, d, e.status)
      <4>. DEFINE edge == [type |-> "control", to |-> d, gate |-> e.status]
      <4>1. edge \in E
        BY <2>0, <2>2, <3>1, <3>2
      <4>2. Gives(e, edge, d)
        BY <3>1 DEF Gives
      <4>. QED
        BY <3>1, <4>1, <4>2 DEF OpenedIn
    <3>3. CASE e.type = "step.completed" /\ BranchEdge(e.step, d, e.case)
      <4>. DEFINE edge == [type |-> "branch", to |-> d, case |-> e.case]
      <4>1. e.case \in Steps \cup {None}
        BY <2>0, <3>1, <3>3, StepsAssumption DEF BranchEdge
      <4>2. edge \in E
        BY <2>3, <3>1, <3>3, <4>1
      <4>3. Gives(e, edge, d)
        BY <3>1, <3>3 DEF Gives
      <4>. QED
        BY <3>1, <4>2, <4>3 DEF OpenedIn
    <3>4. CASE \E j \in JoinsCompletedBy(run, e.step) : JoinNext(j, d)
      <4>1. PICK j \in JoinsCompletedBy(run, e.step) : JoinNext(j, d)
        BY <3>4
      <4>. DEFINE edge == [type |-> "join", to |-> j]
      <4>2. edge \in E
        BY <2>1, <4>1 DEF JoinsCompletedBy
      <4>3. Gives(e, edge, d)
        BY <3>1, <4>1 DEF Gives
      <4>. QED
        BY <3>1, <4>2, <4>3 DEF OpenedIn
    <3>. QED
      BY <3>2, <3>3, <3>4 DEF OpenedBy
  <2>. HIDE DEF O, J, F, D, L
  <2>7. O(E) = OpenedBy(run, e)
    BY <2>5, <2>6
  <2>. QED
    BY <2>4, <2>7
<1>9. Reached(f[n], OpenedBy(run, e), D, L) /\ Parts(OpenedBy(run, e), D, L)
  BY <1>6, <1>7, <1>8
<1>. DEFINE p == SetRunStatus(f[n])  q == StepFinishedReducer(run, e)
<1>10. /\ q \in RunContext
       /\ q.trace = run.trace /\ q.fork = run.fork /\ q.reuse = run.reuse
       /\ \A s \in Steps : q.step[s] = IF s \in OpenedBy(run, e) THEN "planned"
                                       ELSE IF s \in D THEN "completed"
                                       ELSE IF s \in L THEN "failed"
                                       ELSE run.step[s]
       /\ q.outstanding = Distance(run.outstanding - 1) + Cardinality(OpenedBy(run, e))
       /\ q.plannedSteps = run.plannedSteps \cup OpenedBy(run, e)
       /\ q.completedSteps = run.completedSteps \cup D
       /\ q.failedSteps = run.failedSteps \cup L
       /\ q.status = IF q.outstanding # 0 THEN run.status
                     ELSE IF q.failedSteps # {} THEN "failed" ELSE "completed"
  <2>1. run \in RunContext
    BY DEF TypeOK
  <2>. QED
    BY <2>1, FinishedIs
<1>. HIDE DEF q, D, L
<1>11. f[n] \in RunContext
  BY <1>9 DEF Reached
<1>12. /\ p \in RunContext
       /\ p.trace = f[n].trace /\ p.fork = f[n].fork /\ p.reuse = f[n].reuse
       /\ p.step = f[n].step /\ p.outstanding = f[n].outstanding
       /\ p.plannedSteps = f[n].plannedSteps /\ p.completedSteps = f[n].completedSteps
       /\ p.failedSteps = f[n].failedSteps
       /\ p.status = IF f[n].outstanding # 0 THEN f[n].status
                     ELSE IF f[n].failedSteps # {} THEN "failed" ELSE "completed"
  BY <1>11 DEF SetRunStatus, RunContext, RunStatus
<1>. HIDE DEF p
<1>13. p = q
  <2>1. /\ p.trace = q.trace /\ p.fork = q.fork /\ p.reuse = q.reuse
        /\ \A s \in Steps : p.step[s] = q.step[s]
        /\ p.outstanding = q.outstanding /\ p.plannedSteps = q.plannedSteps
        /\ p.completedSteps = q.completedSteps /\ p.failedSteps = q.failedSteps
    BY <1>9, <1>10, <1>12 DEF Reached
  <2>2. p.status = q.status
    BY <1>9, <1>10, <1>12, <2>1 DEF Reached
  <2>. QED
    BY <1>10, <1>12, <2>1, <2>2, SameContext
<1>. QED
  BY <1>2, <1>13 DEF p, q

(* WalkIsClosedForm: in whatever order an author has listed the steps, the *)
(* walk of step-finished.reducer over the out edges of an ended step ends  *)
(* with what the closed form in module Engine says.                        *)
THEOREM OrderDecidesNothing == Spec => []WalkIsClosedForm
<1>1. EngineInv => WalkIsClosedForm
  <2>. SUFFICES ASSUME TypeOK, flow \in Flows, EndEvents \cap {1} # {},
                       NEW order \in SetToSeqs(OutEdges(Head(bus).step))
                PROVE  Walked(run, Head(bus), order) = StepFinishedReducer(run, Head(bus))
    BY DEF EngineInv, WalkIsClosedForm
  <2>1. 1 \in DOMAIN bus /\ bus[1].type \in {"step.completed", "step.failed", "step.reused"}
    BY DEF EndEvents
  <2>2. bus \in Seq(Event) /\ Head(bus) = bus[1] /\ bus[1] \in Event
    BY <2>1, ElementOfSeq DEF TypeOK
  <2>3. Head(bus) \in EndEvent
    BY <2>1, <2>2, EventKinds
  <2>. QED
    BY <2>3, WalkEnds
<1>. QED
  BY <1>1, EngineInvHolds, PTL

=============================================================================
