---------------------------- MODULE EngineProofs ----------------------------
(***************************************************************************)
(* Type correctness of the engine, for every flow the assumptions of       *)
(* module Engine admit, and what a run does to its steps in any flow whose *)
(* parallels own their children: the counter a run settles on is exact, a  *)
(* run that is over is quiet, one that is at rest is over, every job is    *)
(* submitted at most once, and what is over stays as it is.                *)
(*                                                                         *)
(* The events a handler publishes are sequences that list a set of steps   *)
(* in any order, and the counters of a run are cardinalities, so the       *)
(* module first proves what it means to count the places of a bus that     *)
(* hold an event of some kind.  Then each reducer maps run contexts to run *)
(* contexts, and each action keeps the types (EngineTyped).                *)
(*                                                                         *)
(* None of the other results is inductive.  The counter is exact only if a *)
(* step event is never handled twice or for a step in another state than   *)
(* the one it was published in; EngineInv therefore says, for each step,   *)
(* what its status allows on the bus, at the carrier and at the branch     *)
(* resolver (Life), that the sets of the run context agree with the        *)
(* statuses (Indexed), that the children of a parallel sleep until its     *)
(* step.started is handled (FamilyAsleep), that a join is what its inputs  *)
(* made it (JoinDecided), and what is quiet before a run begins and after  *)
(* it ended (Opening, Closing).  One lemma per action keeps it and shows,  *)
(* by the way, that nothing over is touched (Kept).  Steps that only move  *)
(* on by themselves share MovesOnLives, actions that touch no step share   *)
(* StillLives, steps that wake share WokenLife.                            *)
(*                                                                         *)
(* That a run at rest has ended needs the converse of Life: something is   *)
(* still on its way for whatever the run waits for.  Stirs says so: a run  *)
(* that was started has its bus, an outstanding step or a verdict (Begun); *)
(* a started branch awaits its value (Awaits); the children of a started   *)
(* parallel are on their way until one of its jobs is seen to start        *)
(* (Gathers).                                                              *)
(***************************************************************************)
EXTENDS EngineProps, InductionFacts, SequenceTheorems, FiniteSetTheorems, TLAPS

-----------------------------------------------------------------------------
(* Listings of events.                                                     *)

LEMMA Listed ==
    ASSUME NEW ids \in SUBSET Steps, NEW q \in SetToSeqs(ids)
    PROVE  /\ IsFiniteSet(ids) /\ Cardinality(ids) \in Nat
           /\ q \in [1..Cardinality(ids) -> ids]
           /\ \A i, j \in 1..Cardinality(ids) : q[i] = q[j] => i = j
           /\ \A s \in ids : \E i \in 1..Cardinality(ids) : q[i] = s
<1>1. IsFiniteSet(ids) /\ Cardinality(ids) \in Nat
  BY StepsAssumption, FS_Subset, FS_CardinalityType
<1>2. /\ q \in [1..Cardinality(ids) -> ids]
      /\ \A i, j \in 1..Cardinality(ids) : q[i] = q[j] => i = j
  BY DEF SetToSeqs
<1>3. q \in Injection(1..Cardinality(ids), ids)
  BY <1>2 DEF Injection, IsInjective
<1>4. Cardinality(1..Cardinality(ids)) = Cardinality(ids)
  BY <1>1, FS_Interval
<1>5. q \in Surjection(1..Cardinality(ids), ids)
  BY <1>1, <1>3, <1>4, FS_Injection
<1>. QED  BY <1>1, <1>2, <1>5 DEF Surjection

LEMMA PlannedListed ==
    ASSUME NEW ids \in SUBSET Steps, NEW evs \in PlannedEvents(ids)
    PROVE  /\ evs \in Seq(StepEvent)
           /\ \A i \in DOMAIN evs : \E s \in ids : evs[i] = StepEv("step.planned", s)
           /\ \A s \in Steps : Count(evs, {StepEv("step.planned", s)})
                                   = IF s \in ids THEN 1 ELSE 0
<1>1. PICK q \in SetToSeqs(ids) :
         evs = [i \in DOMAIN q |-> StepEv("step.planned", q[i])]
  BY DEF PlannedEvents
<1>2. /\ IsFiniteSet(ids) /\ Cardinality(ids) \in Nat
      /\ q \in [1..Cardinality(ids) -> ids]
      /\ \A i, j \in 1..Cardinality(ids) : q[i] = q[j] => i = j
      /\ \A s \in ids : \E i \in 1..Cardinality(ids) : q[i] = s
  BY Listed
<1>3. /\ DOMAIN evs = 1..Cardinality(ids)
      /\ \A i \in 1..Cardinality(ids) : evs[i] = StepEv("step.planned", q[i])
  BY <1>1, <1>2
<1>4. \A s \in Steps : StepEv("step.planned", s) \in StepEvent
  BY DEF StepEv, StepEvent
<1>5. \A i \in 1..Cardinality(ids) : evs[i] \in StepEvent
  BY <1>2, <1>3, <1>4
<1>6. evs \in Seq(StepEvent)
  BY <1>1, <1>2, <1>3, <1>5, IsASeq
<1>7. ASSUME NEW s \in Steps
      PROVE  Count(evs, {StepEv("step.planned", s)}) = IF s \in ids THEN 1 ELSE 0
  <2>1. \A t \in Steps : StepEv("step.planned", t) = StepEv("step.planned", s) <=> t = s
    BY DEF StepEv
  <2>2. \A i : i \in Places(evs, {StepEv("step.planned", s)})
                <=> i \in 1..Cardinality(ids) /\ q[i] = s
    BY <1>2, <1>3, <2>1 DEF Places
  <2>3. CASE s \in ids
    <3>1. PICK i \in 1..Cardinality(ids) : q[i] = s
      BY <1>2, <2>3
    <3>2. Places(evs, {StepEv("step.planned", s)}) = {i}
      BY <1>2, <2>2, <3>1, Zenon
    <3>. QED  BY <2>3, <3>2, FS_Singleton DEF Count
  <2>4. CASE s \notin ids
    <3>0. \A i \in 1..Cardinality(ids) : q[i] # s
      BY <1>2, <2>4
    <3>1. Places(evs, {StepEv("step.planned", s)}) = {}
      BY <2>2, <3>0, Zenon
    <3>. QED  BY <2>4, <3>1, FS_EmptySet DEF Count
  <2>. QED  BY <2>3, <2>4
<1>. QED  BY <1>2, <1>3, <1>6, <1>7

LEMMA CompletedListed ==
    ASSUME NEW ids \in SUBSET Steps, NEW evs \in CompletedEvents(ids)
    PROVE  /\ evs \in Seq(EndEvent)
           /\ \A i \in DOMAIN evs : \E s \in ids : evs[i] = Ended(s, "success", None)
           /\ Count(evs, EndEvent) = Cardinality(ids)
<1>1. PICK q \in SetToSeqs(ids) :
         evs = [i \in DOMAIN q |-> Ended(q[i], "success", None)]
  BY DEF CompletedEvents
<1>2. /\ IsFiniteSet(ids) /\ Cardinality(ids) \in Nat
      /\ q \in [1..Cardinality(ids) -> ids]
  BY Listed
<1>3. /\ DOMAIN evs = 1..Cardinality(ids)
      /\ \A i \in 1..Cardinality(ids) : evs[i] = Ended(q[i], "success", None)
  BY <1>1, <1>2
<1>4. \A s \in Steps : Ended(s, "success", None) \in EndEvent
  BY DEF Ended, EndEvent, Outcomes
<1>5. \A i \in 1..Cardinality(ids) : evs[i] \in EndEvent
  BY <1>2, <1>3, <1>4
<1>6. evs \in Seq(EndEvent)
  BY <1>1, <1>2, <1>3, <1>5, IsASeq
<1>7. Places(evs, EndEvent) = 1..Cardinality(ids)
  BY <1>3, <1>5 DEF Places
<1>8. Cardinality(1..Cardinality(ids)) = Cardinality(ids)
  BY <1>2, FS_Interval
<1>. QED  BY <1>2, <1>3, <1>6, <1>7, <1>8 DEF Count

-----------------------------------------------------------------------------
(* The kinds of events.                                                    *)

LEMMA EventKinds ==
    ASSUME NEW e \in Event
    PROVE  /\ e.type \in {"run.started", "run.completed", "run.failed"} =>
                e \in RunEvent /\ e = Ev(e.type)
           /\ e.type = "run.requested" => e \in RequestEvent
           /\ e.type \in {"step.planned", "step.started"} =>
                e \in StepEvent /\ e.step \in Steps /\ e = StepEv(e.type, e.step)
           /\ e.type \in {"step.completed", "step.failed", "step.reused"} <=>
                e \in EndEvent
           /\ e \in EndEvent => /\ e.step \in Steps /\ e.status \in Outcomes
                                /\ e.case \in Steps \cup {None, Inherited}
BY DEF Event, RunEvent, RequestEvent, StepEvent, EndEvent, Ev, StepEv

LEMMA EventsMade ==
    /\ \A t \in {"run.started", "run.completed", "run.failed"} : Ev(t) \in Event
    /\ \A t \in {"step.planned", "step.started"}, s \in Steps : StepEv(t, s) \in Event
    /\ \A s \in Steps, o \in Outcomes, c \in Steps \cup {None, Inherited} :
          Ended(s, o, c) \in EndEvent
    /\ \A s \in Steps, o \in Outcomes : Reused(s, o) \in EndEvent
    /\ EndEvent \subseteq Event /\ StepEvent \subseteq Event
BY DEF Event, RunEvent, StepEvent, EndEvent, Ev, StepEv, Ended, Reused, Outcomes

LEMMA BusParts ==
    ASSUME bus \in Seq(Event), bus # <<>>
    PROVE  Head(bus) \in Event /\ Tail(bus) \in Seq(Event)
BY HeadTailProperties

-----------------------------------------------------------------------------
(* Types.                                                                  *)

LEMMA RunFields ==
    ASSUME NEW r \in RunContext
    PROVE  /\ r.status \in RunStatus /\ r.trace \in Traces \cup {None}
           /\ r.fork \in Forks \cup {NoFork}
           /\ r.reuse \in [Steps -> Outcomes \cup {"none"}]
           /\ r.step \in [Steps -> StepStatus] /\ r.outstanding \in Nat
           /\ r.plannedSteps \in SUBSET Steps /\ r.completedSteps \in SUBSET Steps
           /\ r.failedSteps \in SUBSET Steps
BY DEF RunContext

LEMMA PlanType ==
    ASSUME NEW r \in RunContext, NEW ids \in SUBSET Steps
    PROVE  /\ Plan(r, ids) \in RunContext
           /\ IsFiniteSet(ids) /\ Cardinality(ids) \in Nat
<1>1. IsFiniteSet(ids) /\ Cardinality(ids) \in Nat
  BY StepsAssumption, FS_Subset, FS_CardinalityType
<1>2. r.outstanding + Cardinality(ids) \in Nat
  BY <1>1, RunFields
<1>3. [s \in Steps |-> IF s \in ids THEN "planned" ELSE r.step[s]] \in [Steps -> StepStatus]
  BY RunFields DEF StepStatus
<1>. QED  BY <1>1, <1>2, <1>3 DEF Plan, RunContext

LEMMA RequestedType ==
    ASSUME NEW r \in RunContext, NEW e \in RequestEvent
    PROVE  RunRequestedReducer(r, e) \in RunContext
BY DEF RunRequestedReducer, RunContext, RequestEvent, RunStatus

LEMMA RunPlanType ==
    ASSUME NEW r \in RunContext, NEW valid \in BOOLEAN, 
           NEW data \in [Steps -> Outcomes \cup {"none"}]
    PROVE  MakeRunPlanReducer(r, valid, data) \in RunContext
<1>. DEFINE reuse == [s \in Steps |-> IF r.fork # NoFork /\ s \in r.fork
                                       THEN data[s] ELSE "none"]
            step == [s \in Steps |-> "initialized"]
<1>1. reuse \in [Steps -> Outcomes \cup {"none"}] /\ step \in [Steps -> StepStatus]
  BY DEF StepStatus
<1>2. [r EXCEPT !.status = "failed"] \in RunContext
  BY DEF RunContext, RunStatus
<1>. HIDE DEF reuse, step
<1>3. [r EXCEPT !.status = "started", !.reuse = reuse, !.step = step] \in RunContext
  BY <1>1 DEF RunContext, RunStatus
<1>. QED  BY <1>2, <1>3 DEF MakeRunPlanReducer, reuse, step

LEMMA PlannedType ==
    ASSUME NEW r \in RunContext, NEW s \in Steps
    PROVE  StepPlannedReducer(r, s) \in RunContext
<1>. DEFINE status == CASE r.reuse[s] = "none" -> "started"
                        [] r.reuse[s] = "success" -> "completed"
                        [] r.reuse[s] = "failure" -> "failed"
            step == [r.step EXCEPT ![s] = status]
<1>1. status \in StepStatus
  BY RunFields DEF StepStatus, Outcomes
<1>. HIDE DEF status
<1>2. step \in [Steps -> StepStatus]
  BY <1>1, RunFields
<1>. HIDE DEF step
<1>3. [r EXCEPT !.plannedSteps = @ \ {s}, !.step = step] \in RunContext
  BY <1>2 DEF RunContext
<1>. QED  BY <1>3 DEF StepPlannedReducer, step, status

LEMMA DefType ==
    ASSUME flow \in FlowDef, NEW s \in Steps
    PROVE  /\ Def(s) \in StepDef /\ flow.start \in Steps
           /\ Def(s).type \in StepTypes /\ Def(s).steps \in SUBSET Steps
           /\ Def(s).next \in Steps \cup {None} /\ Def(s).failure \in Steps \cup {None}
           /\ Def(s).ref \in BOOLEAN
BY DEF FlowDef, StepDef, Def

LEMMA StartedType ==
    ASSUME flow \in FlowDef, NEW r \in RunContext, NEW s \in Steps
    PROVE  StepStartedReducer(r, s) \in RunContext
<1>. DEFINE ids == {c \in Def(s).steps : r.step[c] = "initialized"}
            ps == CompletesWith(r, s)
            step == [p \in Steps |-> IF p \in ps THEN "completed" ELSE r.step[p]]
            done == r.completedSteps \cup ps
<1>1. Plan(r, ids) \in RunContext
  <2>1. ids \in SUBSET Steps
    BY DefType
  <2>. QED  BY <2>1, PlanType
<1>2. ps \in SUBSET Steps
  BY DEF CompletesWith
<1>3. step \in [Steps -> StepStatus] /\ done \in SUBSET Steps
  <2>. HIDE DEF ps
  <2>. QED  BY <1>2, RunFields DEF StepStatus
<1>4. StepStartedReducer(r, s) = CASE Def(s).type = "parallel" -> Plan(r, ids)
                                   [] Def(s).type = "join" -> r
                                   [] OTHER -> [r EXCEPT !.step = step, !.completedSteps = done]
  BY Zenon DEF StepStartedReducer
<1>. HIDE DEF ids, step, done
<1>5. [r EXCEPT !.step = step, !.completedSteps = done] \in RunContext
  BY <1>3 DEF RunContext
<1>. QED  BY <1>1, <1>4, <1>5

LEMMA SettleType ==
    ASSUME NEW r \in RunContext, NEW s \in Steps, NEW outcome \in Outcomes
    PROVE  SettleReducer(r, s, outcome) \in RunContext
BY DEF SettleReducer, RunContext, StepStatus

(* What the end of a step makes of a run, field by field.                  *)
LEMMA FinishedIs ==
    ASSUME NEW r \in RunContext, NEW e
    PROVE  LET new == StepFinishedReducer(r, e)
               done == JoinsCompletedBy(r, e.step)
               lost == JoinsFailedBy(r, e.step)
               opened == OpenedBy(r, e)
           IN
           /\ new \in RunContext
           /\ done \in SUBSET Steps /\ lost \in SUBSET Steps /\ opened \in SUBSET Steps
           /\ new.trace = r.trace /\ new.fork = r.fork /\ new.reuse = r.reuse
           /\ \A s \in Steps : new.step[s] = IF s \in opened THEN "planned"
                                              ELSE IF s \in done THEN "completed"
                                              ELSE IF s \in lost THEN "failed"
                                              ELSE r.step[s]
           /\ new.outstanding = Distance(r.outstanding - 1) + Cardinality(opened)
           /\ new.plannedSteps = r.plannedSteps \cup opened
           /\ new.completedSteps = r.completedSteps \cup done
           /\ new.failedSteps = r.failedSteps \cup lost
           /\ new.status = IF new.outstanding # 0 THEN r.status
                            ELSE IF new.failedSteps # {} THEN "failed" ELSE "completed"
<1>. DEFINE new == StepFinishedReducer(r, e)
            done == JoinsCompletedBy(r, e.step)
            lost == JoinsFailedBy(r, e.step)
            opened == OpenedBy(r, e)
            step == [s \in Steps |-> CASE s \in done -> "completed"
                                       [] s \in lost -> "failed"
                                       [] OTHER -> r.step[s]]
            joined == [r EXCEPT !.outstanding = Distance(@ - 1),
                                !.step = step,
                                !.completedSteps = @ \cup done,
                                !.failedSteps = @ \cup lost]
            planned == Plan(joined, opened)
<1>1. done \in SUBSET Steps /\ lost \in SUBSET Steps /\ opened \in SUBSET Steps
  BY DEF JoinsCompletedBy, JoinsFailedBy, OpenedBy
<1>2. step \in [Steps -> StepStatus]
  <2>. HIDE DEF done, lost
  <2>. QED  BY RunFields DEF StepStatus
<1>2a. \A s \in Steps : s \in lost => s \notin done
  BY DEF JoinsFailedBy
<1>2b. \A s \in Steps : step[s] = IF s \in done THEN "completed"
                                  ELSE IF s \in lost THEN "failed" ELSE r.step[s]
  <2>. HIDE DEF done, lost
  <2>. QED  BY <1>2a
<1>3. Distance(r.outstanding - 1) \in Nat
  BY RunFields DEF Distance
<1>4. new = SetRunStatus(planned)
  BY Zenon DEF StepFinishedReducer
<1>. HIDE DEF step, done, lost, opened, new
<1>5. /\ joined \in RunContext /\ joined.step = step /\ joined.trace = r.trace
      /\ joined.fork = r.fork /\ joined.reuse = r.reuse /\ joined.status = r.status
      /\ joined.outstanding = Distance(r.outstanding - 1)
      /\ joined.plannedSteps = r.plannedSteps
      /\ joined.completedSteps = r.completedSteps \cup done
      /\ joined.failedSteps = r.failedSteps \cup lost
  <2>1. r.completedSteps \cup done \in SUBSET Steps /\ r.failedSteps \cup lost \in SUBSET Steps
    BY <1>1, RunFields
  <2>2. joined \in RunContext
    BY <1>2, <1>3, <2>1 DEF RunContext
  <2>. QED  BY <2>2 DEF RunContext
<1>. HIDE DEF joined
<1>6. /\ planned \in RunContext /\ planned.status = r.status /\ planned.trace = r.trace
      /\ planned.fork = r.fork /\ planned.reuse = r.reuse
      /\ \A s \in Steps : planned.step[s] = IF s \in opened THEN "planned" ELSE step[s]
      /\ planned.plannedSteps = r.plannedSteps \cup opened
      /\ planned.outstanding = Distance(r.outstanding - 1) + Cardinality(opened)
      /\ planned.completedSteps = r.completedSteps \cup done
      /\ planned.failedSteps = r.failedSteps \cup lost
  <2>1. planned \in RunContext
    BY <1>1, <1>5, PlanType
  <2>. QED  BY <1>1, <1>5, <2>1 DEF Plan, RunContext
<1>. HIDE DEF planned
<1>7. /\ new \in RunContext
      /\ new.trace = planned.trace /\ new.fork = planned.fork /\ new.reuse = planned.reuse
      /\ new.step = planned.step /\ new.outstanding = planned.outstanding
      /\ new.plannedSteps = planned.plannedSteps
      /\ new.completedSteps = planned.completedSteps
      /\ new.failedSteps = planned.failedSteps
      /\ new.status = IF planned.outstanding # 0 THEN planned.status
                       ELSE IF planned.failedSteps # {} THEN "failed" ELSE "completed"
  BY <1>4, <1>6 DEF SetRunStatus, RunContext, RunStatus
<1>8. \A s \in Steps : new.step[s] = IF s \in opened THEN "planned"
                                     ELSE IF s \in done THEN "completed"
                                     ELSE IF s \in lost THEN "failed"
                                     ELSE r.step[s]
  BY <1>2b, <1>6, <1>7
<1>. QED  BY <1>1, <1>6, <1>7, <1>8 DEF done, lost, opened, new

-----------------------------------------------------------------------------

LEMMA InitType == Init => TypeOK
<1>. SUFFICES ASSUME Init PROVE TypeOK
  OBVIOUS
<1>1. flow \in FlowDef
  BY FlowsAssumption DEF Init
<1>2. run \in RunContext
  BY DEF Init, Absent, RunContext, RunStatus, StepStatus, Outcomes
<1>3. bus \in Seq(Event)
  BY DEF Init
<1>4. /\ branching \in [Steps -> Nat] /\ submitted \in [Steps -> Nat]
      /\ answers \in [Steps -> Seq(Outcomes)]
      /\ announced \in [Announcements -> Nat] /\ redelivered \in Nat
  BY DEF Init
<1>. QED  BY <1>1, <1>2, <1>3, <1>4 DEF Init, TypeOK, Loads

LEMMA AnnounceType ==
    ASSUME announced \in [Announcements -> Nat], NEW types, Announce(types)
    PROVE  /\ announced' \in [Announcements -> Nat]
           /\ \A a \in Announcements : announced'[a] = IF a \in types THEN announced[a] + 1
                                                        ELSE announced[a]
BY DEF Announce

LEMMA RequestKeepsTypes ==
    ASSUME TypeOK, NEW t \in Traces, NEW fork \in Forks \cup {NoFork}, Request(t, fork)
    PROVE  TypeOK'
<1>1. [type |-> "run.requested", trace |-> t, fork |-> fork] \in Event
  BY DEF Event, RequestEvent
<1>2. bus' \in Seq(Event) /\ requested' \subseteq Traces
  BY <1>1, AppendProperties DEF TypeOK, Request
<1>. QED  BY <1>2 DEF TypeOK, Request, jobVars

LEMMA RunRequestedKeepsTypes == TypeOK /\ RunRequested => TypeOK'
<1>. SUFFICES ASSUME TypeOK, RunRequested PROVE TypeOK'
  OBVIOUS
<1>1. Head(bus) \in RequestEvent /\ bus' \in Seq(Event)
  BY BusParts, EventKinds DEF TypeOK, RunRequested, Handles
<1>2. run' \in RunContext
  BY <1>1, RequestedType DEF TypeOK, RunRequested
<1>3. announced' \in [Announcements -> Nat] /\ load' \in Loads
  BY AnnounceType DEF TypeOK, RunRequested, Loads
<1>. QED  BY <1>1, <1>2, <1>3 DEF TypeOK, RunRequested, jobVars

LEMMA MakeRunPlanKeepsTypes ==
    ASSUME TypeOK, NEW valid \in BOOLEAN, NEW data \in [Steps -> Outcomes \cup {"none"}],
           MakeRunPlan(valid, data)
    PROVE  /\ run' \in RunContext /\ bus' \in Seq(Event) /\ load' \in Loads
           /\ announced' \in [Announcements -> Nat]
<1>1. run' \in RunContext /\ load' \in Loads
  BY RunPlanType DEF TypeOK, MakeRunPlan, Loads
<1>2. announced' \in [Announcements -> Nat]
  BY AnnounceType DEF TypeOK, MakeRunPlan
<1>3. \/ bus' = bus
      \/ bus' = Append(bus, Ev("run.started"))
  BY DEF MakeRunPlan, Ev
<1>4. bus \in Seq(Event) /\ Ev("run.started") \in Event
  BY EventsMade DEF TypeOK
<1>5. bus' \in Seq(Event)
  BY <1>3, <1>4, AppendProperties
<1>. QED  BY <1>1, <1>2, <1>5

LEMMA LoadedKeepsTypes == TypeOK /\ Loaded => TypeOK'
<1>. SUFFICES ASSUME TypeOK, Loaded PROVE TypeOK'
  OBVIOUS
<1>1. CASE LoadFailed
  <2>1. run' \in RunContext
    BY <1>1 DEF TypeOK, LoadFailed, LoadFailedReducer, RunContext, RunStatus
  <2>2. announced' \in [Announcements -> Nat]
    BY <1>1, AnnounceType DEF TypeOK, LoadFailed
  <2>. QED  BY <1>1, <2>1, <2>2 DEF TypeOK, LoadFailed, Loads, jobVars
<1>2. CASE ForkSpecLoaded
  BY <1>2 DEF TypeOK, ForkSpecLoaded, Loads, jobVars
<1>3. ASSUME NEW valid \in BOOLEAN, FlowDefLoaded(valid)
      PROVE  TypeOK'
  <2>1. [s \in Steps |-> "none"] \in [Steps -> Outcomes \cup {"none"}]
    OBVIOUS
  <2>2. /\ run' \in RunContext /\ bus' \in Seq(Event) /\ load' \in Loads
        /\ announced' \in [Announcements -> Nat]
    BY <1>3, <2>1, MakeRunPlanKeepsTypes DEF FlowDefLoaded, TypeOK, Loads
  <2>. QED  BY <1>3, <2>2 DEF TypeOK, FlowDefLoaded, jobVars
<1>4. ASSUME NEW valid \in BOOLEAN, NEW data \in [Steps -> Outcomes],
             StepDataLoaded(valid, data)
      PROVE  TypeOK'
  <2>1. /\ run' \in RunContext /\ bus' \in Seq(Event) /\ load' \in Loads
        /\ announced' \in [Announcements -> Nat]
    BY <1>4, MakeRunPlanKeepsTypes DEF StepDataLoaded
  <2>. QED  BY <1>4, <2>1 DEF TypeOK, StepDataLoaded, jobVars
<1>. QED  BY <1>1, <1>2, <1>3, <1>4 DEF Loaded

LEMMA RunStartedKeepsTypes == TypeOK /\ RunStarted => TypeOK'
<1>. SUFFICES ASSUME TypeOK, RunStarted PROVE TypeOK'
  OBVIOUS
<1>1. Tail(bus) \in Seq(Event) /\ flow.start \in Steps
  BY BusParts, StepsAssumption DEF TypeOK, RunStarted, Handles, FlowDef
<1>2. run' \in RunContext
  BY <1>1, PlanType DEF TypeOK, RunStarted, RunStartedReducer
<1>3. /\ <<StepEv("step.planned", flow.start)>> \in Seq(Event)
      /\ <<>> \in Seq(Event)
  BY <1>1, EventsMade
<1>4. bus' \in Seq(Event)
  BY <1>1, <1>3, ConcatProperties DEF RunStarted
<1>. QED  BY <1>2, <1>4 DEF TypeOK, RunStarted, jobVars

LEMMA StepHandled ==
    ASSUME TypeOK, NEW types, types \subseteq {"step.planned", "step.started"}, Handles(types)
    PROVE  Head(bus).step \in Steps /\ Tail(bus) \in Seq(Event)
BY BusParts, EventKinds DEF TypeOK, Handles

LEMMA StepReusedKeepsTypes == TypeOK /\ StepReused => TypeOK'
<1>. SUFFICES ASSUME TypeOK, StepReused PROVE TypeOK'
  OBVIOUS
<1>. DEFINE s == Head(bus).step
            e == Reused(s, IF run'.step[s] = "completed" THEN "success" ELSE "failure")
<1>1. s \in Steps /\ Tail(bus) \in Seq(Event)
  BY StepHandled DEF StepReused
<1>2. run' \in RunContext
  BY <1>1, PlannedType DEF TypeOK, StepReused
<1>3. e \in Event
  BY <1>1, EventsMade DEF Outcomes
<1>4. bus' = Append(Tail(bus), e)
  BY DEF StepReused
<1>. HIDE DEF e
<1>5. bus' \in Seq(Event)
  BY <1>1, <1>3, <1>4, AppendProperties
<1>. QED  BY <1>2, <1>5 DEF TypeOK, StepReused, jobVars

LEMMA StepPlannedKeepsTypes ==
    ASSUME TypeOK, NEW admitted \in Admission, StepPlanned(admitted)
    PROVE  TypeOK'
<1>. DEFINE s == Head(bus).step
<1>1. s \in Steps /\ Tail(bus) \in Seq(Event)
  BY StepHandled DEF StepPlanned
<1>2. run' \in RunContext
  BY <1>1, PlannedType DEF TypeOK, StepPlanned
<1>3. bus' \in Seq(Event)
  BY <1>1, EventsMade, AppendProperties DEF StepPlanned
<1>4. submitted' \in [Steps -> Nat]
  BY <1>1 DEF TypeOK, StepPlanned
<1>5. branching' \in [Steps -> Nat]
  BY <1>1 DEF TypeOK, StepPlanned
<1>. QED  BY <1>2, <1>3, <1>4, <1>5 DEF TypeOK, StepPlanned

LEMMA BranchValueMissingKeepsTypes == TypeOK /\ BranchValueMissing => TypeOK'
<1>. SUFFICES ASSUME TypeOK, BranchValueMissing PROVE TypeOK'
  OBVIOUS
<1>. DEFINE s == Head(bus).step
            evs == <<StepEv("step.started", s), Ended(s, "failure", None)>>
<1>1. s \in Steps /\ Tail(bus) \in Seq(Event)
  BY StepHandled DEF BranchValueMissing
<1>2. run' \in RunContext
  BY <1>1, PlannedType, SettleType DEF TypeOK, BranchValueMissing, Outcomes
<1>3. evs \in Seq(Event)
  BY <1>1, EventsMade DEF Outcomes
<1>4. bus' = Tail(bus) \o evs
  BY DEF BranchValueMissing
<1>. HIDE DEF evs
<1>5. bus' \in Seq(Event)
  BY <1>1, <1>3, <1>4, ConcatProperties
<1>. QED  BY <1>2, <1>5 DEF TypeOK, BranchValueMissing, jobVars

LEMMA StepStartedKeepsTypes == TypeOK /\ StepStarted => TypeOK'
<1>. SUFFICES ASSUME TypeOK, StepStarted PROVE TypeOK'
  OBVIOUS
<1>. DEFINE s == Head(bus).step
            fresh == IF Def(s).type # "parallel" THEN {}
                     ELSE {c \in Def(s).steps : run'.step[c] = "planned"}
            done == run'.completedSteps \ run.completedSteps
<1>1. s \in Steps /\ Tail(bus) \in Seq(Event)
  BY StepHandled DEF StepStarted
<1>2. run' \in RunContext
  BY <1>1, StartedType DEF TypeOK, StepStarted
<1>3. fresh \in SUBSET Steps /\ done \in SUBSET Steps
  BY <1>1, <1>2, DefType, RunFields DEF TypeOK
<1>4. PICK planned \in PlannedEvents(fresh), ended \in CompletedEvents(done) :
         bus' = Tail(bus) \o planned \o ended
  BY DEF StepStarted
<1>. HIDE DEF fresh, done
<1>5. planned \in Seq(Event) /\ ended \in Seq(Event)
  BY <1>3, <1>4, PlannedListed, CompletedListed, EventsMade, SeqMonotonic
<1>6. bus' \in Seq(Event)
  BY <1>1, <1>4, <1>5, ConcatProperties
<1>. QED  BY <1>2, <1>6 DEF TypeOK, StepStarted, jobVars

LEMMA JobFinishedKeepsTypes ==
    ASSUME TypeOK, NEW s \in Steps, NEW outcome \in Outcomes, JobFinished(s, outcome)
    PROVE  run' \in RunContext /\ bus' \in Seq(Event)
<1>1. run' \in RunContext
  BY SettleType DEF TypeOK, JobFinished
<1>2. bus' \in Seq(Event)
  BY EventsMade, AppendProperties DEF TypeOK, JobFinished
<1>. QED  BY <1>1, <1>2

LEMMA JobAnsweredKeepsTypes ==
    ASSUME TypeOK, NEW s \in Steps, NEW outcome \in Outcomes, JobAnswered(s, outcome)
    PROVE  TypeOK'
<1>1. run' \in RunContext /\ bus' \in Seq(Event)
  BY JobFinishedKeepsTypes DEF JobAnswered
<1>2. Append(answers[s], outcome) \in Seq(Outcomes)
  BY AppendProperties DEF TypeOK
<1>3. answers' \in [Steps -> Seq(Outcomes)]
  BY <1>2 DEF TypeOK, JobAnswered
<1>. QED  BY <1>1, <1>3 DEF TypeOK, JobAnswered

LEMMA JobRedeliveredKeepsTypes ==
    ASSUME TypeOK, NEW s \in Steps, NEW i \in DOMAIN answers[s], JobRedelivered(s, i)
    PROVE  TypeOK'
<1>1. answers[s] \in Seq(Outcomes) /\ redelivered' \in Nat
  BY DEF TypeOK, JobRedelivered
<1>2. answers[s][i] \in Outcomes
  BY <1>1, ElementOfSeq
<1>3. run' \in RunContext /\ bus' \in Seq(Event)
  BY <1>2, JobFinishedKeepsTypes DEF JobRedelivered
<1>. QED  BY <1>1, <1>3 DEF TypeOK, JobRedelivered

LEMMA BranchValueResolvedKeepsTypes ==
    ASSUME TypeOK, NEW s \in Steps, NEW outcome \in Outcomes, NEW value \in BranchValues,
           BranchValueResolved(s, outcome, value)
    PROVE  TypeOK'
<1>. DEFINE case == IF outcome = "success" THEN MatchedCase(s, value) ELSE None
<1>1. run' \in RunContext
  BY SettleType DEF TypeOK, BranchValueResolved
<1>2. case \in Steps \cup {None, Inherited}
  BY DefType DEF MatchedCase, TypeOK
<1>3. bus' = Append(bus, Ended(s, outcome, case))
  BY DEF BranchValueResolved
<1>. HIDE DEF case
<1>4. bus' \in Seq(Event)
  BY <1>2, <1>3, EventsMade, AppendProperties DEF TypeOK
<1>5. branching[s] - 1 \in Nat
  BY DEF TypeOK, BranchValueResolved
<1>6. branching' \in [Steps -> Nat]
  BY <1>5 DEF TypeOK, BranchValueResolved
<1>. QED  BY <1>1, <1>4, <1>6 DEF TypeOK, BranchValueResolved, jobVars

LEMMA StepFinishedKeepsTypes == TypeOK /\ StepFinished => TypeOK'
<1>. SUFFICES ASSUME TypeOK, StepFinished PROVE TypeOK'
  OBVIOUS
<1>. DEFINE fresh == NewlyPlanned(run, run')
            end == IF run'.outstanding # 0 THEN <<>>
                   ELSE CASE run'.status = "completed" -> <<Ev("run.completed")>>
                          [] run'.status = "failed" -> <<Ev("run.failed")>>
                          [] OTHER -> <<>>
<1>1. Tail(bus) \in Seq(Event)
  BY BusParts DEF TypeOK, StepFinished, Handles
<1>2. run' \in RunContext
  BY FinishedIs DEF TypeOK, StepFinished
<1>3. fresh \in SUBSET Steps
  BY <1>2, RunFields DEF NewlyPlanned
<1>4. PICK planned \in PlannedEvents(fresh) : bus' = Tail(bus) \o planned \o end
  BY DEF StepFinished
<1>5. Announcing(end)
  BY DEF StepFinished
<1>6. end \in Seq(Event)
  BY EventsMade
<1>. HIDE DEF fresh, end
<1>7. planned \in Seq(Event)
  BY <1>3, <1>4, PlannedListed, EventsMade, SeqMonotonic
<1>8. bus' \in Seq(Event)
  BY <1>1, <1>4, <1>6, <1>7, ConcatProperties
<1>9. announced' \in [Announcements -> Nat]
  BY <1>5, AnnounceType DEF Announcing, TypeOK
<1>. QED  BY <1>2, <1>8, <1>9 DEF TypeOK, StepFinished, jobVars

LEMMA RunFinishedKeepsTypes == TypeOK /\ RunFinished => TypeOK'
<1>. SUFFICES ASSUME TypeOK, RunFinished PROVE TypeOK'
  OBVIOUS
<1>1. bus' \in Seq(Event)
  BY BusParts DEF TypeOK, RunFinished, Handles
<1>2. announced' \in [Announcements -> Nat]
  BY AnnounceType DEF TypeOK, RunFinished
<1>. QED  BY <1>1, <1>2 DEF TypeOK, RunFinished, jobVars

LEMMA StepKeepsTypes == TypeOK /\ [Next]_vars => TypeOK'
<1>. SUFFICES ASSUME TypeOK, [Next]_vars PROVE TypeOK'
  OBVIOUS
<1>1. CASE UNCHANGED vars
  BY <1>1 DEF TypeOK, vars
<1>2. CASE Deliver
  BY <1>2, RunRequestedKeepsTypes, RunStartedKeepsTypes, StepReusedKeepsTypes,
     StepPlannedKeepsTypes, BranchValueMissingKeepsTypes, StepStartedKeepsTypes,
     StepFinishedKeepsTypes, RunFinishedKeepsTypes, Zenon DEF Deliver
<1>. QED
  BY <1>1, <1>2, RequestKeepsTypes, LoadedKeepsTypes, JobAnsweredKeepsTypes,
     JobRedeliveredKeepsTypes, BranchValueResolvedKeepsTypes, Zenon
     DEF Next, JobAnswers, BranchResolves

(* Type correctness of the engine's run, its bus and its jobs.             *)
THEOREM EngineTyped == Spec => []TypeOK
<1>1. TypeOK /\ [Next]_vars => TypeOK'
  BY StepKeepsTypes
<1>. QED  BY <1>1, InitType, PTL DEF Spec

-----------------------------------------------------------------------------

(* What a bus holds.                                                       *)
PlansIn(q, s) == Count(q, {StepEv("step.planned", s)})
StartsIn(q, s) == Count(q, {StepEv("step.started", s)})
EndsIn(q) == Count(q, EndEvent)
BeginsIn(q) == Count(q, {Ev("run.started")})

One(p) == IF p THEN 1 ELSE 0

LEMMA TallyType ==
    ASSUME NEW q \in Seq(Event)
    PROVE  /\ \A s \in Steps : PlansIn(q, s) \in Nat /\ StartsIn(q, s) \in Nat
           /\ EndsIn(q) \in Nat /\ BeginsIn(q) \in Nat
BY CountFinite DEF PlansIn, StartsIn, EndsIn, BeginsIn

(* An event and the kinds the tally is about.                              *)
LEMMA KindOf ==
    ASSUME NEW e \in Event
    PROVE  /\ \A s \in Steps : /\ e \in {StepEv("step.planned", s)}
                                    <=> e.type = "step.planned" /\ e.step = s
                               /\ e \in {StepEv("step.started", s)}
                                    <=> e.type = "step.started" /\ e.step = s
           /\ e \in EndEvent <=> e.type \in {"step.completed", "step.failed", "step.reused"}
           /\ e \in {Ev("run.started")} <=> e.type = "run.started"
BY EventKinds DEF StepEv, Ev

LEMMA TallyTail ==
    ASSUME NEW q \in Seq(Event), q # <<>>
    PROVE  LET e == Head(q) IN
           /\ \A s \in Steps :
                /\ PlansIn(q, s) = PlansIn(Tail(q), s)
                                     + One(e.type = "step.planned" /\ e.step = s)
                /\ StartsIn(q, s) = StartsIn(Tail(q), s)
                                      + One(e.type = "step.started" /\ e.step = s)
           /\ EndsIn(q) = EndsIn(Tail(q))
                 + One(e.type \in {"step.completed", "step.failed", "step.reused"})
           /\ BeginsIn(q) = BeginsIn(Tail(q)) + One(e.type = "run.started")
<1>1. Head(q) \in Event
  BY HeadTailProperties
<1>2. \A T : Count(q, T) = Count(Tail(q), T) + (IF Head(q) \in T THEN 1 ELSE 0)
  BY CountTail
<1>. QED  BY <1>1, <1>2, KindOf DEF PlansIn, StartsIn, EndsIn, BeginsIn, One

(* Handling an event of the run itself takes no step event off the bus.    *)
LEMMA TallyRunEvent ==
    ASSUME NEW q \in Seq(Event), q # <<>>,
           Head(q).type \in {"run.requested", "run.started", "run.completed", "run.failed"}
    PROVE  /\ Tail(q) \in Seq(Event)
           /\ \A s \in Steps : /\ PlansIn(Tail(q), s) = PlansIn(q, s)
                               /\ StartsIn(Tail(q), s) = StartsIn(q, s)
           /\ EndsIn(Tail(q)) = EndsIn(q)
           /\ BeginsIn(q) = BeginsIn(Tail(q)) + One(Head(q).type = "run.started")
<1>. DEFINE e == Head(q)
<1>1. Tail(q) \in Seq(Event)
  BY HeadTailProperties
<1>2. /\ e.type # "step.planned" /\ e.type # "step.started"
      /\ e.type \notin {"step.completed", "step.failed", "step.reused"}
  OBVIOUS
<1>3. /\ \A s \in Steps :
           /\ PlansIn(q, s) = PlansIn(Tail(q), s) + One(e.type = "step.planned" /\ e.step = s)
           /\ StartsIn(q, s) = StartsIn(Tail(q), s) + One(e.type = "step.started" /\ e.step = s)
      /\ EndsIn(q) = EndsIn(Tail(q))
            + One(e.type \in {"step.completed", "step.failed", "step.reused"})
      /\ BeginsIn(q) = BeginsIn(Tail(q)) + One(e.type = "run.started")
  BY TallyTail
<1>. HIDE DEF e
<1>4. /\ \A s \in Steps : /\ One(e.type = "step.planned" /\ e.step = s) = 0
                          /\ One(e.type = "step.started" /\ e.step = s) = 0
      /\ One(e.type \in {"step.completed", "step.failed", "step.reused"}) = 0
  BY <1>2 DEF One
<1>5. /\ \A s \in Steps : PlansIn(Tail(q), s) \in Nat /\ StartsIn(Tail(q), s) \in Nat
      /\ EndsIn(Tail(q)) \in Nat
  BY <1>1, TallyType
<1>6. /\ \A s \in Steps : /\ PlansIn(Tail(q), s) = PlansIn(q, s)
                          /\ StartsIn(Tail(q), s) = StartsIn(q, s)
      /\ EndsIn(Tail(q)) = EndsIn(q)
  BY <1>3, <1>4, <1>5
<1>. QED  BY <1>1, <1>3, <1>6 DEF e

LEMMA TallyAppend ==
    ASSUME NEW q \in Seq(Event), NEW e \in Event
    PROVE  /\ Append(q, e) \in Seq(Event)
           /\ \A s \in Steps :
                /\ PlansIn(Append(q, e), s)
                     = PlansIn(q, s) + One(e.type = "step.planned" /\ e.step = s)
                /\ StartsIn(Append(q, e), s)
                     = StartsIn(q, s) + One(e.type = "step.started" /\ e.step = s)
           /\ EndsIn(Append(q, e)) = EndsIn(q)
                + One(e.type \in {"step.completed", "step.failed", "step.reused"})
           /\ BeginsIn(Append(q, e)) = BeginsIn(q) + One(e.type = "run.started")
<1>1. \A T : Count(Append(q, e), T) = Count(q, T) + (IF e \in T THEN 1 ELSE 0)
  BY CountAppend
<1>2. Append(q, e) \in Seq(Event)
  BY AppendProperties
<1>. QED  BY <1>1, <1>2, KindOf DEF PlansIn, StartsIn, EndsIn, BeginsIn, One

LEMMA AppendEnd ==
    ASSUME NEW q \in Seq(Event), NEW e \in EndEvent
    PROVE  LET new == Append(q, e) IN
           /\ new \in Seq(Event)
           /\ \A s \in Steps : PlansIn(new, s) = PlansIn(q, s) /\ StartsIn(new, s) = StartsIn(q, s)
           /\ EndsIn(new) = EndsIn(q) + 1 /\ BeginsIn(new) = BeginsIn(q)
<1>1. e \in Event
  BY EventsMade
<1>2. \A T : Count(Append(q, e), T) = Count(q, T) + (IF e \in T THEN 1 ELSE 0)
  BY <1>1, CountAppend
<1>3. \A T : Count(q, T) \in Nat
  BY CountFinite
<1>4. \A T : e \notin T => Count(Append(q, e), T) = Count(q, T)
  BY <1>2, <1>3
<1>5. /\ \A s \in Steps : e \notin {StepEv("step.planned", s)} /\ e \notin {StepEv("step.started", s)}
      /\ e \notin {Ev("run.started")}
  BY <1>1, KindOf
<1>. QED  BY <1>1, <1>2, <1>4, <1>5, AppendProperties DEF PlansIn, StartsIn, EndsIn, BeginsIn

LEMMA AppendStart ==
    ASSUME NEW q \in Seq(Event), NEW s \in Steps
    PROVE  LET new == Append(q, StepEv("step.started", s)) IN
           /\ new \in Seq(Event)
           /\ \A x \in Steps : PlansIn(new, x) = PlansIn(q, x)
           /\ \A x \in Steps \ {s} : StartsIn(new, x) = StartsIn(q, x)
           /\ StartsIn(new, s) = StartsIn(q, s) + 1
           /\ EndsIn(new) = EndsIn(q) /\ BeginsIn(new) = BeginsIn(q)
<1>. DEFINE e == StepEv("step.started", s)
<1>1. e \in Event /\ e.type = "step.started" /\ e.step = s
  BY EventsMade DEF StepEv
<1>. HIDE DEF e
<1>2. \A T : Count(Append(q, e), T) = Count(q, T) + (IF e \in T THEN 1 ELSE 0)
  BY <1>1, CountAppend
<1>3. \A T : Count(q, T) \in Nat
  BY CountFinite
<1>4. \A T : e \notin T => Count(Append(q, e), T) = Count(q, T)
  BY <1>2, <1>3
<1>5. /\ \A x \in Steps : e \notin {StepEv("step.planned", x)}
      /\ \A x \in Steps \ {s} : e \notin {StepEv("step.started", x)}
      /\ e \in {StepEv("step.started", s)}
      /\ e \notin {Ev("run.started")} /\ e \notin EndEvent
  BY <1>1, KindOf
<1>6. Append(q, e) \in Seq(Event)
  BY <1>1, AppendProperties
<1>7. /\ \A x \in Steps : PlansIn(Append(q, e), x) = PlansIn(q, x)
      /\ \A x \in Steps \ {s} : StartsIn(Append(q, e), x) = StartsIn(q, x)
      /\ StartsIn(Append(q, e), s) = StartsIn(q, s) + 1
      /\ EndsIn(Append(q, e)) = EndsIn(q) /\ BeginsIn(Append(q, e)) = BeginsIn(q)
  BY <1>2, <1>4, <1>5 DEF PlansIn, StartsIn, EndsIn, BeginsIn
<1>. QED  BY <1>6, <1>7 DEF e

LEMMA AppendPlan ==
    ASSUME NEW q \in Seq(Event), NEW s \in Steps
    PROVE  LET new == Append(q, StepEv("step.planned", s)) IN
           /\ new \in Seq(Event)
           /\ \A x \in Steps : StartsIn(new, x) = StartsIn(q, x)
           /\ \A x \in Steps \ {s} : PlansIn(new, x) = PlansIn(q, x)
           /\ PlansIn(new, s) = PlansIn(q, s) + 1
           /\ EndsIn(new) = EndsIn(q) /\ BeginsIn(new) = BeginsIn(q)
<1>. DEFINE e == StepEv("step.planned", s)
<1>1. e \in Event /\ e.type = "step.planned" /\ e.step = s
  BY EventsMade DEF StepEv
<1>. HIDE DEF e
<1>2. \A T : Count(Append(q, e), T) = Count(q, T) + (IF e \in T THEN 1 ELSE 0)
  BY <1>1, CountAppend
<1>3. \A T : Count(q, T) \in Nat
  BY CountFinite
<1>4. \A T : e \notin T => Count(Append(q, e), T) = Count(q, T)
  BY <1>2, <1>3
<1>5. /\ \A x \in Steps : e \notin {StepEv("step.started", x)}
      /\ \A x \in Steps \ {s} : e \notin {StepEv("step.planned", x)}
      /\ e \in {StepEv("step.planned", s)}
      /\ e \notin {Ev("run.started")} /\ e \notin EndEvent
  BY <1>1, KindOf
<1>6. Append(q, e) \in Seq(Event)
  BY <1>1, AppendProperties
<1>7. /\ \A x \in Steps : StartsIn(Append(q, e), x) = StartsIn(q, x)
      /\ \A x \in Steps \ {s} : PlansIn(Append(q, e), x) = PlansIn(q, x)
      /\ PlansIn(Append(q, e), s) = PlansIn(q, s) + 1
      /\ EndsIn(Append(q, e)) = EndsIn(q) /\ BeginsIn(Append(q, e)) = BeginsIn(q)
  BY <1>2, <1>4, <1>5 DEF PlansIn, StartsIn, EndsIn, BeginsIn
<1>. QED  BY <1>6, <1>7 DEF e

LEMMA TallyConcat ==
    ASSUME NEW p \in Seq(Event), NEW q \in Seq(Event)
    PROVE  /\ p \o q \in Seq(Event)
           /\ \A s \in Steps : /\ PlansIn(p \o q, s) = PlansIn(p, s) + PlansIn(q, s)
                               /\ StartsIn(p \o q, s) = StartsIn(p, s) + StartsIn(q, s)
           /\ EndsIn(p \o q) = EndsIn(p) + EndsIn(q)
           /\ BeginsIn(p \o q) = BeginsIn(p) + BeginsIn(q)
<1>1. \A T : Count(p \o q, T) = Count(p, T) + Count(q, T)
  BY CountConcat
<1>2. p \o q \in Seq(Event)
  BY ConcatProperties
<1>. QED  BY <1>1, <1>2 DEF PlansIn, StartsIn, EndsIn, BeginsIn

LEMMA TallyEmpty ==
    /\ \A s \in Steps : PlansIn(<<>>, s) = 0 /\ StartsIn(<<>>, s) = 0
    /\ EndsIn(<<>>) = 0 /\ BeginsIn(<<>>) = 0
BY CountEmpty DEF PlansIn, StartsIn, EndsIn, BeginsIn

LEMMA TallyPlanned ==
    ASSUME NEW ids \in SUBSET Steps, NEW evs \in PlannedEvents(ids)
    PROVE  /\ evs \in Seq(Event)
           /\ \A s \in Steps : PlansIn(evs, s) = One(s \in ids) /\ StartsIn(evs, s) = 0
           /\ EndsIn(evs) = 0 /\ BeginsIn(evs) = 0
<1>1. /\ evs \in Seq(Event)
      /\ \A i \in DOMAIN evs : evs[i].type = "step.planned" /\ evs[i] \in Event
      /\ \A s \in Steps : PlansIn(evs, s) = One(s \in ids)
  <2>1. evs \in Seq(Event)
    BY PlannedListed, EventsMade, SeqMonotonic
  <2>2. \A i \in DOMAIN evs : evs[i].type = "step.planned" /\ evs[i] \in Event
    BY <2>1, PlannedListed, ElementOfSeq DEF StepEv
  <2>. QED  BY <2>1, <2>2, PlannedListed DEF PlansIn, One
<1>2. /\ \A s \in Steps, i \in DOMAIN evs : evs[i] \notin {StepEv("step.started", s)}
      /\ \A i \in DOMAIN evs : evs[i] \notin EndEvent /\ evs[i] \notin {Ev("run.started")}
  BY <1>1, KindOf
<1>. QED  BY <1>1, <1>2, CountZero DEF StartsIn, EndsIn, BeginsIn

LEMMA TallyCompleted ==
    ASSUME NEW ids \in SUBSET Steps, NEW evs \in CompletedEvents(ids)
    PROVE  /\ evs \in Seq(Event)
           /\ \A s \in Steps : PlansIn(evs, s) = 0 /\ StartsIn(evs, s) = 0
           /\ EndsIn(evs) = Cardinality(ids) /\ BeginsIn(evs) = 0
<1>1. /\ evs \in Seq(Event)
      /\ \A i \in DOMAIN evs : evs[i].type = "step.completed" /\ evs[i] \in Event
      /\ EndsIn(evs) = Cardinality(ids)
  <2>1. evs \in Seq(Event)
    BY CompletedListed, EventsMade, SeqMonotonic
  <2>2. \A i \in DOMAIN evs : evs[i].type = "step.completed" /\ evs[i] \in Event
    BY <2>1, CompletedListed, ElementOfSeq DEF Ended
  <2>. QED  BY <2>1, <2>2, CompletedListed DEF EndsIn
<1>2. /\ \A s \in Steps, i \in DOMAIN evs : /\ evs[i] \notin {StepEv("step.planned", s)}
                                            /\ evs[i] \notin {StepEv("step.started", s)}
      /\ \A i \in DOMAIN evs : evs[i] \notin {Ev("run.started")}
  BY <1>1, KindOf
<1>. QED  BY <1>1, <1>2, CountZero DEF PlansIn, StartsIn, BeginsIn

-----------------------------------------------------------------------------
(* The invariant.                                                          *)

Untouched(s) == submitted[s] = 0 /\ branching[s] = 0 /\ answers[s] = <<>>
Verdict(outcome) == IF outcome = "success" THEN "completed" ELSE "failed"
Asleep(s) == run.step[s] \in {"none", "initialized"}

(* The life of a step: its events on the bus, its job and its answers are  *)
(* those of its status.                                                    *)
Life(s) ==
    /\ Asleep(s) => PlansIn(bus, s) = 0 /\ StartsIn(bus, s) = 0 /\ Untouched(s)
    /\ run.step[s] = "planned" =>
          PlansIn(bus, s) = 1 /\ StartsIn(bus, s) = 0 /\ Untouched(s)
    /\ run.step[s] = "started" =>
          /\ PlansIn(bus, s) = 0 /\ StartsIn(bus, s) <= 1 /\ answers[s] = <<>>
          /\ submitted[s] <= 1 /\ branching[s] <= 1
    /\ Over(s) =>
          /\ PlansIn(bus, s) = 0 /\ StartsIn(bus, s) <= 1 /\ branching[s] = 0
          /\ submitted[s] <= 1 /\ Len(answers[s]) = submitted[s]
          /\ \A i \in DOMAIN answers[s] : Verdict(answers[s][i]) = run.step[s]
    /\ StartsIn(bus, s) > 0 /\ Def(s).type # "branch" => run.step[s] = "started"
    /\ submitted[s] > 0 => Def(s).type = "job"
    /\ branching[s] > 0 => Def(s).type = "branch"
    /\ Def(s).type = "join" => run.step[s] \notin {"planned", "started"}

(* The sets of the run context say what the statuses say.                  *)
Indexed(s) == /\ s \in run.plannedSteps <=> run.step[s] = "planned"
              /\ s \in run.completedSteps => run.step[s] = "completed"

(* Until a parallel's step.started is handled its children are asleep.     *)
FamilyAsleep(p) ==
    run.step[p] \in {"none", "initialized", "planned"} \/ StartsIn(bus, p) > 0 =>
        \A c \in Steps : ParallelEdge(p, c) => Asleep(c)

(* A join is what its inputs made it.                                      *)
JoinDecided(j) ==
    Def(j).type = "join" =>
        /\ run.step[j] = "completed" => \A s \in Def(j).steps : run.step[s] = "completed"
        /\ run.step[j] = "failed" => \E s \in Def(j).steps : run.step[s] = "failed"

(* Before the run starts nothing is going on, and its start comes first.   *)
Opening ==
    /\ load # "none" => run.status = "requested"
    /\ run.status \in {"absent", "requested"} => announced["run.started"] = 0
    /\ announced["run.started"] <= 1
    /\ announced["run.started"] = 0 =>
         /\ \A s \in Steps : run.step[s] = "none"
         /\ EndsIn(bus) = 0 /\ BeginsIn(bus) = 0 /\ run.status # "completed"
    /\ BeginsIn(bus) <= 1
    /\ BeginsIn(bus) = 1 => /\ run.status = "started" /\ EndsIn(bus) = 0
                            /\ \A s \in Steps : run.step[s] = "initialized"

Living == {s \in Steps : Live(s)}
Counter == run.outstanding = Cardinality(Living) + EndsIn(bus)

(* A run that is over has nothing left to do.                              *)
Closing ==
    /\ run.status \in {"completed", "failed"} =>
         BeginsIn(bus) = 0 /\ EndsIn(bus) = 0 /\ \A s \in Steps : ~Live(s)
    /\ Ends > 0 => run.status \in {"completed", "failed"}
    /\ Ends <= announced["run.started"]

Lives == /\ \A s \in Steps : Life(s) /\ Indexed(s) /\ FamilyAsleep(s) /\ JoinDecided(s)
         /\ Opening /\ Counter /\ Closing

(* What a step may never do to what is over.                               *)
Kept == /\ \A s \in Steps : Over(s) => run'.step[s] = run.step[s]
        /\ run.status \in {"completed", "failed"} => run'.status = run.status

EngineInv == TypeOK /\ flow \in Flows /\ (ParallelsOwnChildren => Lives)

-----------------------------------------------------------------------------
(* What a step leaves alone stays as the invariant has it.                 *)

SameStep(s) == /\ run'.step[s] = run.step[s]
               /\ PlansIn(bus', s) = PlansIn(bus, s) /\ StartsIn(bus', s) = StartsIn(bus, s)
               /\ submitted'[s] = submitted[s] /\ branching'[s] = branching[s]
               /\ answers'[s] = answers[s]
               /\ s \in run'.plannedSteps <=> s \in run.plannedSteps
               /\ s \in run'.completedSteps =>
                     s \in run.completedSteps \/ run.step[s] = "completed"

LEMMA LifeFrame ==
    ASSUME NEW s \in Steps, flow' = flow, SameStep(s), Life(s), Indexed(s)
    PROVE  Life(s)' /\ Indexed(s)'
<1>1. /\ Asleep(s)' <=> Asleep(s)
      /\ Over(s)' <=> Over(s)
      /\ Def(s)' = Def(s)
  BY DEF SameStep, Asleep, Over, Def
<1>2. Life(s)'
  BY <1>1 DEF SameStep, Life, Untouched
<1>3. Indexed(s)'
  BY DEF SameStep, Indexed
<1>. QED  BY <1>2, <1>3

Still == /\ flow' = flow
         /\ \A s \in Steps : SameStep(s)
         /\ run'.outstanding = run.outstanding /\ EndsIn(bus') = EndsIn(bus)

LEMMA StillLives ==
    ASSUME TypeOK, Lives, Still
    PROVE  /\ \A s \in Steps : (Life(s) /\ Indexed(s) /\ FamilyAsleep(s) /\ JoinDecided(s))'
           /\ Counter'
<1>1. \A s \in Steps : Life(s)' /\ Indexed(s)'
  BY LifeFrame DEF Lives, Still
<1>2. \A s \in Steps : /\ run'.step[s] = run.step[s]
                       /\ Asleep(s)' <=> Asleep(s)
                       /\ Live(s)' <=> Live(s)
                       /\ StartsIn(bus', s) = StartsIn(bus, s)
                       /\ Def(s)' = Def(s) /\ Def(s).steps \subseteq Steps
                       /\ \A c \in Steps : ParallelEdge(s, c)' <=> ParallelEdge(s, c)
  BY DefType DEF Still, SameStep, Asleep, Live, Def, ParallelEdge, TypeOK
<1>3. \A s \in Steps : FamilyAsleep(s)'
  BY <1>2 DEF Lives, FamilyAsleep
<1>4. \A s \in Steps : JoinDecided(s)'
  BY <1>2 DEF Lives, JoinDecided
<1>5. Counter'
  <2>1. Living' = Living
    BY <1>2 DEF Living
  <2>. QED  BY <2>1 DEF Lives, Counter, Still
<1>. QED  BY <1>1, <1>3, <1>4, <1>5

(* What the actions do besides, which says why a run at rest has ended.    *)
Quiet == Still /\ BeginsIn(bus') = BeginsIn(bus)
RunBegins == /\ run'.status = "started" /\ run'.outstanding # 0
             /\ \A s \in Steps : run'.step[s] \in {"initialized", "planned"}
StartSeen(s) == /\ StartsIn(bus', s) = 0 /\ BeginsIn(bus') = BeginsIn(bus)
                /\ \A x \in Steps \ {s} : StartsIn(bus', x) = StartsIn(bus, x)
EndSeen == /\ announced'["run.started"] = announced["run.started"]
           /\ \A s \in Steps : StartsIn(bus', s) = StartsIn(bus, s)
           /\ run'.status = "started" => run'.outstanding # 0
           /\ run'.status \in {"completed", "failed"} => Ends' > 0

-----------------------------------------------------------------------------
(* Before the run.                                                         *)

LEMMA RequestLives ==
    ASSUME TypeOK, Lives, NEW t \in Traces, NEW fork \in Forks \cup {NoFork}, Request(t, fork)
    PROVE  Lives' /\ Kept /\ Quiet
<1>. DEFINE e == [type |-> "run.requested", trace |-> t, fork |-> fork]
<1>1. e \in Event /\ bus' = Append(bus, e) /\ e.type = "run.requested" /\ bus \in Seq(Event)
  BY DEF Event, RequestEvent, Request, TypeOK
<1>. HIDE DEF e
<1>2. /\ \A s \in Steps : PlansIn(bus', s) = PlansIn(bus, s) /\ StartsIn(bus', s) = StartsIn(bus, s)
      /\ EndsIn(bus') = EndsIn(bus) /\ BeginsIn(bus') = BeginsIn(bus)
  BY <1>1, TallyAppend, TallyType DEF One
<1>3. Still
  BY <1>2 DEF Still, SameStep, Request, jobVars
<1>4. Opening' /\ Closing'
  BY <1>2 DEF Lives, Opening, Closing, Live, Ends, Request
<1>5. Kept
  BY DEF Kept, Request
<1>. QED  BY <1>2, <1>3, <1>4, <1>5, StillLives DEF Lives, Quiet

LEMMA RunRequestedLives ==
    ASSUME TypeOK, Lives, RunRequested
    PROVE  Lives' /\ Kept /\ Quiet
<1>1. /\ bus \in Seq(Event) /\ bus # <<>> /\ Head(bus).type = "run.requested"
      /\ bus' = Tail(bus) /\ bus' \in Seq(Event)
  BY BusParts DEF RunRequested, Handles, TypeOK
<1>2. /\ \A s \in Steps : PlansIn(bus', s) = PlansIn(bus, s) /\ StartsIn(bus', s) = StartsIn(bus, s)
      /\ EndsIn(bus') = EndsIn(bus) /\ BeginsIn(bus') = BeginsIn(bus)
  <2>1. One(Head(bus).type = "run.started") = 0
    BY <1>1 DEF One
  <2>1a. BeginsIn(bus) = BeginsIn(bus') + One(Head(bus).type = "run.started")
    BY <1>1, TallyRunEvent
  <2>1b. BeginsIn(bus') \in Nat
    BY <1>1, TallyType
  <2>2. BeginsIn(bus) = BeginsIn(bus')
    BY <2>1, <2>1a, <2>1b
  <2>. QED  BY <1>1, <2>2, TallyRunEvent
<1>3. /\ run'.step = run.step /\ run'.outstanding = run.outstanding
      /\ run'.plannedSteps = run.plannedSteps /\ run'.completedSteps = run.completedSteps
      /\ \/ run'.status = run.status
         \/ run.status = "absent" /\ run'.status = "requested"
  BY DEF RunRequested, RunRequestedReducer, TypeOK, RunContext
<1>4. Still
  BY <1>2, <1>3 DEF Still, SameStep, RunRequested, jobVars
<1>5. /\ announced'["run.started"] = announced["run.started"]
      /\ announced'["run.completed"] = announced["run.completed"]
      /\ announced'["run.failed"] = announced["run.failed"]
  BY DEF RunRequested, Announce, Announcements, TypeOK
<1>6. load' # "none" => run'.status = "requested"
  BY <1>3 DEF RunRequested, Lives, Opening
<1>7. Opening' /\ Closing'
  BY <1>2, <1>3, <1>5, <1>6 DEF Lives, Opening, Closing, Live, Ends
<1>8. Kept
  BY <1>3 DEF Kept
<1>. QED  BY <1>2, <1>4, <1>7, <1>8, StillLives DEF Lives, Quiet

(* While a load is in flight nothing has begun.                            *)
LEMMA LoadingIsQuiet ==
    ASSUME TypeOK, Lives, load # "none"
    PROVE  /\ run.status = "requested" /\ announced["run.started"] = 0 /\ Ends = 0
           /\ EndsIn(bus) = 0 /\ BeginsIn(bus) = 0
           /\ \A s \in Steps : /\ run.step[s] = "none" /\ s \notin run.plannedSteps
                               /\ s \notin run.completedSteps /\ ~Live(s)
<1>1. /\ run.status = "requested" /\ announced["run.started"] = 0
      /\ EndsIn(bus) = 0 /\ BeginsIn(bus) = 0
      /\ \A s \in Steps : run.step[s] = "none"
  BY DEF Lives, Opening
<1>2. Ends = 0
  BY <1>1 DEF Lives, Closing, Ends, TypeOK, Announcements
<1>3. \A s \in Steps : /\ s \notin run.plannedSteps /\ s \notin run.completedSteps /\ ~Live(s)
  BY <1>1 DEF Lives, Indexed, Live
<1>. QED  BY <1>1, <1>2, <1>3

(* A run that fails to load is over without having begun.                  *)
LEMMA LoadFailedLives ==
    ASSUME TypeOK, Lives, load # "none", load' = "none", flow' = flow, bus' = bus,
           run' = [run EXCEPT !.status = "failed"], Announce({"run.denied"}),
           UNCHANGED <<branching, submitted, answers>>
    PROVE  Lives' /\ Kept
<1>1. /\ run.status = "requested" /\ announced["run.started"] = 0 /\ Ends = 0
      /\ EndsIn(bus) = 0 /\ BeginsIn(bus) = 0
      /\ \A s \in Steps : run.step[s] = "none" /\ ~Live(s)
  BY LoadingIsQuiet
<1>2. /\ run'.step = run.step /\ run'.outstanding = run.outstanding
      /\ run'.plannedSteps = run.plannedSteps /\ run'.completedSteps = run.completedSteps
      /\ run'.status = "failed"
  BY DEF TypeOK, RunContext
<1>3. Still
  BY <1>2 DEF Still, SameStep
<1>4. /\ announced'["run.started"] = announced["run.started"] /\ Ends' = Ends
  BY DEF Announce, Announcements, TypeOK, Ends
<1>5. Opening' /\ Closing'
  BY <1>1, <1>2, <1>4 DEF Opening, Closing, Live
<1>6. Kept
  BY <1>1, <1>2 DEF Kept
<1>. QED  BY <1>3, <1>5, <1>6, StillLives DEF Lives

LEMMA MakeRunPlanLives ==
    ASSUME TypeOK, Lives, load # "none", flow' = flow, NEW valid, NEW data,
           MakeRunPlan(valid, data), UNCHANGED <<branching, submitted, answers>>
    PROVE  Lives' /\ Kept
<1>1. CASE SelfReferenced \/ ~valid
  <2>1. run' = [run EXCEPT !.status = "failed"] /\ run'.status = "failed"
    BY <1>1 DEF MakeRunPlan, MakeRunPlanReducer, TypeOK, RunContext
  <2>2. bus' = bus /\ load' = "none" /\ Announce({"run.denied"})
    BY <2>1 DEF MakeRunPlan, Ev
  <2>. QED  BY <2>1, <2>2, LoadFailedLives
<1>2. CASE ~(SelfReferenced \/ ~valid)
  <2>1. /\ run.status = "requested" /\ announced["run.started"] = 0 /\ Ends = 0
        /\ EndsIn(bus) = 0 /\ BeginsIn(bus) = 0
        /\ \A s \in Steps : /\ run.step[s] = "none" /\ s \notin run.plannedSteps
                            /\ s \notin run.completedSteps /\ ~Live(s)
    BY LoadingIsQuiet
  <2>2. /\ run'.status = "started" /\ run'.outstanding = run.outstanding
        /\ \A s \in Steps : run'.step[s] = "initialized"
        /\ run'.plannedSteps = run.plannedSteps /\ run'.completedSteps = run.completedSteps
    BY <1>2 DEF MakeRunPlan, MakeRunPlanReducer, TypeOK, RunContext
  <2>3. bus' = Append(bus, Ev("run.started")) /\ load' = "none" /\ Announce({"run.started"})
    BY <2>2 DEF MakeRunPlan, Ev
  <2>4. Ev("run.started") \in Event /\ Ev("run.started").type = "run.started" /\ bus \in Seq(Event)
    BY EventsMade DEF Ev, TypeOK
  <2>5. /\ \A s \in Steps : /\ PlansIn(bus', s) = PlansIn(bus, s)
                            /\ StartsIn(bus', s) = StartsIn(bus, s)
        /\ EndsIn(bus') = 0 /\ BeginsIn(bus') = 1
    BY <2>1, <2>3, <2>4, TallyAppend, TallyType DEF One
  <2>6. announced'["run.started"] = 1 /\ Ends' = 0
    BY <2>1, <2>3 DEF Announce, Announcements, TypeOK, Ends
  <2>7. \A s \in Steps : /\ Asleep(s) /\ Asleep(s)' /\ ~Over(s)' /\ ~Live(s)'
                         /\ run'.step[s] \notin {"planned", "started", "completed", "failed"}
    BY <2>1, <2>2 DEF Asleep, Over, Live
  <2>8. \A s \in Steps : Life(s)'
    BY <2>2, <2>5, <2>7, TallyType DEF Lives, Life, Untouched, Def, TypeOK
  <2>9. \A s \in Steps : (Indexed(s) /\ FamilyAsleep(s) /\ JoinDecided(s))'
    BY <2>1, <2>2, <2>7 DEF Indexed, FamilyAsleep, JoinDecided
  <2>10. Counter'
    <3>1. Living = {} /\ Living' = {}
      BY <2>1, <2>7 DEF Living
    <3>. QED  BY <2>1, <2>2, <2>5, <3>1 DEF Lives, Counter
  <2>11. Opening' /\ Closing'
    BY <2>2, <2>3, <2>5, <2>6 DEF Opening, Closing
  <2>12. Kept
    BY <2>1 DEF Kept, Over
  <2>. QED  BY <2>8, <2>9, <2>10, <2>11, <2>12 DEF Lives
<1>. QED  BY <1>1, <1>2

LEMMA LoadedLives ==
    ASSUME TypeOK, Lives, Loaded
    PROVE  Lives' /\ Kept
<1>1. CASE LoadFailed
  BY <1>1, LoadFailedLives DEF LoadFailed, LoadFailedReducer, jobVars
<1>2. ASSUME UNCHANGED <<flow, run, bus, branching, submitted, answers, announced>>,
             load # "none", load' # "none"
      PROVE  Lives' /\ Kept
  <2>1. Still
    BY <1>2 DEF Still, SameStep
  <2>2. Opening' /\ Closing'
    BY <1>2 DEF Lives, Opening, Closing, Live, Ends
  <2>3. Kept
    BY <1>2 DEF Kept
  <2>. QED  BY <2>1, <2>2, <2>3, StillLives DEF Lives
<1>3. CASE ForkSpecLoaded
  BY <1>2, <1>3 DEF ForkSpecLoaded, jobVars
<1>4. ASSUME NEW valid \in BOOLEAN, FlowDefLoaded(valid)
      PROVE  Lives' /\ Kept
  BY <1>2, <1>4, MakeRunPlanLives DEF FlowDefLoaded, jobVars
<1>5. ASSUME NEW valid \in BOOLEAN, NEW data \in [Steps -> Outcomes],
             StepDataLoaded(valid, data)
      PROVE  Lives' /\ Kept
  BY <1>5, MakeRunPlanLives DEF StepDataLoaded, jobVars
<1>. QED  BY <1>1, <1>3, <1>4, <1>5 DEF Loaded

-----------------------------------------------------------------------------
(* A step that has woken moves on, alone.                                  *)

MovesOn(s) ==
    /\ flow' = flow /\ load' = load /\ announced' = announced
    /\ run'.status = run.status /\ run'.outstanding = run.outstanding
    /\ \A x \in Steps \ {s} : SameStep(x)
    /\ BeginsIn(bus') = BeginsIn(bus)
    /\ Live(s) /\ run'.step[s] \in {"started", "completed", "failed"}
    /\ Live(s)' => EndsIn(bus') = EndsIn(bus)
    /\ ~Live(s)' => EndsIn(bus') = EndsIn(bus) + 1
    /\ (Life(s) /\ Indexed(s) /\ FamilyAsleep(s))'

LEMMA ShapesOf ==
    ASSUME TypeOK, flow \in Flows
    PROVE  /\ Def(flow.start).type # "join" /\ flow.start \in Steps
           /\ \A s, d \in Steps :
                Def(d).type = "join" => /\ d # Def(s).next /\ d # Def(s).failure
                                        /\ d \notin Def(s).steps
           /\ \A p \in Steps : Def(p).type = "parallel" => Def(p).steps # {}
BY FlowsAssumption DEF JoinsOnlyJoin, ParallelsNotEmpty, TypeOK, FlowDef, Def

LEMMA MovesOnLives ==
    ASSUME TypeOK, flow \in Flows, Lives, NEW s \in Steps, MovesOn(s)
    PROVE  Lives' /\ Kept
<1>1. \A x \in Steps : Life(x)' /\ Indexed(x)'
  <2>1. ASSUME NEW x \in Steps \ {s} PROVE Life(x)' /\ Indexed(x)'
    BY <2>1, LifeFrame DEF MovesOn, Lives
  <2>. QED  BY <2>1 DEF MovesOn
<1>2. /\ run.step[s] \in {"planned", "started"}
      /\ run'.step[s] \in {"started", "completed", "failed"}
      /\ ~Asleep(s) /\ Def(s).type # "join"
  BY DEF MovesOn, Live, Asleep, Lives, Life
<1>3. \A x \in Steps : /\ Def(x)' = Def(x)
                       /\ Def(x).steps \subseteq Steps
                       /\ \A c \in Steps : ParallelEdge(x, c)' <=> ParallelEdge(x, c)
                       /\ x # s => /\ run'.step[x] = run.step[x]
                                   /\ StartsIn(bus', x) = StartsIn(bus, x)
  BY DefType DEF MovesOn, SameStep, Def, ParallelEdge, TypeOK
<1>4. ASSUME NEW p \in Steps PROVE FamilyAsleep(p)'
  <2>1. CASE p = s
    BY <2>1 DEF MovesOn
  <2>2. CASE p # s
    <3>1. SUFFICES ASSUME run.step[p] \in {"none", "initialized", "planned"}
                            \/ StartsIn(bus, p) > 0,
                          NEW c \in Steps, ParallelEdge(p, c)
                   PROVE  Asleep(c)'
      BY <1>3, <2>2 DEF FamilyAsleep
    <3>2. Asleep(c)
      BY <3>1 DEF Lives, FamilyAsleep
    <3>. QED  BY <1>2, <1>3, <3>2 DEF Asleep
  <2>. QED  BY <2>1, <2>2
<1>5. ASSUME NEW j \in Steps PROVE JoinDecided(j)'
  <2>1. SUFFICES ASSUME Def(j).type = "join"
                 PROVE  /\ run'.step[j] = "completed" =>
                              \A x \in Def(j).steps : run'.step[x] = "completed"
                        /\ run'.step[j] = "failed" =>
                              \E x \in Def(j).steps : run'.step[x] = "failed"
    BY <1>3 DEF JoinDecided
  <2>2. /\ run'.step[j] = run.step[j]
        /\ run.step[j] = "completed" => \A x \in Def(j).steps : run.step[x] = "completed"
        /\ run.step[j] = "failed" => \E x \in Def(j).steps : run.step[x] = "failed"
    BY <1>2, <1>3, <2>1 DEF Lives, JoinDecided
  <2>. QED  BY <1>2, <1>3, <2>2
<1>6. Counter'
  <2>1. /\ IsFiniteSet(Living) /\ Cardinality(Living) \in Nat /\ s \in Living
        /\ EndsIn(bus) \in Nat /\ run.outstanding = Cardinality(Living) + EndsIn(bus)
    <3>1. Living \in SUBSET Steps
      BY DEF Living
    <3>. QED  BY <3>1, StepsAssumption, FS_Subset, FS_CardinalityType, TallyType
              DEF MovesOn, Living, Lives, Counter, TypeOK
  <2>2. \A x \in Steps \ {s} : Live(x)' <=> Live(x)
    BY <1>3 DEF Live
  <2>3. CASE Live(s)'
    <3>1. Living' = Living
      BY <2>2, <2>3 DEF Living, MovesOn
    <3>. QED  BY <2>1, <2>3, <3>1 DEF MovesOn, Counter
  <2>4. CASE ~Live(s)'
    <3>1. Living' = Living \ {s}
      BY <2>2, <2>4 DEF Living
    <3>2. Cardinality(Living') = Cardinality(Living) - 1
      BY <2>1, <3>1, FS_RemoveElement
    <3>. QED  BY <2>1, <2>4, <3>2 DEF MovesOn, Counter
  <2>. QED  BY <2>3, <2>4
<1>7. /\ announced["run.started"] # 0 /\ BeginsIn(bus) # 1
      /\ run.status \notin {"completed", "failed"}
  BY <1>2 DEF Lives, Opening, Closing, MovesOn
<1>8. Opening' /\ Closing'
  BY <1>7 DEF Lives, Opening, Closing, MovesOn, Ends
<1>9. Kept
  BY <1>2, <1>3 DEF Kept, MovesOn, Over
<1>. QED  BY <1>1, <1>4, <1>5, <1>6, <1>8, <1>9 DEF Lives

(* A step whose step.planned is on the bus is planned and untouched.       *)
LEMMA PlannedFacts ==
    ASSUME TypeOK, Lives, Handles({"step.planned"}), NEW s, s = Head(bus).step
    PROVE  /\ s \in Steps /\ run.step[s] = "planned" /\ s \in run.plannedSteps
           /\ Tail(bus) \in Seq(Event)
           /\ PlansIn(Tail(bus), s) = 0 /\ StartsIn(Tail(bus), s) = 0
           /\ Untouched(s) /\ s \notin run.completedSteps
           /\ \A x \in Steps \ {s} : /\ PlansIn(Tail(bus), x) = PlansIn(bus, x)
                                     /\ StartsIn(Tail(bus), x) = StartsIn(bus, x)
           /\ EndsIn(Tail(bus)) = EndsIn(bus) /\ BeginsIn(Tail(bus)) = BeginsIn(bus)
           /\ Def(s).type # "join"
<1>1. s \in Steps /\ Tail(bus) \in Seq(Event) /\ bus \in Seq(Event) /\ bus # <<>>
      /\ Head(bus).type = "step.planned"
  BY StepHandled DEF Handles, TypeOK
<1>2. /\ PlansIn(bus, s) = PlansIn(Tail(bus), s) + 1
      /\ \A x \in Steps \ {s} : PlansIn(bus, x) = PlansIn(Tail(bus), x) + 0
      /\ \A x \in Steps : StartsIn(bus, x) = StartsIn(Tail(bus), x) + 0
      /\ EndsIn(bus) = EndsIn(Tail(bus)) + 0
      /\ BeginsIn(bus) = BeginsIn(Tail(bus)) + 0
  BY <1>1, TallyTail DEF One
<1>4. \A x \in Steps : PlansIn(Tail(bus), x) \in Nat /\ StartsIn(Tail(bus), x) \in Nat
  BY <1>1, TallyType
<1>4a. EndsIn(Tail(bus)) \in Nat /\ BeginsIn(Tail(bus)) \in Nat
  BY <1>1, TallyType
<1>5. /\ PlansIn(bus, s) = PlansIn(Tail(bus), s) + 1 /\ StartsIn(bus, s) = StartsIn(Tail(bus), s)
      /\ \A x \in Steps \ {s} : /\ PlansIn(Tail(bus), x) = PlansIn(bus, x)
                                /\ StartsIn(Tail(bus), x) = StartsIn(bus, x)
      /\ EndsIn(Tail(bus)) = EndsIn(bus) /\ BeginsIn(Tail(bus)) = BeginsIn(bus)
  BY <1>1, <1>2, <1>4, <1>4a
<1>6. PlansIn(bus, s) # 0
  BY <1>1, <1>4, <1>5
<1>7. run.step[s] = "planned"
  BY <1>1, <1>6, RunFields DEF Lives, Life, Asleep, Over, StepStatus, TypeOK
<1>8. /\ PlansIn(bus, s) = 1 /\ StartsIn(bus, s) = 0 /\ Untouched(s)
      /\ s \in run.plannedSteps /\ s \notin run.completedSteps /\ Def(s).type # "join"
  BY <1>1, <1>7 DEF Lives, Life, Indexed
<1>9. PlansIn(Tail(bus), s) = 0
  BY <1>1, <1>4, <1>5, <1>8
<1>. QED  BY <1>1, <1>5, <1>7, <1>8, <1>9

(* What step-planned.reducer makes of a planned step.                      *)
LEMMA PlannedIs ==
    ASSUME NEW r \in RunContext, NEW s \in Steps, r.step[s] = "planned", s \in r.plannedSteps
    PROVE  LET new == StepPlannedReducer(r, s) IN
           /\ new \in RunContext
           /\ new.status = r.status /\ new.outstanding = r.outstanding
           /\ new.reuse = r.reuse /\ new.completedSteps = r.completedSteps
           /\ new.plannedSteps = r.plannedSteps \ {s}
           /\ \A x \in Steps \ {s} : new.step[x] = r.step[x]
           /\ r.reuse[s] = "none" => new.step[s] = "started"
           /\ r.reuse[s] = "success" => new.step[s] = "completed"
           /\ r.reuse[s] = "failure" => new.step[s] = "failed"
<1>. DEFINE status == CASE r.reuse[s] = "none" -> "started"
                        [] r.reuse[s] = "success" -> "completed"
                        [] r.reuse[s] = "failure" -> "failed"
            new == StepPlannedReducer(r, s)
<1>1. new = [r EXCEPT !.plannedSteps = @ \ {s}, !.step[s] = status]
  BY Zenon DEF StepPlannedReducer
<1>2. new \in RunContext
  BY PlannedType
<1>3. /\ r.reuse[s] = "none" => status = "started"
      /\ r.reuse[s] = "success" => status = "completed"
      /\ r.reuse[s] = "failure" => status = "failed"
  OBVIOUS
<1>. HIDE DEF status, new
<1>4. /\ new.status = r.status /\ new.outstanding = r.outstanding
      /\ new.reuse = r.reuse /\ new.completedSteps = r.completedSteps
      /\ new.plannedSteps = r.plannedSteps \ {s}
      /\ \A x \in Steps \ {s} : new.step[x] = r.step[x]
      /\ new.step[s] = status
  BY <1>1 DEF RunContext
<1>. QED  BY <1>2, <1>3, <1>4 DEF new

LEMMA StepReusedLives ==
    ASSUME TypeOK, flow \in Flows, Lives, StepReused
    PROVE  Lives' /\ Kept /\ MovesOn(Head(bus).step)
<1>0. PICK s : s = Head(bus).step
  OBVIOUS
<1>. DEFINE e == Reused(s, IF run'.step[s] = "completed" THEN "success" ELSE "failure")
<1>1. /\ s \in Steps /\ run.step[s] = "planned" /\ s \in run.plannedSteps
      /\ Tail(bus) \in Seq(Event)
      /\ PlansIn(Tail(bus), s) = 0 /\ StartsIn(Tail(bus), s) = 0
      /\ Untouched(s) /\ s \notin run.completedSteps
      /\ \A x \in Steps \ {s} : /\ PlansIn(Tail(bus), x) = PlansIn(bus, x)
                                /\ StartsIn(Tail(bus), x) = StartsIn(bus, x)
      /\ EndsIn(Tail(bus)) = EndsIn(bus) /\ BeginsIn(Tail(bus)) = BeginsIn(bus)
      /\ Def(s).type # "join"
  BY <1>0, PlannedFacts DEF StepReused
<1>2. /\ run.reuse[s] \in {"success", "failure"} /\ run' = StepPlannedReducer(run, s)
  BY <1>0, <1>1, RunFields DEF StepReused, TypeOK, Outcomes
<1>3. /\ run'.step[s] \in {"completed", "failed"}
      /\ run'.status = run.status /\ run'.outstanding = run.outstanding
      /\ run'.completedSteps = run.completedSteps
      /\ run'.plannedSteps = run.plannedSteps \ {s}
      /\ \A x \in Steps \ {s} : run'.step[x] = run.step[x]
  BY <1>1, <1>2, PlannedIs DEF TypeOK
<1>4. e \in EndEvent /\ bus' = Append(Tail(bus), e)
  BY <1>0, <1>1, EventsMade DEF StepReused, Outcomes
<1>. HIDE DEF e
<1>5. /\ \A x \in Steps : /\ PlansIn(bus', x) = PlansIn(Tail(bus), x)
                          /\ StartsIn(bus', x) = StartsIn(Tail(bus), x)
      /\ EndsIn(bus') = EndsIn(bus) + 1 /\ BeginsIn(bus') = BeginsIn(bus)
  BY <1>1, <1>4, AppendEnd
<1>6. /\ flow' = flow /\ load' = load /\ announced' = announced
      /\ submitted' = submitted /\ branching' = branching /\ answers' = answers
  BY DEF StepReused, jobVars
<1>7. \A x \in Steps \ {s} : SameStep(x)
  BY <1>1, <1>3, <1>5, <1>6 DEF SameStep
<1>8. Live(s) /\ ~Live(s)' /\ ~Asleep(s)' /\ Over(s)'
  BY <1>1, <1>3 DEF Live, Asleep, Over
<1>9. Life(s)'
  <2>1. /\ PlansIn(bus', s) = 0 /\ StartsIn(bus', s) = 0
        /\ submitted'[s] = 0 /\ branching'[s] = 0 /\ answers'[s] = <<>>
        /\ run'.step[s] \notin {"planned", "started"}
    BY <1>1, <1>3, <1>5, <1>6 DEF Untouched
  <2>. QED  BY <1>8, <2>1 DEF Life
<1>10. Indexed(s)' /\ FamilyAsleep(s)'
  BY <1>1, <1>3, <1>5 DEF Indexed, FamilyAsleep
<1>11. MovesOn(s)
  BY <1>3, <1>5, <1>6, <1>7, <1>8, <1>9, <1>10 DEF MovesOn
<1>. QED  BY <1>0, <1>1, <1>11, MovesOnLives

LEMMA StepPlannedLives ==
    ASSUME TypeOK, flow \in Flows, Lives, NEW admitted \in Admission, StepPlanned(admitted)
    PROVE  Lives' /\ Kept /\ MovesOn(Head(bus).step) /\ StartsIn(bus', Head(bus).step) = 1
<1>0. PICK s : s = Head(bus).step
  OBVIOUS
<1>1. /\ s \in Steps /\ run.step[s] = "planned" /\ s \in run.plannedSteps
      /\ Tail(bus) \in Seq(Event)
      /\ PlansIn(Tail(bus), s) = 0 /\ StartsIn(Tail(bus), s) = 0
      /\ Untouched(s) /\ s \notin run.completedSteps
      /\ \A x \in Steps \ {s} : /\ PlansIn(Tail(bus), x) = PlansIn(bus, x)
                                /\ StartsIn(Tail(bus), x) = StartsIn(bus, x)
      /\ EndsIn(Tail(bus)) = EndsIn(bus) /\ BeginsIn(Tail(bus)) = BeginsIn(bus)
      /\ Def(s).type # "join"
  BY <1>0, PlannedFacts DEF StepPlanned
<1>2. /\ run.reuse[s] = "none" /\ run' = StepPlannedReducer(run, s)
  BY <1>0 DEF StepPlanned
<1>3. /\ run'.step[s] = "started"
      /\ run'.status = run.status /\ run'.outstanding = run.outstanding
      /\ run'.completedSteps = run.completedSteps
      /\ run'.plannedSteps = run.plannedSteps \ {s}
      /\ \A x \in Steps \ {s} : run'.step[x] = run.step[x]
  BY <1>1, <1>2, PlannedIs DEF TypeOK
<1>4. bus' = Append(Tail(bus), StepEv("step.started", s))
  BY <1>0 DEF StepPlanned
<1>5. /\ \A x \in Steps : PlansIn(bus', x) = PlansIn(Tail(bus), x)
      /\ StartsIn(bus', s) = 1
      /\ \A x \in Steps \ {s} : StartsIn(bus', x) = StartsIn(Tail(bus), x)
      /\ EndsIn(bus') = EndsIn(bus) /\ BeginsIn(bus') = BeginsIn(bus)
  <2>1. /\ \A x \in Steps : PlansIn(bus', x) = PlansIn(Tail(bus), x)
        /\ StartsIn(bus', s) = StartsIn(Tail(bus), s) + 1
        /\ \A x \in Steps \ {s} : StartsIn(bus', x) = StartsIn(Tail(bus), x)
        /\ EndsIn(bus') = EndsIn(Tail(bus)) /\ BeginsIn(bus') = BeginsIn(Tail(bus))
    BY <1>1, <1>4, AppendStart
  <2>. QED  BY <1>1, <2>1
<1>6. /\ flow' = flow /\ load' = load /\ announced' = announced /\ answers' = answers
      /\ \A x \in Steps \ {s} : submitted'[x] = submitted[x] /\ branching'[x] = branching[x]
  BY <1>0 DEF StepPlanned, TypeOK
<1>7. /\ submitted'[s] \in {0, 1} /\ branching'[s] \in {0, 1}
      /\ submitted'[s] > 0 => Def(s).type = "job"
      /\ branching'[s] > 0 => Def(s).type = "branch"
  <2>1. submitted[s] = 0 /\ branching[s] = 0
    BY <1>1 DEF Untouched
  <2>2. submitted'[s] = IF Def(s).type = "job" /\ admitted THEN 1 ELSE 0
    BY <1>0, <1>1, <2>1 DEF StepPlanned, TypeOK
  <2>3. branching'[s] = IF Def(s).type = "branch" /\ Def(s).ref THEN 1 ELSE 0
    BY <1>0, <1>1, <2>1 DEF StepPlanned, TypeOK
  <2>. QED  BY <2>2, <2>3
<1>8. \A x \in Steps \ {s} : SameStep(x)
  BY <1>1, <1>3, <1>5, <1>6 DEF SameStep
<1>9. Live(s) /\ Live(s)' /\ ~Asleep(s)' /\ ~Over(s)'
  BY <1>1, <1>3 DEF Live, Asleep, Over
<1>10. Life(s)'
  <2>1. /\ PlansIn(bus', s) = 0 /\ StartsIn(bus', s) = 1 /\ answers'[s] = <<>>
        /\ run'.step[s] = "started" /\ Def(s)' = Def(s)
    BY <1>1, <1>3, <1>5, <1>6 DEF Untouched, Def
  <2>. QED  BY <1>1, <1>7, <1>9, <2>1 DEF Life
<1>11. Indexed(s)'
  BY <1>1, <1>3 DEF Indexed
<1>12. FamilyAsleep(s)'
  <2>1. \A c \in Steps : ParallelEdge(s, c)' => Asleep(c)
    BY <1>1, <1>6 DEF Lives, FamilyAsleep, ParallelEdge, Def
  <2>. QED  BY <1>1, <1>3, <2>1 DEF FamilyAsleep, Asleep
<1>13. MovesOn(s)
  BY <1>3, <1>5, <1>6, <1>8, <1>9, <1>10, <1>11, <1>12 DEF MovesOn
<1>. QED  BY <1>0, <1>1, <1>5, <1>13, MovesOnLives

LEMMA BranchValueMissingLives ==
    ASSUME TypeOK, flow \in Flows, Lives, BranchValueMissing
    PROVE  Lives' /\ Kept /\ MovesOn(Head(bus).step)
<1>0. PICK s : s = Head(bus).step
  OBVIOUS
<1>. DEFINE e == StepEv("step.started", s)
            f == Ended(s, "failure", None)
            mid == StepPlannedReducer(run, s)
<1>1. /\ s \in Steps /\ run.step[s] = "planned" /\ s \in run.plannedSteps
      /\ Tail(bus) \in Seq(Event)
      /\ PlansIn(Tail(bus), s) = 0 /\ StartsIn(Tail(bus), s) = 0
      /\ Untouched(s) /\ s \notin run.completedSteps
      /\ \A x \in Steps \ {s} : /\ PlansIn(Tail(bus), x) = PlansIn(bus, x)
                                /\ StartsIn(Tail(bus), x) = StartsIn(bus, x)
      /\ EndsIn(Tail(bus)) = EndsIn(bus) /\ BeginsIn(Tail(bus)) = BeginsIn(bus)
  BY <1>0, PlannedFacts DEF BranchValueMissing
<1>2. /\ run.reuse[s] = "none" /\ run' = SettleReducer(mid, s, "failure")
      /\ Def(s).type = "branch"
  BY <1>0 DEF BranchValueMissing
<1>3. /\ run'.step[s] = "failed"
      /\ run'.status = run.status /\ run'.outstanding = run.outstanding
      /\ run'.completedSteps = run.completedSteps
      /\ run'.plannedSteps = run.plannedSteps \ {s}
      /\ \A x \in Steps \ {s} : run'.step[x] = run.step[x]
  <2>1. /\ mid \in RunContext
        /\ mid.status = run.status /\ mid.outstanding = run.outstanding
        /\ mid.completedSteps = run.completedSteps
        /\ mid.plannedSteps = run.plannedSteps \ {s}
        /\ \A x \in Steps \ {s} : mid.step[x] = run.step[x]
    BY <1>1, PlannedIs DEF TypeOK
  <2>. HIDE DEF mid
  <2>2. run' = [mid EXCEPT !.step[s] = "failed", !.failedSteps = @ \cup {s}]
    BY <1>2 DEF SettleReducer
  <2>. QED  BY <1>1, <2>1, <2>2 DEF RunContext
<1>4. /\ e \in Event /\ f \in EndEvent /\ f \in Event /\ bus' = Tail(bus) \o <<e, f>>
  BY <1>0, <1>1, EventsMade DEF BranchValueMissing, Outcomes
<1>5. bus' = Append(Append(Tail(bus), e), f)
  <2>. HIDE DEF e, f
  <2>. QED  BY <1>1, <1>4
<1>6. /\ \A x \in Steps : PlansIn(bus', x) = PlansIn(Tail(bus), x)
      /\ StartsIn(bus', s) = 1
      /\ \A x \in Steps \ {s} : StartsIn(bus', x) = StartsIn(Tail(bus), x)
      /\ EndsIn(bus') = EndsIn(bus) + 1 /\ BeginsIn(bus') = BeginsIn(bus)
  <2>. DEFINE q == Append(Tail(bus), e)
  <2>1. /\ \A x \in Steps : PlansIn(q, x) = PlansIn(Tail(bus), x)
        /\ StartsIn(q, s) = StartsIn(Tail(bus), s) + 1
        /\ \A x \in Steps \ {s} : StartsIn(q, x) = StartsIn(Tail(bus), x)
        /\ EndsIn(q) = EndsIn(Tail(bus)) /\ BeginsIn(q) = BeginsIn(Tail(bus))
        /\ q \in Seq(Event)
    BY <1>1, AppendStart
  <2>. HIDE DEF e, f, q
  <2>2. bus' = Append(q, f)
    BY <1>5 DEF q
  <2>3. /\ \A x \in Steps : PlansIn(bus', x) = PlansIn(q, x) /\ StartsIn(bus', x) = StartsIn(q, x)
        /\ EndsIn(bus') = EndsIn(q) + 1 /\ BeginsIn(bus') = BeginsIn(q)
    BY <1>4, <2>1, <2>2, AppendEnd
  <2>. QED  BY <1>1, <2>1, <2>3
<1>7. /\ flow' = flow /\ load' = load /\ announced' = announced
      /\ submitted' = submitted /\ branching' = branching /\ answers' = answers
  BY DEF BranchValueMissing, jobVars
<1>8. \A x \in Steps \ {s} : SameStep(x)
  BY <1>1, <1>3, <1>6, <1>7 DEF SameStep
<1>9. Live(s) /\ ~Live(s)' /\ ~Asleep(s)' /\ Over(s)'
  BY <1>1, <1>3 DEF Live, Asleep, Over
<1>10. Life(s)'
  <2>1. /\ PlansIn(bus', s) = 0 /\ StartsIn(bus', s) = 1
        /\ submitted'[s] = 0 /\ branching'[s] = 0 /\ answers'[s] = <<>>
        /\ run'.step[s] \notin {"planned", "started"} /\ Def(s)'.type = "branch"
    BY <1>1, <1>2, <1>3, <1>6, <1>7 DEF Untouched, Def
  <2>. QED  BY <1>9, <2>1 DEF Life
<1>11. Indexed(s)' /\ FamilyAsleep(s)'
  BY <1>1, <1>2, <1>3, <1>6, <1>7 DEF Indexed, FamilyAsleep, ParallelEdge, Def
<1>12. MovesOn(s)
  BY <1>3, <1>6, <1>7, <1>8, <1>9, <1>10, <1>11 DEF MovesOn
<1>. QED  BY <1>0, <1>1, <1>12, MovesOnLives

-----------------------------------------------------------------------------
(* Steps that wake: nothing else plans a parallel's children.              *)

LEMMA WokenLife ==
    ASSUME NEW s \in Steps, flow' = flow, Life(s), Indexed(s), PlansIn(bus, s) \in Nat,
           run.step[s] = "initialized", run'.step[s] = "planned", Def(s).type # "join",
           PlansIn(bus', s) = PlansIn(bus, s) + 1, StartsIn(bus', s) = StartsIn(bus, s),
           submitted'[s] = submitted[s], branching'[s] = branching[s],
           answers'[s] = answers[s],
           s \in run'.plannedSteps, s \in run'.completedSteps => s \in run.completedSteps
    PROVE  Life(s)' /\ Indexed(s)'
<1>1. /\ PlansIn(bus, s) = 0 /\ StartsIn(bus, s) = 0 /\ Untouched(s)
      /\ s \notin run.completedSteps
  BY DEF Life, Indexed, Asleep
<1>2. /\ PlansIn(bus', s) = 1 /\ StartsIn(bus', s) = 0
      /\ submitted'[s] = 0 /\ branching'[s] = 0 /\ answers'[s] = <<>>
  BY <1>1 DEF Untouched
<1>3. /\ ~Asleep(s)' /\ ~Over(s)' /\ Def(s)' = Def(s)
  BY DEF Asleep, Over, Def
<1>4. Life(s)'
  BY <1>2, <1>3 DEF Life, Untouched
<1>5. Indexed(s)'
  BY <1>1 DEF Indexed
<1>. QED  BY <1>4, <1>5

LEMMA RunStartedLives ==
    ASSUME TypeOK, flow \in Flows, ParallelsOwnChildren, Lives, RunStarted
    PROVE  Lives' /\ Kept /\ RunBegins
<1>0. PICK s : s = flow.start
  OBVIOUS
<1>1. /\ bus \in Seq(Event) /\ bus # <<>> /\ Head(bus).type = "run.started"
      /\ s \in Steps /\ Def(s).type # "join"
  BY <1>0, ShapesOf DEF RunStarted, Handles, TypeOK
<1>2. /\ Tail(bus) \in Seq(Event)
      /\ \A x \in Steps : /\ PlansIn(Tail(bus), x) = PlansIn(bus, x)
                          /\ StartsIn(Tail(bus), x) = StartsIn(bus, x)
      /\ EndsIn(Tail(bus)) = EndsIn(bus)
      /\ BeginsIn(bus) = BeginsIn(Tail(bus)) + 1
  BY <1>1, TallyRunEvent DEF One
<1>3. BeginsIn(bus) = 1 /\ BeginsIn(Tail(bus)) = 0
  <2>1. BeginsIn(Tail(bus)) \in Nat
    BY <1>2, TallyType
  <2>2. BeginsIn(bus) <= 1
    BY DEF Lives, Opening
  <2>. QED  BY <1>2, <2>1, <2>2
<1>4. /\ run.status = "started" /\ EndsIn(bus) = 0
      /\ \A x \in Steps : run.step[x] = "initialized"
  BY <1>3 DEF Lives, Opening
<1>5. s \notin run.plannedSteps /\ announced["run.started"] # 0
  BY <1>1, <1>4 DEF Lives, Indexed, Opening
<1>6. /\ run'.status = run.status /\ run'.completedSteps = run.completedSteps
      /\ run'.plannedSteps = run.plannedSteps \cup {s}
      /\ run'.outstanding = run.outstanding + 1
      /\ run'.step[s] = "planned"
      /\ \A x \in Steps \ {s} : run'.step[x] = run.step[x]
  <2>1. run' = Plan(run, {s})
    BY <1>0, <1>1, <1>4 DEF RunStarted, RunStartedReducer
  <2>2. Cardinality({s}) = 1
    BY FS_Singleton
  <2>. QED  BY <1>1, <2>1, <2>2 DEF Plan, TypeOK, RunContext
<1>7. bus' = Tail(bus) \o <<StepEv("step.planned", s)>>
  BY <1>0, <1>1, <1>4, <1>5, <1>6 DEF RunStarted
<1>8. /\ \A x \in Steps : StartsIn(bus', x) = StartsIn(bus, x)
      /\ \A x \in Steps \ {s} : PlansIn(bus', x) = PlansIn(bus, x)
      /\ PlansIn(bus', s) = PlansIn(bus, s) + 1
      /\ EndsIn(bus') = 0 /\ BeginsIn(bus') = 0
  <2>1. bus' = Append(Tail(bus), StepEv("step.planned", s))
    BY <1>2, <1>7
  <2>2. /\ \A x \in Steps : StartsIn(bus', x) = StartsIn(Tail(bus), x)
        /\ \A x \in Steps \ {s} : PlansIn(bus', x) = PlansIn(Tail(bus), x)
        /\ PlansIn(bus', s) = PlansIn(Tail(bus), s) + 1
        /\ EndsIn(bus') = EndsIn(Tail(bus)) /\ BeginsIn(bus') = BeginsIn(Tail(bus))
    BY <1>1, <1>2, <2>1, AppendPlan
  <2>. QED  BY <1>1, <1>2, <1>3, <1>4, <2>2
<1>9. /\ flow' = flow /\ load' = load /\ announced' = announced
      /\ submitted' = submitted /\ branching' = branching /\ answers' = answers
  BY DEF RunStarted, jobVars
<1>10. \A x \in Steps \ {s} : SameStep(x)
  BY <1>6, <1>8, <1>9 DEF SameStep
<1>11. \A x \in Steps : Life(x)' /\ Indexed(x)'
  <2>1. PlansIn(bus, s) \in Nat
    BY <1>1, TallyType
  <2>2. Life(s)' /\ Indexed(s)'
    BY <1>1, <1>4, <1>6, <1>8, <1>9, <2>1, WokenLife DEF Lives
  <2>. QED  BY <1>9, <1>10, <2>2, LifeFrame DEF Lives
<1>12. \A p \in Steps : FamilyAsleep(p)'
  BY <1>0, <1>4, <1>6, <1>9
     DEF FamilyAsleep, ParallelsOwnChildren, ParallelEdge, Def, Asleep
<1>13. \A x \in Steps : JoinDecided(x)'
  BY <1>4, <1>6 DEF JoinDecided
<1>14. Counter'
  <2>1. Living = {} /\ Living' = {s}
    BY <1>1, <1>4, <1>6 DEF Living, Live
  <2>2. Cardinality(Living) = 0 /\ Cardinality(Living') = 1
    BY <2>1, FS_EmptySet, FS_Singleton
  <2>3. run.outstanding = 0
    BY <1>4, <2>2 DEF Lives, Counter
  <2>. QED  BY <1>6, <1>8, <2>2, <2>3 DEF Counter
<1>15. Opening' /\ Closing'
  BY <1>4, <1>5, <1>6, <1>8, <1>9 DEF Lives, Opening, Closing, Ends
<1>16. Kept
  BY <1>4, <1>6 DEF Kept, Over
<1>17. RunBegins
  <2>1. run.outstanding \in Nat
    BY RunFields DEF TypeOK
  <2>. QED  BY <1>4, <1>6, <2>1 DEF RunBegins
<1>. QED  BY <1>11, <1>12, <1>13, <1>14, <1>15, <1>16, <1>17 DEF Lives

-----------------------------------------------------------------------------
(* Answers.                                                                *)

LEMMA SettledIs ==
    ASSUME NEW r \in RunContext, NEW s \in Steps, NEW outcome \in Outcomes
    PROVE  LET new == SettleReducer(r, s, outcome) IN
           /\ new.status = r.status /\ new.outstanding = r.outstanding
           /\ new.plannedSteps = r.plannedSteps
           /\ new.step[s] = Verdict(outcome) /\ new.step[s] \in {"completed", "failed"}
           /\ \A x \in Steps \ {s} : new.step[x] = r.step[x]
           /\ \A x \in Steps : x \in new.completedSteps =>
                 x \in r.completedSteps \/ (x = s /\ new.step[s] = "completed")
<1>1. CASE outcome = "success"
  BY <1>1 DEF SettleReducer, RunContext, Verdict
<1>2. CASE outcome = "failure"
  BY <1>2 DEF SettleReducer, RunContext, Verdict
<1>. QED  BY <1>1, <1>2 DEF Outcomes

(* A started step whose own step.started has been handled is settled.      *)
LEMMA SettledLives ==
    ASSUME TypeOK, flow \in Flows, Lives, NEW s \in Steps, NEW outcome \in Outcomes,
           NEW e \in EndEvent, run.step[s] = "started", StartsIn(bus, s) = 0,
           run' = SettleReducer(run, s, outcome), bus' = Append(bus, e),
           flow' = flow, load' = load, announced' = announced,
           \A x \in Steps \ {s} : /\ submitted'[x] = submitted[x]
                                  /\ branching'[x] = branching[x] /\ answers'[x] = answers[x],
           submitted'[s] = submitted[s], branching'[s] = 0,
           Len(answers'[s]) = submitted[s],
           \A i \in DOMAIN answers'[s] : answers'[s][i] = outcome,
           Def(s).type # "parallel"
    PROVE  Lives' /\ Kept /\ MovesOn(s)
<1>1. /\ run'.status = run.status /\ run'.outstanding = run.outstanding
      /\ run'.plannedSteps = run.plannedSteps
      /\ run'.step[s] = Verdict(outcome) /\ run'.step[s] \in {"completed", "failed"}
      /\ \A x \in Steps \ {s} : run'.step[x] = run.step[x]
      /\ \A x \in Steps : x \in run'.completedSteps =>
            x \in run.completedSteps \/ (x = s /\ run'.step[s] = "completed")
  BY SettledIs DEF TypeOK
<1>2. /\ \A x \in Steps : PlansIn(bus', x) = PlansIn(bus, x) /\ StartsIn(bus', x) = StartsIn(bus, x)
      /\ EndsIn(bus') = EndsIn(bus) + 1 /\ BeginsIn(bus') = BeginsIn(bus)
  BY AppendEnd DEF TypeOK
<1>3. /\ PlansIn(bus, s) = 0 /\ submitted[s] <= 1
      /\ submitted[s] > 0 => Def(s).type = "job"
      /\ s \notin run.plannedSteps /\ s \notin run.completedSteps
      /\ Def(s).type # "join"
  BY DEF Lives, Life, Indexed
<1>4. \A x \in Steps \ {s} : SameStep(x)
  BY <1>1, <1>2 DEF SameStep
<1>5. Live(s) /\ ~Live(s)' /\ ~Asleep(s)' /\ Over(s)' /\ Def(s)' = Def(s)
  BY <1>1 DEF Live, Asleep, Over, Def
<1>6. Life(s)'
  <2>1. /\ PlansIn(bus', s) = 0 /\ StartsIn(bus', s) = 0
        /\ run'.step[s] \notin {"planned", "started"}
    BY <1>1, <1>2, <1>3
  <2>2. \A i \in DOMAIN answers'[s] : Verdict(answers'[s][i]) = run'.step[s]
    BY <1>1
  <2>. QED  BY <1>3, <1>5, <2>1, <2>2 DEF Life
<1>7. Indexed(s)' /\ FamilyAsleep(s)'
  BY <1>1, <1>2, <1>3, <1>5 DEF Indexed, FamilyAsleep, ParallelEdge
<1>8. MovesOn(s)
  BY <1>1, <1>2, <1>4, <1>5, <1>6, <1>7 DEF MovesOn
<1>. QED  BY <1>8, MovesOnLives

LEMMA HandledStart ==
    ASSUME TypeOK, NEW s \in Steps, StartHandled(s)
    PROVE  StartsIn(bus, s) = 0
BY CountZero DEF StartsIn, StartHandled, TypeOK

LEMMA JobAnsweredLives ==
    ASSUME TypeOK, flow \in Flows, Lives, NEW s \in Steps, NEW outcome \in Outcomes,
           JobAnswered(s, outcome)
    PROVE  Lives' /\ Kept /\ MovesOn(s)
<1>1. /\ answers[s] \in Seq(Outcomes) /\ Len(answers[s]) \in Nat /\ submitted[s] \in Nat
      /\ branching[s] \in Nat
      /\ run.step[s] \in StepStatus /\ Len(answers[s]) < submitted[s] /\ StartsIn(bus, s) = 0
  BY HandledStart, RunFields DEF TypeOK, JobAnswered
<1>2. Life(s)
  BY DEF Lives
<1>3. submitted[s] > 0 /\ ~Untouched(s) /\ ~Over(s)
  BY <1>1, <1>2 DEF Untouched, Life
<1>4. run.step[s] = "started" /\ Def(s).type = "job"
  BY <1>1, <1>2, <1>3 DEF Life, Asleep, Over, StepStatus
<1>5. submitted[s] = 1 /\ answers[s] = <<>> /\ branching[s] = 0
  BY <1>1, <1>2, <1>3, <1>4 DEF Life
<1>6. run' = SettleReducer(run, s, outcome) /\ run'.step[s] # run.step[s]
  <2>1. run' = SettleReducer(run, s, outcome) /\ run \in RunContext
    BY DEF JobAnswered, JobFinished, TypeOK
  <2>2. run'.step[s] \in {"completed", "failed"}
    BY <2>1, SettledIs
  <2>. QED  BY <1>4, <2>1, <2>2
<1>7. bus' = Append(bus, Ended(s, outcome, None)) /\ Ended(s, outcome, None) \in EndEvent
  BY <1>6, EventsMade DEF JobAnswered, JobFinished
<1>8. /\ flow' = flow /\ load' = load /\ announced' = announced
      /\ submitted' = submitted /\ branching' = branching
      /\ \A x \in Steps \ {s} : answers'[x] = answers[x]
      /\ answers'[s] = <<outcome>>
  BY <1>5 DEF JobAnswered, TypeOK
<1>9. /\ \A x \in Steps \ {s} : /\ submitted'[x] = submitted[x]
                                /\ branching'[x] = branching[x] /\ answers'[x] = answers[x]
      /\ submitted'[s] = submitted[s] /\ branching'[s] = 0 /\ Len(answers'[s]) = submitted[s]
      /\ \A i \in DOMAIN answers'[s] : answers'[s][i] = outcome
      /\ Def(s).type # "parallel"
  BY <1>4, <1>5, <1>8
<1>. QED  BY <1>1, <1>4, <1>6, <1>7, <1>8, <1>9, SettledLives

LEMMA BranchValueResolvedLives ==
    ASSUME TypeOK, flow \in Flows, Lives, NEW s \in Steps, NEW outcome \in Outcomes,
           NEW value \in BranchValues, BranchValueResolved(s, outcome, value)
    PROVE  Lives' /\ Kept /\ MovesOn(s)
<1>1. /\ answers[s] \in Seq(Outcomes) /\ submitted[s] \in Nat /\ branching[s] \in Nat
      /\ run.step[s] \in StepStatus /\ branching[s] > 0 /\ StartsIn(bus, s) = 0
  BY HandledStart, RunFields DEF TypeOK, BranchValueResolved
<1>2. Life(s)
  BY DEF Lives
<1>3. ~Untouched(s) /\ ~Over(s)
  BY <1>1, <1>2 DEF Untouched, Life
<1>4. run.step[s] = "started" /\ Def(s).type = "branch"
  BY <1>1, <1>2, <1>3 DEF Life, Asleep, Over, StepStatus
<1>5. submitted[s] = 0 /\ answers[s] = <<>> /\ branching[s] = 1
  BY <1>1, <1>2, <1>4 DEF Life
<1>. DEFINE case == IF outcome = "success" THEN MatchedCase(s, value) ELSE None
<1>6. case \in Steps \cup {None, Inherited}
  BY DefType DEF MatchedCase, TypeOK
<1>7. /\ run' = SettleReducer(run, s, outcome) /\ bus' = Append(bus, Ended(s, outcome, case))
      /\ Ended(s, outcome, case) \in EndEvent
  <2>1. Ended(s, outcome, case) \in EndEvent
    <3>. HIDE DEF case
    <3>. QED  BY <1>6, EventsMade
  <2>. QED  BY <2>1 DEF BranchValueResolved
<1>. HIDE DEF case
<1>8. /\ flow' = flow /\ load' = load /\ announced' = announced
      /\ submitted' = submitted /\ answers' = answers
      /\ \A x \in Steps \ {s} : branching'[x] = branching[x]
      /\ branching'[s] = 0
  BY <1>5 DEF BranchValueResolved, TypeOK, jobVars
<1>9. /\ \A x \in Steps \ {s} : /\ submitted'[x] = submitted[x]
                                /\ branching'[x] = branching[x] /\ answers'[x] = answers[x]
      /\ submitted'[s] = submitted[s] /\ Len(answers'[s]) = submitted[s]
      /\ \A i \in DOMAIN answers'[s] : answers'[s][i] = outcome
      /\ Def(s).type # "parallel"
  BY <1>4, <1>5, <1>8
<1>. QED  BY <1>1, <1>4, <1>7, <1>8, <1>9, SettledLives

(* A terminal that arrives again finds its step settled as it says.        *)
LEMMA JobRedeliveredLives ==
    ASSUME TypeOK, flow \in Flows, Lives, NEW s \in Steps, NEW i \in DOMAIN answers[s],
           JobRedelivered(s, i)
    PROVE  Lives' /\ Kept /\ Quiet
<1>1. /\ answers[s] \in Seq(Outcomes) /\ answers[s][i] \in Outcomes /\ answers[s] # <<>>
      /\ run.step[s] \in StepStatus
  BY ElementOfSeq, RunFields DEF TypeOK
<1>2. Life(s)
  BY DEF Lives
<1>3. Over(s) /\ Verdict(answers[s][i]) = run.step[s]
  BY <1>1, <1>2 DEF Life, Untouched, Asleep, Over, StepStatus
<1>4. run' = SettleReducer(run, s, answers[s][i])
  BY DEF JobRedelivered, JobFinished
<1>5. /\ run'.status = run.status /\ run'.outstanding = run.outstanding
      /\ run'.plannedSteps = run.plannedSteps
      /\ \A x \in Steps : run'.step[x] = run.step[x]
      /\ \A x \in Steps : x \in run'.completedSteps =>
            x \in run.completedSteps \/ run.step[x] = "completed"
  <2>. DEFINE o == answers[s][i]
  <2>1. o \in Outcomes /\ run' = SettleReducer(run, s, o) /\ run \in RunContext
    BY <1>1, <1>4 DEF TypeOK
  <2>2. Verdict(o) = run.step[s]
    BY <1>3
  <2>. HIDE DEF o
  <2>3. /\ run'.status = run.status /\ run'.outstanding = run.outstanding
        /\ run'.plannedSteps = run.plannedSteps /\ run'.step[s] = Verdict(o)
        /\ \A x \in Steps \ {s} : run'.step[x] = run.step[x]
        /\ \A x \in Steps : x \in run'.completedSteps =>
              x \in run.completedSteps \/ (x = s /\ run'.step[s] = "completed")
    BY <2>1, SettledIs
  <2>. QED  BY <2>2, <2>3
<1>6. /\ bus' = bus /\ flow' = flow /\ load' = load /\ announced' = announced
      /\ submitted' = submitted /\ answers' = answers /\ branching' = branching
  BY <1>5 DEF JobRedelivered, JobFinished
<1>7. Still
  BY <1>5, <1>6 DEF Still, SameStep
<1>8. Opening' /\ Closing'
  BY <1>5, <1>6 DEF Lives, Opening, Closing, Live, Ends
<1>9. Kept
  BY <1>5 DEF Kept
<1>. QED  BY <1>6, <1>7, <1>8, <1>9, StillLives DEF Lives, Quiet

LEMMA RunFinishedLives ==
    ASSUME TypeOK, Lives, RunFinished
    PROVE  Lives' /\ Kept /\ Quiet
<1>1. /\ bus \in Seq(Event) /\ bus # <<>>
      /\ Head(bus).type \in {"run.completed", "run.failed"} /\ bus' = Tail(bus)
  BY DEF RunFinished, Handles, TypeOK
<1>2. /\ \A s \in Steps : PlansIn(bus', s) = PlansIn(bus, s) /\ StartsIn(bus', s) = StartsIn(bus, s)
      /\ EndsIn(bus') = EndsIn(bus) /\ bus' \in Seq(Event)
      /\ BeginsIn(bus) = BeginsIn(bus') + 0
  BY <1>1, TallyRunEvent DEF One
<1>3. BeginsIn(bus') = BeginsIn(bus)
  BY <1>2, TallyType
<1>4. /\ flow' = flow /\ run' = run /\ load' = load
      /\ submitted' = submitted /\ answers' = answers /\ branching' = branching
  BY DEF RunFinished, jobVars
<1>5. /\ announced'["run.started"] = announced["run.started"]
      /\ announced'["run.completed"] = announced["run.completed"]
      /\ announced'["run.failed"] = announced["run.failed"]
  BY DEF RunFinished, Announce, Announcements
<1>6. Still
  BY <1>2, <1>4 DEF Still, SameStep
<1>7. Opening' /\ Closing'
  BY <1>2, <1>3, <1>4, <1>5 DEF Lives, Opening, Closing, Live, Ends
<1>8. Kept
  BY <1>4 DEF Kept
<1>. QED  BY <1>3, <1>6, <1>7, <1>8, StillLives DEF Lives, Quiet

-----------------------------------------------------------------------------
(* Starts.                                                                 *)

(* Joins stand while nothing that is over changes.                         *)
LEMMA JoinsStand ==
    ASSUME TypeOK, Lives, flow' = flow, NEW j \in Steps, run'.step[j] = run.step[j],
           \A x \in Steps : Over(x) => run'.step[x] = run.step[x]
    PROVE  JoinDecided(j)'
<1>1. Def(j)' = Def(j) /\ Def(j).steps \subseteq Steps
  BY DefType DEF Def, TypeOK
<1>2. SUFFICES ASSUME Def(j).type = "join"
               PROVE  /\ run'.step[j] = "completed" =>
                            \A x \in Def(j).steps : run'.step[x] = "completed"
                      /\ run'.step[j] = "failed" =>
                            \E x \in Def(j).steps : run'.step[x] = "failed"
  BY <1>1 DEF JoinDecided
<1>3. \A x \in Def(j).steps : /\ run.step[x] = "completed" => run'.step[x] = "completed"
                              /\ run.step[x] = "failed" => run'.step[x] = "failed"
  BY <1>1 DEF Over
<1>4. /\ run.step[j] = "completed" => \A x \in Def(j).steps : run.step[x] = "completed"
      /\ run.step[j] = "failed" => \E x \in Def(j).steps : run.step[x] = "failed"
  BY <1>2 DEF Lives, JoinDecided
<1>5. ASSUME run'.step[j] = "completed", NEW x \in Def(j).steps
      PROVE  run'.step[x] = "completed"
  BY <1>3, <1>4, <1>5
<1>6. ASSUME run'.step[j] = "failed"
      PROVE  \E x \in Def(j).steps : run'.step[x] = "failed"
  <2>1. PICK x \in Def(j).steps : run.step[x] = "failed"
    BY <1>4, <1>6
  <2>. QED  BY <1>3, <2>1
<1>. QED  BY <1>5, <1>6

(* A step whose step.started is on the bus has started and is no join.     *)
LEMMA StartedFacts ==
    ASSUME TypeOK, Lives, Handles({"step.started"}), NEW s, s = Head(bus).step
    PROVE  /\ s \in Steps /\ run.step[s] \in {"started", "completed", "failed"}
           /\ Def(s).type # "branch" => run.step[s] = "started"
           /\ Def(s).type # "join"
           /\ Tail(bus) \in Seq(Event)
           /\ StartsIn(bus, s) > 0 /\ StartsIn(Tail(bus), s) = 0
           /\ \A x \in Steps : PlansIn(Tail(bus), x) = PlansIn(bus, x)
           /\ \A x \in Steps \ {s} : StartsIn(Tail(bus), x) = StartsIn(bus, x)
           /\ EndsIn(Tail(bus)) = EndsIn(bus) /\ BeginsIn(Tail(bus)) = BeginsIn(bus)
<1>1. s \in Steps /\ Tail(bus) \in Seq(Event) /\ bus \in Seq(Event) /\ bus # <<>>
      /\ Head(bus).type = "step.started"
  BY StepHandled DEF Handles, TypeOK
<1>2. /\ StartsIn(bus, s) = StartsIn(Tail(bus), s) + 1
      /\ \A x \in Steps \ {s} : StartsIn(bus, x) = StartsIn(Tail(bus), x) + 0
      /\ \A x \in Steps : PlansIn(bus, x) = PlansIn(Tail(bus), x) + 0
      /\ EndsIn(bus) = EndsIn(Tail(bus)) + 0
      /\ BeginsIn(bus) = BeginsIn(Tail(bus)) + 0
  BY <1>1, TallyTail DEF One
<1>3. /\ \A x \in Steps : PlansIn(Tail(bus), x) \in Nat /\ StartsIn(Tail(bus), x) \in Nat
      /\ EndsIn(Tail(bus)) \in Nat /\ BeginsIn(Tail(bus)) \in Nat
  BY <1>1, TallyType
<1>4. /\ \A x \in Steps : PlansIn(Tail(bus), x) = PlansIn(bus, x)
      /\ \A x \in Steps \ {s} : StartsIn(Tail(bus), x) = StartsIn(bus, x)
      /\ EndsIn(Tail(bus)) = EndsIn(bus) /\ BeginsIn(Tail(bus)) = BeginsIn(bus)
  BY <1>1, <1>2, <1>3
<1>5. StartsIn(bus, s) # 0 /\ StartsIn(bus, s) > 0
  BY <1>1, <1>2, <1>3
<1>6. Life(s) /\ run.step[s] \in StepStatus
  BY <1>1, RunFields DEF Lives, TypeOK
<1>7. run.step[s] \in {"started", "completed", "failed"}
  BY <1>5, <1>6 DEF Life, Asleep, Over, StepStatus
<1>8. StartsIn(bus, s) <= 1
  BY <1>6, <1>7 DEF Life, Over
<1>9. StartsIn(Tail(bus), s) = 0
  BY <1>1, <1>2, <1>3, <1>8
<1>10. /\ Def(s).type # "branch" => run.step[s] = "started"
       /\ Def(s).type # "join"
  BY <1>5, <1>6 DEF Life
<1>. QED  BY <1>1, <1>4, <1>5, <1>7, <1>9, <1>10

(* The step itself, once its step.started has been handled.                *)
LEMMA HandledLife ==
    ASSUME NEW s \in Steps, Life(s), Indexed(s), flow' = flow,
           run.step[s] \in {"started", "completed", "failed"}, run'.step[s] = run.step[s],
           PlansIn(bus', s) = PlansIn(bus, s), StartsIn(bus', s) = 0,
           submitted'[s] = submitted[s], branching'[s] = branching[s],
           answers'[s] = answers[s],
           s \in run'.plannedSteps <=> s \in run.plannedSteps,
           s \in run'.completedSteps => s \in run.completedSteps
    PROVE  (Life(s) /\ Indexed(s) /\ FamilyAsleep(s))'
<1>1. /\ ~Asleep(s) /\ ~Asleep(s)' /\ Def(s)' = Def(s)
      /\ Over(s)' <=> Over(s)
  BY DEF Asleep, Over, Def
<1>2. Life(s)'
  <2>1. CASE run.step[s] = "started"
    BY <1>1, <2>1 DEF Life, Over
  <2>2. CASE Over(s)
    BY <1>1, <2>2 DEF Life, Over
  <2>. QED  BY <2>1, <2>2 DEF Over
<1>. QED  BY <1>1, <1>2 DEF Indexed, FamilyAsleep

LEMMA DisjointCards ==
    ASSUME NEW A, NEW B, IsFiniteSet(A), IsFiniteSet(B), A \cap B = {}
    PROVE  /\ Cardinality(A \cup B) = Cardinality(A) + Cardinality(B)
           /\ Cardinality(A) \in Nat /\ Cardinality(B) \in Nat
<1>1. Cardinality(A \cap B) = 0
  BY FS_EmptySet
<1>2. /\ Cardinality(A \cup B) = Cardinality(A) + Cardinality(B) - Cardinality(A \cap B)
      /\ Cardinality(A) \in Nat /\ Cardinality(B) \in Nat
  BY FS_Union, FS_CardinalityType
<1>. QED  BY <1>1, <1>2

(* What the handling of a step.started appends.                            *)
LEMMA TallyHandled ==
    ASSUME NEW q \in Seq(Event), NEW ids \in SUBSET Steps, NEW ps \in SUBSET Steps,
           NEW planned \in PlannedEvents(ids), NEW ended \in CompletedEvents(ps)
    PROVE  LET new == q \o planned \o ended IN
           /\ new \in Seq(Event)
           /\ \A x \in ids : PlansIn(new, x) = PlansIn(q, x) + 1
           /\ \A x \in Steps \ ids : PlansIn(new, x) = PlansIn(q, x)
           /\ \A x \in Steps : StartsIn(new, x) = StartsIn(q, x)
           /\ EndsIn(new) = EndsIn(q) + Cardinality(ps)
           /\ BeginsIn(new) = BeginsIn(q)
<1>1. /\ planned \in Seq(Event)
      /\ \A x \in Steps : PlansIn(planned, x) = One(x \in ids) /\ StartsIn(planned, x) = 0
      /\ EndsIn(planned) = 0 /\ BeginsIn(planned) = 0
  BY TallyPlanned
<1>2. /\ ended \in Seq(Event)
      /\ \A x \in Steps : PlansIn(ended, x) = 0 /\ StartsIn(ended, x) = 0
      /\ EndsIn(ended) = Cardinality(ps) /\ BeginsIn(ended) = 0
  BY TallyCompleted
<1>3. PICK mid : mid = q \o planned
  OBVIOUS
<1>4. PICK new : new = mid \o ended
  OBVIOUS
<1>5. /\ mid \in Seq(Event)
      /\ \A x \in Steps : /\ PlansIn(mid, x) = PlansIn(q, x) + PlansIn(planned, x)
                          /\ StartsIn(mid, x) = StartsIn(q, x) + StartsIn(planned, x)
      /\ EndsIn(mid) = EndsIn(q) + EndsIn(planned)
      /\ BeginsIn(mid) = BeginsIn(q) + BeginsIn(planned)
  BY <1>1, <1>3, TallyConcat
<1>6. /\ new \in Seq(Event)
      /\ \A x \in Steps : /\ PlansIn(new, x) = PlansIn(mid, x) + PlansIn(ended, x)
                          /\ StartsIn(new, x) = StartsIn(mid, x) + StartsIn(ended, x)
      /\ EndsIn(new) = EndsIn(mid) + EndsIn(ended)
      /\ BeginsIn(new) = BeginsIn(mid) + BeginsIn(ended)
  BY <1>2, <1>4, <1>5, TallyConcat
<1>7. /\ \A x \in Steps : PlansIn(q, x) \in Nat /\ StartsIn(q, x) \in Nat
      /\ EndsIn(q) \in Nat /\ BeginsIn(q) \in Nat
  BY TallyType
<1>8. Cardinality(ps) \in Nat
  BY StepsAssumption, FS_Subset, FS_CardinalityType
<1>9. /\ EndsIn(new) = EndsIn(q) + Cardinality(ps)
      /\ BeginsIn(new) = BeginsIn(q)
  BY <1>1, <1>2, <1>5, <1>6, <1>7, <1>8
<1>10. \A x \in Steps : StartsIn(new, x) = StartsIn(q, x)
  BY <1>1, <1>2, <1>5, <1>6, <1>7
<1>11. ASSUME NEW x \in Steps
       PROVE  PlansIn(new, x) = IF x \in ids THEN PlansIn(q, x) + 1 ELSE PlansIn(q, x)
  BY <1>1, <1>2, <1>5, <1>6, <1>7 DEF One
<1>. QED  BY <1>3, <1>4, <1>6, <1>9, <1>10, <1>11

(* A parallel that has started plans its children.                         *)
LEMMA ParallelStartedLives ==
    ASSUME TypeOK, flow \in Flows, ParallelsOwnChildren, Lives, StepStarted,
           Def(Head(bus).step).type = "parallel"
    PROVE  Lives' /\ Kept /\ StartSeen(Head(bus).step)
<1>0. PICK s : s = Head(bus).step
  OBVIOUS
<1>1. /\ s \in Steps /\ run.step[s] = "started" /\ Def(s).type = "parallel"
      /\ Tail(bus) \in Seq(Event)
      /\ StartsIn(bus, s) > 0 /\ StartsIn(Tail(bus), s) = 0
      /\ \A x \in Steps : PlansIn(Tail(bus), x) = PlansIn(bus, x)
      /\ \A x \in Steps \ {s} : StartsIn(Tail(bus), x) = StartsIn(bus, x)
      /\ EndsIn(Tail(bus)) = EndsIn(bus) /\ BeginsIn(Tail(bus)) = BeginsIn(bus)
  BY <1>0, StartedFacts DEF StepStarted
<1>2. PICK ids : ids = {c \in Def(s).steps : run.step[c] = "initialized"}
  OBVIOUS
<1>3. /\ ids \in SUBSET Steps /\ IsFiniteSet(ids) /\ Cardinality(ids) \in Nat
      /\ \A c \in ids : /\ run.step[c] = "initialized" /\ ParallelEdge(s, c)
                        /\ Def(c).type # "join" /\ c \notin run.plannedSteps
      /\ \A c \in Steps : ParallelEdge(s, c) => Asleep(c)
  <2>1. ids \in SUBSET Steps
    BY <1>1, <1>2, DefType DEF TypeOK
  <2>2. \A c \in ids : /\ run.step[c] = "initialized" /\ ParallelEdge(s, c)
                       /\ Def(c).type # "join"
    BY <1>1, <1>2, <2>1, ShapesOf DEF ParallelEdge
  <2>3. \A c \in ids : c \notin run.plannedSteps
    BY <2>1, <2>2 DEF Lives, Indexed
  <2>. QED  BY <1>1, <2>1, <2>2, <2>3, StepsAssumption, FS_Subset, FS_CardinalityType
            DEF Lives, FamilyAsleep
<1>4. /\ run'.status = run.status /\ run'.completedSteps = run.completedSteps
      /\ run'.plannedSteps = run.plannedSteps \cup ids
      /\ run'.outstanding = run.outstanding + Cardinality(ids)
      /\ \A x \in ids : run'.step[x] = "planned"
      /\ \A x \in Steps \ ids : run'.step[x] = run.step[x]
  <2>1. run' = Plan(run, ids)
    BY <1>0, <1>1, <1>2 DEF StepStarted, StepStartedReducer
  <2>. QED  BY <1>3, <2>1 DEF Plan, TypeOK, RunContext
<1>5. {c \in Def(s).steps : run'.step[c] = "planned"} = ids
  <2>1. \A c \in Def(s).steps : c \in Steps /\ (run.step[c] \in {"none", "initialized"})
    BY <1>1, <1>3, DefType DEF ParallelEdge, Asleep, TypeOK
  <2>. QED  BY <1>2, <1>4, <2>1
<1>5a. PICK ps \in SUBSET Steps : ps = {}
  OBVIOUS
<1>6. PICK planned \in PlannedEvents(ids), ended \in CompletedEvents(ps) :
            bus' = Tail(bus) \o planned \o ended
  <2>1. run'.completedSteps \ run.completedSteps = {}
    BY <1>4
  <2>. QED  BY <1>0, <1>1, <1>5, <1>5a, <2>1 DEF StepStarted
<1>7. /\ \A x \in ids : PlansIn(bus', x) = PlansIn(bus, x) + 1
      /\ \A x \in Steps \ ids : PlansIn(bus', x) = PlansIn(bus, x)
      /\ \A x \in Steps : StartsIn(bus', x) = StartsIn(Tail(bus), x)
      /\ EndsIn(bus') = EndsIn(bus) /\ BeginsIn(bus') = BeginsIn(bus)
  <2>1. /\ \A x \in ids : PlansIn(bus', x) = PlansIn(Tail(bus), x) + 1
        /\ \A x \in Steps \ ids : PlansIn(bus', x) = PlansIn(Tail(bus), x)
        /\ \A x \in Steps : StartsIn(bus', x) = StartsIn(Tail(bus), x)
        /\ EndsIn(bus') = EndsIn(Tail(bus)) + Cardinality(ps)
        /\ BeginsIn(bus') = BeginsIn(Tail(bus))
    <3>1. Tail(bus) \in Seq(Event) /\ ids \in SUBSET Steps
      BY <1>1, <1>3
    <3>2. ASSUME NEW q \in Seq(Event)
          PROVE  LET new == q \o planned \o ended IN
                 /\ \A x \in ids : PlansIn(new, x) = PlansIn(q, x) + 1
                 /\ \A x \in Steps \ ids : PlansIn(new, x) = PlansIn(q, x)
                 /\ \A x \in Steps : StartsIn(new, x) = StartsIn(q, x)
                 /\ EndsIn(new) = EndsIn(q) + Cardinality(ps)
                 /\ BeginsIn(new) = BeginsIn(q)
      BY <3>1, TallyHandled
    <3>. QED  BY <1>6, <3>1, <3>2
  <2>2. Cardinality(ps) = 0 /\ EndsIn(bus) \in Nat
    BY <1>5a, FS_EmptySet, TallyType DEF TypeOK
  <2>. QED  BY <1>1, <1>3, <2>1, <2>2
<1>8. /\ flow' = flow /\ load' = load /\ announced' = announced
      /\ submitted' = submitted /\ branching' = branching /\ answers' = answers
  BY DEF StepStarted, jobVars
<1>9. s \notin ids
  BY <1>1, <1>3
<1>10. \A x \in Steps : Life(x)' /\ Indexed(x)'
  <2>1. ASSUME NEW x \in ids PROVE Life(x)' /\ Indexed(x)'
    <3>1. /\ x \in Steps /\ Life(x) /\ Indexed(x) /\ PlansIn(bus, x) \in Nat
          /\ StartsIn(bus', x) = StartsIn(bus, x)
      BY <1>1, <1>3, <1>7, <1>9, <2>1, TallyType DEF Lives, TypeOK
    <3>. QED  BY <1>3, <1>4, <1>7, <1>8, <2>1, <3>1, WokenLife
  <2>2. Life(s)' /\ Indexed(s)'
    BY <1>1, <1>4, <1>7, <1>8, <1>9, HandledLife DEF Lives
  <2>3. ASSUME NEW x \in Steps \ ids, x # s PROVE Life(x)' /\ Indexed(x)'
    BY <1>1, <1>4, <1>7, <1>8, <2>3, LifeFrame DEF Lives, SameStep
  <2>. QED  BY <2>1, <2>2, <2>3
<1>11. ASSUME NEW p \in Steps PROVE FamilyAsleep(p)'
  <2>1. CASE p = s
    BY <1>1, <1>4, <1>7, <1>9, <2>1 DEF FamilyAsleep
  <2>2. CASE p # s
    <3>1. SUFFICES ASSUME run'.step[p] \in {"none", "initialized", "planned"}
                            \/ StartsIn(bus', p) > 0,
                          NEW c \in Steps, ParallelEdge(p, c)
                   PROVE  Asleep(c)'
      BY <1>8 DEF FamilyAsleep, ParallelEdge, Def
    <3>2. run.step[p] \in {"none", "initialized", "planned"} \/ StartsIn(bus, p) > 0
      BY <1>1, <1>3, <1>4, <1>7, <2>2, <3>1
    <3>3. Asleep(c)
      BY <3>1, <3>2 DEF Lives, FamilyAsleep
    <3>4. c \notin ids
      BY <1>1, <1>3, <2>2, <3>1 DEF ParallelsOwnChildren
    <3>. QED  BY <1>4, <3>3, <3>4 DEF Asleep
  <2>. QED  BY <2>1, <2>2
<1>12. ASSUME NEW j \in Steps PROVE JoinDecided(j)'
  <2>1. CASE j \in ids
    BY <1>4, <2>1 DEF JoinDecided
  <2>2. CASE j \notin ids
    <3>1. \A x \in Steps : Over(x) => run'.step[x] = run.step[x]
      BY <1>3, <1>4 DEF Over
    <3>. QED  BY <1>4, <1>8, <2>2, <3>1, JoinsStand
  <2>. QED  BY <2>1, <2>2
<1>13. Counter'
  <2>1. Living' = Living \cup ids
    BY <1>3, <1>4 DEF Living, Live
  <2>2. Living \cap ids = {}
    BY <1>3 DEF Living, Live
  <2>3. IsFiniteSet(Living) /\ Cardinality(Living) \in Nat
    BY StepsAssumption, FS_Subset, FS_CardinalityType DEF Living
  <2>4. Cardinality(Living \cup ids) = Cardinality(Living) + Cardinality(ids)
    BY <1>3, <2>2, <2>3, DisjointCards
  <2>5. EndsIn(bus) \in Nat /\ run.outstanding = Cardinality(Living) + EndsIn(bus)
    BY TallyType DEF Lives, Counter, TypeOK
  <2>. QED  BY <1>3, <1>4, <1>7, <2>1, <2>3, <2>4, <2>5 DEF Counter
<1>14. /\ announced["run.started"] # 0 /\ BeginsIn(bus) # 1
       /\ run.status \notin {"completed", "failed"}
  BY <1>1 DEF Lives, Opening, Closing, Live
<1>15. Opening' /\ Closing'
  BY <1>4, <1>7, <1>8, <1>14 DEF Lives, Opening, Closing, Ends
<1>16. Kept
  BY <1>3, <1>4 DEF Kept, Over
<1>17. StartSeen(Head(bus).step)
  BY <1>0, <1>1, <1>7 DEF StartSeen
<1>. QED  BY <1>10, <1>11, <1>12, <1>13, <1>15, <1>16, <1>17 DEF Lives

(* A job or branch that has started may complete the parallels above it.   *)
LEMMA OtherStartedLives ==
    ASSUME TypeOK, flow \in Flows, ParallelsOwnChildren, Lives, StepStarted,
           Def(Head(bus).step).type # "parallel"
    PROVE  Lives' /\ Kept /\ StartSeen(Head(bus).step)
<1>0. PICK s : s = Head(bus).step
  OBVIOUS
<1>1. /\ s \in Steps /\ run.step[s] \in {"started", "completed", "failed"}
      /\ Def(s).type # "join" /\ Def(s).type # "parallel"
      /\ Tail(bus) \in Seq(Event)
      /\ StartsIn(Tail(bus), s) = 0
      /\ \A x \in Steps : PlansIn(Tail(bus), x) = PlansIn(bus, x)
      /\ \A x \in Steps \ {s} : StartsIn(Tail(bus), x) = StartsIn(bus, x)
      /\ EndsIn(Tail(bus)) = EndsIn(bus) /\ BeginsIn(Tail(bus)) = BeginsIn(bus)
  BY <1>0, StartedFacts DEF StepStarted
<1>2. PICK ps : ps = CompletesWith(run, s)
  OBVIOUS
<1>3. /\ ps \in SUBSET Steps /\ IsFiniteSet(ps) /\ Cardinality(ps) \in Nat
      /\ \A p \in ps : /\ run.step[p] = "started" /\ Def(p).type = "parallel"
                       /\ StartsIn(bus, p) = 0 /\ PlansIn(bus, p) = 0
                       /\ p \notin run.completedSteps /\ p \notin run.plannedSteps
  <2>1. /\ ps \in SUBSET Steps
        /\ \A p \in ps : ParallelEdge(p, s) /\ run.step[p] = "started"
    BY <1>2 DEF CompletesWith
  <2>2. ASSUME NEW p \in ps
        PROVE  /\ StartsIn(bus, p) = 0 /\ PlansIn(bus, p) = 0
               /\ p \notin run.completedSteps /\ p \notin run.plannedSteps
    <3>1. ~Asleep(s)
      BY <1>1 DEF Asleep
    <3>2. StartsIn(bus, p) \in Nat /\ ~(StartsIn(bus, p) > 0)
      BY <1>1, <2>1, <3>1, TallyType DEF Lives, FamilyAsleep, TypeOK
    <3>3. PlansIn(bus, p) = 0 /\ p \notin run.completedSteps /\ p \notin run.plannedSteps
      BY <2>1 DEF Lives, Life, Indexed
    <3>. QED  BY <3>2, <3>3
  <2>. QED  BY <2>1, <2>2, StepsAssumption, FS_Subset, FS_CardinalityType DEF ParallelEdge
<1>4. /\ run'.status = run.status /\ run'.plannedSteps = run.plannedSteps
      /\ run'.completedSteps = run.completedSteps \cup ps
      /\ run'.outstanding = run.outstanding
      /\ \A x \in ps : run'.step[x] = "completed"
      /\ \A x \in Steps \ ps : run'.step[x] = run.step[x]
  <2>1. run' = [run EXCEPT !.step = [p \in Steps |-> IF p \in ps THEN "completed"
                                                              ELSE @[p]],
                           !.completedSteps = @ \cup ps]
    BY <1>0, <1>1, <1>2 DEF StepStarted, StepStartedReducer
  <2>. QED  BY <1>3, <2>1 DEF TypeOK, RunContext
<1>5. PICK ids \in SUBSET Steps : ids = {}
  OBVIOUS
<1>6. PICK planned \in PlannedEvents(ids), ended \in CompletedEvents(ps) :
            bus' = Tail(bus) \o planned \o ended
  <2>1. run'.completedSteps \ run.completedSteps = ps
    BY <1>3, <1>4
  <2>. QED  BY <1>0, <1>1, <1>5, <2>1 DEF StepStarted
<1>7. /\ \A x \in Steps : PlansIn(bus', x) = PlansIn(bus, x)
      /\ \A x \in Steps : StartsIn(bus', x) = StartsIn(Tail(bus), x)
      /\ EndsIn(bus') = EndsIn(bus) + Cardinality(ps) /\ BeginsIn(bus') = BeginsIn(bus)
  <2>1. ASSUME NEW q \in Seq(Event)
        PROVE  LET new == q \o planned \o ended IN
               /\ \A x \in Steps \ ids : PlansIn(new, x) = PlansIn(q, x)
               /\ \A x \in Steps : StartsIn(new, x) = StartsIn(q, x)
               /\ EndsIn(new) = EndsIn(q) + Cardinality(ps)
               /\ BeginsIn(new) = BeginsIn(q)
    BY <1>3, TallyHandled
  <2>2. /\ \A x \in Steps \ ids : PlansIn(bus', x) = PlansIn(Tail(bus), x)
        /\ \A x \in Steps : StartsIn(bus', x) = StartsIn(Tail(bus), x)
        /\ EndsIn(bus') = EndsIn(Tail(bus)) + Cardinality(ps)
        /\ BeginsIn(bus') = BeginsIn(Tail(bus))
    BY <1>1, <1>6, <2>1
  <2>. QED  BY <1>1, <1>5, <2>2
<1>8. /\ flow' = flow /\ load' = load /\ announced' = announced
      /\ submitted' = submitted /\ branching' = branching /\ answers' = answers
  BY DEF StepStarted, jobVars
<1>9. s \notin ps
  BY <1>1, <1>3
<1>10. \A x \in Steps : Life(x)' /\ Indexed(x)'
  <2>1. ASSUME NEW x \in ps PROVE Life(x)' /\ Indexed(x)'
    <3>1. /\ x \in Steps /\ x # s /\ Life(x) /\ submitted[x] \in Nat /\ branching[x] \in Nat
      BY <1>3, <1>9, <2>1 DEF Lives, TypeOK
    <3>2. /\ PlansIn(bus', x) = 0 /\ StartsIn(bus', x) = 0
          /\ run.step[x] = "started" /\ Def(x).type = "parallel"
          /\ run'.step[x] = "completed" /\ x \notin run'.plannedSteps
      BY <1>1, <1>3, <1>4, <1>7, <2>1, <3>1
    <3>3. submitted[x] = 0 /\ branching[x] = 0 /\ answers[x] = <<>>
      BY <3>1, <3>2 DEF Life
    <3>4. ~Asleep(x)' /\ Over(x)'
      BY <3>2 DEF Asleep, Over
    <3>5. submitted'[x] = 0 /\ branching'[x] = 0 /\ answers'[x] = <<>>
      BY <1>8, <3>3
    <3>6. Life(x)'
      BY <3>2, <3>4, <3>5 DEF Life
    <3>. QED  BY <3>2, <3>6 DEF Indexed
  <2>2. Life(s)' /\ Indexed(s)'
    BY <1>1, <1>4, <1>7, <1>8, <1>9, HandledLife DEF Lives
  <2>3. ASSUME NEW x \in Steps \ ps, x # s PROVE Life(x)' /\ Indexed(x)'
    BY <1>1, <1>4, <1>7, <1>8, <2>3, LifeFrame DEF Lives, SameStep
  <2>. QED  BY <2>1, <2>2, <2>3
<1>11. ASSUME NEW p \in Steps PROVE FamilyAsleep(p)'
  <2>1. CASE p = s
    BY <1>1, <1>8, <2>1 DEF FamilyAsleep, ParallelEdge, Def
  <2>2. CASE p # s
    <3>1. SUFFICES ASSUME run'.step[p] \in {"none", "initialized", "planned"}
                            \/ StartsIn(bus', p) > 0,
                          NEW c \in Steps, ParallelEdge(p, c)
                   PROVE  Asleep(c)'
      BY <1>8 DEF FamilyAsleep, ParallelEdge, Def
    <3>2. run.step[p] \in {"none", "initialized", "planned"} \/ StartsIn(bus, p) > 0
      BY <1>1, <1>3, <1>4, <1>7, <2>2, <3>1
    <3>3. Asleep(c)
      BY <3>1, <3>2 DEF Lives, FamilyAsleep
    <3>4. c \notin ps
      BY <1>3, <3>3 DEF Asleep
    <3>. QED  BY <1>4, <3>3, <3>4 DEF Asleep
  <2>. QED  BY <2>1, <2>2
<1>12. ASSUME NEW j \in Steps PROVE JoinDecided(j)'
  <2>1. CASE j \in ps
    BY <1>3, <1>8, <2>1 DEF JoinDecided, Def
  <2>2. CASE j \notin ps
    <3>1. \A x \in Steps : Over(x) => run'.step[x] = run.step[x]
      BY <1>3, <1>4 DEF Over
    <3>. QED  BY <1>4, <1>8, <2>2, <3>1, JoinsStand
  <2>. QED  BY <2>1, <2>2
<1>13. Counter' /\ Living' = Living \ ps
  <2>1. Living' = Living \ ps /\ ps \subseteq Living
    BY <1>3, <1>4 DEF Living, Live
  <2>2. IsFiniteSet(Living) /\ IsFiniteSet(Living \ ps)
    BY StepsAssumption, FS_Subset, FS_Difference DEF Living
  <2>3. /\ Cardinality((Living \ ps) \cup ps) = Cardinality(Living \ ps) + Cardinality(ps)
        /\ Cardinality(Living \ ps) \in Nat /\ Cardinality(ps) \in Nat
    BY <1>3, <2>2, DisjointCards
  <2>4. Cardinality(Living) = Cardinality(Living \ ps) + Cardinality(ps)
    <3>1. (Living \ ps) \cup ps = Living
      BY <2>1
    <3>. QED  BY <2>3, <3>1
  <2>5. EndsIn(bus) \in Nat /\ run.outstanding = Cardinality(Living) + EndsIn(bus)
    BY TallyType DEF Lives, Counter, TypeOK
  <2>6. run.outstanding = Cardinality(Living \ ps) + (EndsIn(bus) + Cardinality(ps))
    BY <2>3, <2>4, <2>5
  <2>. QED  BY <1>4, <1>7, <2>1, <2>6 DEF Counter
<1>14. /\ announced["run.started"] # 0 /\ BeginsIn(bus) # 1
  BY <1>1 DEF Lives, Opening
<1>15. run.status \in {"completed", "failed"} => EndsIn(bus') = 0 /\ \A x \in Steps : ~Live(x)'
  <2>1. SUFFICES ASSUME run.status \in {"completed", "failed"}
                 PROVE  EndsIn(bus') = 0 /\ \A x \in Steps : ~Live(x)'
    OBVIOUS
  <2>2. EndsIn(bus) = 0 /\ \A x \in Steps : ~Live(x)
    BY <2>1 DEF Lives, Closing
  <2>3. ps = {}
    BY <1>3, <2>2 DEF Live
  <2>4. Cardinality(ps) = 0
    BY <2>3, FS_EmptySet
  <2>. QED  BY <1>4, <1>7, <2>2, <2>3, <2>4 DEF Live
<1>16. Opening'
  BY <1>4, <1>7, <1>8, <1>14 DEF Lives, Opening
<1>17. Closing'
  BY <1>4, <1>7, <1>8, <1>15 DEF Lives, Closing, Ends
<1>18. Kept
  BY <1>3, <1>4 DEF Kept, Over
<1>19. StartSeen(Head(bus).step)
  BY <1>0, <1>1, <1>7 DEF StartSeen
<1>. QED  BY <1>10, <1>11, <1>12, <1>13, <1>16, <1>17, <1>18, <1>19 DEF Lives

-----------------------------------------------------------------------------
(* Ends.                                                                   *)

(* What an ended step opens is asleep, is no join and has no parallel      *)
(* above it; what it decides are joins that nothing has decided otherwise. *)
LEMMA OpenedFacts ==
    ASSUME TypeOK, flow \in Flows, ParallelsOwnChildren, NEW e \in EndEvent,
           NEW d \in OpenedBy(run, e)
    PROVE  /\ d \in Steps /\ run.step[d] = "initialized" /\ Def(d).type # "join"
           /\ \A p \in Steps : ~ParallelEdge(p, d)
<1>1. /\ e.step \in Steps /\ e.status \in Outcomes /\ e.case \in Steps \cup {None, Inherited}
  BY EventKinds DEF Event
<1>2. /\ d \in Steps /\ run.step[d] = "initialized"
      /\ \/ ControlEdge(e.step, d, e.status)
         \/ BranchEdge(e.step, d, e.case)
         \/ \E j \in Steps : JoinNext(j, d)
  BY DEF OpenedBy, JoinsCompletedBy
<1>3. PICK s \in Steps : Plans(s, d) /\ (d = Def(s).next \/ d = Def(s).failure \/ d \in Def(s).steps)
  <2>1. CASE ControlEdge(e.step, d, e.status)
    BY <1>1, <1>2, <2>1 DEF Plans, ControlEdge
  <2>2. CASE BranchEdge(e.step, d, e.case)
    <3>1. e.case \in Steps \cup {None}
      BY <1>1, <1>2, <2>2, StepsAssumption DEF BranchEdge
    <3>. QED  BY <1>1, <1>2, <2>2, <3>1 DEF Plans, BranchEdge
  <2>3. CASE \E j \in Steps : JoinNext(j, d)
    BY <2>3 DEF Plans, JoinNext
  <2>. QED  BY <1>2, <2>1, <2>2, <2>3
<1>4. Def(d).type # "join"
  BY <1>2, <1>3, ShapesOf
<1>5. \A p \in Steps : ~ParallelEdge(p, d)
  BY <1>2, <1>3 DEF ParallelsOwnChildren
<1>. QED  BY <1>2, <1>4, <1>5

LEMMA DecidedFacts ==
    ASSUME TypeOK, Lives, NEW s, NEW done, NEW lost,
           done = JoinsCompletedBy(run, s), lost = JoinsFailedBy(run, s)
    PROVE  /\ \A j \in done : /\ j \in Steps /\ Def(j).type = "join"
                              /\ run.step[j] # "failed" /\ j \notin lost
                              /\ \A x \in Def(j).steps : run.step[x] = "completed"
           /\ \A j \in lost : /\ j \in Steps /\ Def(j).type = "join"
                              /\ run.step[j] # "completed"
                              /\ \E x \in Def(j).steps : run.step[x] = "failed"
<1>1. /\ \A j \in done : /\ j \in Steps /\ Def(j).type = "join" /\ j \notin lost
                         /\ \A x \in Def(j).steps : run.step[x] = "completed"
      /\ \A j \in lost : /\ j \in Steps /\ Def(j).type = "join" /\ j \notin done
                         /\ \A x \in Def(j).steps : run.step[x] \in {"completed", "failed"}
                         /\ JoinEdge(s, j)
  BY DEF JoinsCompletedBy, JoinsFailedBy, JoinEdge
<1>2. ASSUME NEW j \in lost PROVE \E x \in Def(j).steps : run.step[x] = "failed"
  <2>1. ~\A x \in Def(j).steps : run.step[x] = "completed"
    BY <1>1 DEF JoinsCompletedBy
  <2>. QED  BY <1>1, <2>1
<1>3. ASSUME NEW j \in done PROVE run.step[j] # "failed"
  BY <1>1 DEF Lives, JoinDecided
<1>4. ASSUME NEW j \in lost PROVE run.step[j] # "completed"
  BY <1>1, <1>2 DEF Lives, JoinDecided
<1>. QED  BY <1>1, <1>2, <1>3, <1>4

(* What the end of a step appends.                                         *)
LEMMA TallySettled ==
    ASSUME NEW q \in Seq(Event), NEW ids \in SUBSET Steps, NEW planned \in PlannedEvents(ids),
           NEW end \in {<<>>, <<Ev("run.completed")>>, <<Ev("run.failed")>>}
    PROVE  LET new == q \o planned \o end IN
           /\ \A x \in ids : PlansIn(new, x) = PlansIn(q, x) + 1
           /\ \A x \in Steps \ ids : PlansIn(new, x) = PlansIn(q, x)
           /\ \A x \in Steps : StartsIn(new, x) = StartsIn(q, x)
           /\ EndsIn(new) = EndsIn(q) /\ BeginsIn(new) = BeginsIn(q)
<1>1. /\ planned \in Seq(Event)
      /\ \A x \in Steps : PlansIn(planned, x) = One(x \in ids) /\ StartsIn(planned, x) = 0
      /\ EndsIn(planned) = 0 /\ BeginsIn(planned) = 0
  BY TallyPlanned
<1>2. /\ end \in Seq(Event)
      /\ \A x \in Steps : PlansIn(end, x) = 0 /\ StartsIn(end, x) = 0
      /\ EndsIn(end) = 0 /\ BeginsIn(end) = 0
  <2>1. CASE end = <<>>
    BY <2>1, TallyEmpty
  <2>2. ASSUME NEW t \in {"run.completed", "run.failed"}, end = <<Ev(t)>>
        PROVE  /\ end \in Seq(Event)
               /\ \A x \in Steps : PlansIn(end, x) = 0 /\ StartsIn(end, x) = 0
               /\ EndsIn(end) = 0 /\ BeginsIn(end) = 0
    <3>1. /\ Ev(t) \in Event /\ Ev(t).type = t
      BY EventsMade DEF Ev
    <3>2. /\ \A x \in Steps : Ev(t) \notin {StepEv("step.planned", x)}
                              /\ Ev(t) \notin {StepEv("step.started", x)}
          /\ Ev(t) \notin EndEvent /\ Ev(t) \notin {Ev("run.started")}
      BY <3>1, KindOf
    <3>3. end \in Seq(Event) /\ \A i \in DOMAIN end : end[i] = Ev(t)
      BY <2>2, <3>1
    <3>. QED  BY <3>2, <3>3, CountZero DEF PlansIn, StartsIn, EndsIn, BeginsIn
  <2>. QED  BY <2>1, <2>2
<1>3. PICK mid : mid = q \o planned
  OBVIOUS
<1>4. PICK new : new = mid \o end
  OBVIOUS
<1>5. /\ mid \in Seq(Event)
      /\ \A x \in Steps : /\ PlansIn(mid, x) = PlansIn(q, x) + PlansIn(planned, x)
                          /\ StartsIn(mid, x) = StartsIn(q, x) + StartsIn(planned, x)
      /\ EndsIn(mid) = EndsIn(q) + EndsIn(planned)
      /\ BeginsIn(mid) = BeginsIn(q) + BeginsIn(planned)
  BY <1>1, <1>3, TallyConcat
<1>6. /\ new \in Seq(Event)
      /\ \A x \in Steps : /\ PlansIn(new, x) = PlansIn(mid, x) + PlansIn(end, x)
                          /\ StartsIn(new, x) = StartsIn(mid, x) + StartsIn(end, x)
      /\ EndsIn(new) = EndsIn(mid) + EndsIn(end)
      /\ BeginsIn(new) = BeginsIn(mid) + BeginsIn(end)
  BY <1>2, <1>4, <1>5, TallyConcat
<1>7. /\ \A x \in Steps : PlansIn(q, x) \in Nat /\ StartsIn(q, x) \in Nat
      /\ EndsIn(q) \in Nat /\ BeginsIn(q) \in Nat
  BY TallyType
<1>9. /\ EndsIn(new) = EndsIn(q)
      /\ BeginsIn(new) = BeginsIn(q)
  BY <1>1, <1>2, <1>5, <1>6, <1>7
<1>10. \A x \in Steps : StartsIn(new, x) = StartsIn(q, x)
  BY <1>1, <1>2, <1>5, <1>6, <1>7
<1>11. ASSUME NEW x \in Steps
       PROVE  PlansIn(new, x) = IF x \in ids THEN PlansIn(q, x) + 1 ELSE PlansIn(q, x)
  BY <1>1, <1>2, <1>5, <1>6, <1>7 DEF One
<1>. QED  BY <1>3, <1>4, <1>6, <1>9, <1>10, <1>11

(* A step end is handled: the run has started and is not over.             *)
LEMMA EndFacts ==
    ASSUME TypeOK, Lives, Handles({"step.completed", "step.failed", "step.reused"})
    PROVE  /\ Head(bus) \in EndEvent /\ Tail(bus) \in Seq(Event)
           /\ \A x \in Steps : /\ PlansIn(Tail(bus), x) = PlansIn(bus, x)
                               /\ StartsIn(Tail(bus), x) = StartsIn(bus, x)
           /\ EndsIn(bus) \in Nat /\ EndsIn(bus) > 0
           /\ EndsIn(Tail(bus)) = EndsIn(bus) - 1
           /\ BeginsIn(Tail(bus)) = 0
           /\ announced["run.started"] # 0 /\ load = "none" /\ Ends = 0
           /\ run.status \notin {"completed", "failed"}
<1>1. /\ bus \in Seq(Event) /\ bus # <<>> /\ Head(bus) \in EndEvent /\ Tail(bus) \in Seq(Event)
      /\ Head(bus).type \in {"step.completed", "step.failed", "step.reused"}
  BY BusParts, EventKinds DEF Handles, TypeOK
<1>2. /\ \A x \in Steps : PlansIn(bus, x) = PlansIn(Tail(bus), x) + 0
      /\ \A x \in Steps : StartsIn(bus, x) = StartsIn(Tail(bus), x) + 0
      /\ EndsIn(bus) = EndsIn(Tail(bus)) + 1
      /\ BeginsIn(bus) = BeginsIn(Tail(bus)) + 0
  BY <1>1, TallyTail DEF One
<1>3. /\ \A x \in Steps : PlansIn(Tail(bus), x) \in Nat /\ StartsIn(Tail(bus), x) \in Nat
      /\ EndsIn(Tail(bus)) \in Nat /\ BeginsIn(Tail(bus)) \in Nat
  BY <1>1, TallyType
<1>4. /\ \A x \in Steps : /\ PlansIn(Tail(bus), x) = PlansIn(bus, x)
                          /\ StartsIn(Tail(bus), x) = StartsIn(bus, x)
      /\ EndsIn(bus) \in Nat /\ EndsIn(bus) > 0 /\ EndsIn(bus) # 0
      /\ EndsIn(Tail(bus)) = EndsIn(bus) - 1
      /\ BeginsIn(Tail(bus)) = BeginsIn(bus)
  BY <1>2, <1>3
<1>5. /\ announced["run.started"] # 0 /\ BeginsIn(bus) # 1
      /\ BeginsIn(bus) <= 1
      /\ run.status \notin {"completed", "failed"}
  BY <1>4 DEF Lives, Opening, Closing
<1>6. load = "none"
  BY <1>5, LoadingIsQuiet
<1>7. BeginsIn(Tail(bus)) = 0
  BY <1>3, <1>4, <1>5
<1>8. Ends = 0
  BY <1>5 DEF Lives, Closing, Ends, TypeOK, Announcements
<1>. QED  BY <1>1, <1>4, <1>5, <1>6, <1>7, <1>8

LEMMA StepFinishedLives ==
    ASSUME TypeOK, flow \in Flows, ParallelsOwnChildren, Lives, StepFinished
    PROVE  Lives' /\ Kept /\ EndSeen
<1>1. PICK e : e = Head(bus)
  OBVIOUS
<1>2. /\ e \in EndEvent /\ Tail(bus) \in Seq(Event)
      /\ \A x \in Steps : /\ PlansIn(Tail(bus), x) = PlansIn(bus, x)
                          /\ StartsIn(Tail(bus), x) = StartsIn(bus, x)
      /\ EndsIn(bus) \in Nat /\ EndsIn(bus) > 0
      /\ EndsIn(Tail(bus)) = EndsIn(bus) - 1
      /\ BeginsIn(Tail(bus)) = 0
      /\ announced["run.started"] # 0 /\ load = "none" /\ Ends = 0
      /\ run.status \notin {"completed", "failed"}
  BY <1>1, EndFacts DEF StepFinished
<1>3. PICK done, lost, opened : /\ done = JoinsCompletedBy(run, e.step)
                                /\ lost = JoinsFailedBy(run, e.step)
                                /\ opened = OpenedBy(run, e)
  OBVIOUS
<1>4. /\ \A j \in done : /\ j \in Steps /\ Def(j).type = "join"
                         /\ run.step[j] # "failed" /\ j \notin lost
                         /\ \A x \in Def(j).steps : run.step[x] = "completed"
      /\ \A j \in lost : /\ j \in Steps /\ Def(j).type = "join"
                         /\ run.step[j] # "completed"
                         /\ \E x \in Def(j).steps : run.step[x] = "failed"
  BY <1>3, DecidedFacts
<1>5. /\ opened \in SUBSET Steps
      /\ \A d \in opened : /\ run.step[d] = "initialized" /\ Def(d).type # "join"
                           /\ d \notin done /\ d \notin lost /\ d \notin run.plannedSteps
                           /\ \A p \in Steps : ~ParallelEdge(p, d)
  <2>1. \A d \in opened : /\ d \in Steps /\ run.step[d] = "initialized" /\ Def(d).type # "join"
                          /\ \A p \in Steps : ~ParallelEdge(p, d)
    BY <1>2, <1>3, OpenedFacts
  <2>2. \A d \in opened : d \notin done /\ d \notin lost
    BY <1>4, <2>1
  <2>3. \A d \in opened : d \notin run.plannedSteps
    BY <2>1 DEF Lives, Indexed
  <2>. QED  BY <2>1, <2>2, <2>3
<1>6. /\ \A s \in Steps : run'.step[s] = IF s \in opened THEN "planned"
                                         ELSE IF s \in done THEN "completed"
                                         ELSE IF s \in lost THEN "failed"
                                         ELSE run.step[s]
      /\ run'.outstanding = Distance(run.outstanding - 1) + Cardinality(opened)
      /\ run'.plannedSteps = run.plannedSteps \cup opened
      /\ run'.completedSteps = run.completedSteps \cup done
      /\ run'.status = IF run'.outstanding # 0 THEN run.status
                       ELSE IF run'.failedSteps # {} THEN "failed" ELSE "completed"
  <2>1. run' = StepFinishedReducer(run, e) /\ run \in RunContext
    BY <1>1 DEF StepFinished, TypeOK
  <2>. QED  BY <1>3, <2>1, FinishedIs
<1>7. NewlyPlanned(run, run') = opened
  BY <1>5, <1>6 DEF NewlyPlanned
<1>8. PICK planned \in PlannedEvents(opened),
           end \in {<<>>, <<Ev("run.completed")>>, <<Ev("run.failed")>>} :
              /\ bus' = Tail(bus) \o planned \o end /\ Announcing(end)
              /\ run'.outstanding = 0 => end # <<>>
              /\ end # <<>> => run'.outstanding = 0
                               /\ run'.status \in {"completed", "failed"}
  <2>. DEFINE last == IF run'.outstanding # 0 THEN <<>>
                      ELSE CASE run'.status = "completed" -> <<Ev("run.completed")>>
                             [] run'.status = "failed" -> <<Ev("run.failed")>>
                             [] OTHER -> <<>>
  <2>1. /\ last \in {<<>>, <<Ev("run.completed")>>, <<Ev("run.failed")>>}
        /\ last # <<>> => run'.outstanding = 0 /\ run'.status \in {"completed", "failed"}
        /\ run'.outstanding = 0 => last # <<>>
    BY <1>6
  <2>2. \E planned \in PlannedEvents(opened) :
           bus' = Tail(bus) \o planned \o last /\ Announcing(last)
    BY <1>7 DEF StepFinished
  <2>. HIDE DEF last
  <2>. QED  BY <2>1, <2>2
<1>9. /\ \A x \in opened : PlansIn(bus', x) = PlansIn(bus, x) + 1
      /\ \A x \in Steps \ opened : PlansIn(bus', x) = PlansIn(bus, x)
      /\ \A x \in Steps : StartsIn(bus', x) = StartsIn(bus, x)
      /\ EndsIn(bus') = EndsIn(bus) - 1 /\ BeginsIn(bus') = 0
  <2>1. ASSUME NEW q \in Seq(Event)
        PROVE  LET new == q \o planned \o end IN
               /\ \A x \in opened : PlansIn(new, x) = PlansIn(q, x) + 1
               /\ \A x \in Steps \ opened : PlansIn(new, x) = PlansIn(q, x)
               /\ \A x \in Steps : StartsIn(new, x) = StartsIn(q, x)
               /\ EndsIn(new) = EndsIn(q) /\ BeginsIn(new) = BeginsIn(q)
    BY <1>5, TallySettled
  <2>2. /\ \A x \in opened : PlansIn(bus', x) = PlansIn(Tail(bus), x) + 1
        /\ \A x \in Steps \ opened : PlansIn(bus', x) = PlansIn(Tail(bus), x)
        /\ \A x \in Steps : StartsIn(bus', x) = StartsIn(Tail(bus), x)
        /\ EndsIn(bus') = EndsIn(Tail(bus)) /\ BeginsIn(bus') = BeginsIn(Tail(bus))
    BY <1>2, <1>8, <2>1
  <2>. QED  BY <1>2, <1>5, <2>2
<1>10. /\ announced'["run.started"] = announced["run.started"]
       /\ Ends' = IF end = <<>> THEN 0 ELSE 1
  <2>1. PICK types : types = {end[i].type : i \in DOMAIN end}
    OBVIOUS
  <2>2. \A a \in Announcements : announced'[a] = IF a \in types THEN announced[a] + 1
                                                 ELSE announced[a]
    BY <1>8, <2>1, AnnounceType DEF Announcing, TypeOK
  <2>3. /\ announced["run.completed"] \in Nat /\ announced["run.failed"] \in Nat
        /\ announced["run.completed"] = 0 /\ announced["run.failed"] = 0
    BY <1>2 DEF Ends, TypeOK, Announcements
  <2>4. CASE end = <<>>
    <3>1. types = {}
      BY <2>1, <2>4
    <3>. QED  BY <2>2, <2>3, <2>4, <3>1 DEF Ends, Announcements
  <2>5. CASE end = <<Ev("run.completed")>>
    <3>1. types = {"run.completed"} /\ end # <<>>
      BY <2>1, <2>5 DEF Ev
    <3>. QED  BY <2>2, <2>3, <3>1 DEF Ends, Announcements
  <2>6. CASE end = <<Ev("run.failed")>>
    <3>1. types = {"run.failed"} /\ end # <<>>
      BY <2>1, <2>6 DEF Ev
    <3>. QED  BY <2>2, <2>3, <3>1 DEF Ends, Announcements
  <2>. QED  BY <1>8, <2>4, <2>5, <2>6
<1>11. /\ flow' = flow /\ load' = load
       /\ submitted' = submitted /\ branching' = branching /\ answers' = answers
  BY DEF StepFinished, jobVars
<1>12. ASSUME NEW x \in Steps, Over(x) PROVE run'.step[x] = run.step[x]
  BY <1>4, <1>5, <1>6, <1>12 DEF Over
<1>13. \A x \in Steps : Life(x)' /\ Indexed(x)'
  <2>1. ASSUME NEW x \in opened PROVE Life(x)' /\ Indexed(x)'
    <3>1. x \in Steps /\ Life(x) /\ Indexed(x) /\ PlansIn(bus, x) \in Nat
      BY <1>5, <2>1, TallyType DEF Lives, TypeOK
    <3>2. /\ run.step[x] = "initialized" /\ run'.step[x] = "planned" /\ Def(x).type # "join"
          /\ PlansIn(bus', x) = PlansIn(bus, x) + 1 /\ StartsIn(bus', x) = StartsIn(bus, x)
          /\ x \in run'.plannedSteps
          /\ x \in run'.completedSteps => x \in run.completedSteps
      BY <1>5, <1>6, <1>9, <2>1, <3>1
    <3>. QED  BY <1>11, <3>1, <3>2, WokenLife
  <2>2. ASSUME NEW x \in Steps, x \in done \cup lost PROVE Life(x)' /\ Indexed(x)'
    <3>1. /\ Life(x) /\ Indexed(x) /\ submitted[x] \in Nat /\ branching[x] \in Nat
          /\ run.step[x] \in StepStatus /\ answers[x] \in Seq(Outcomes)
          /\ StartsIn(bus, x) \in Nat
      BY RunFields, TallyType DEF Lives, TypeOK
    <3>2. Def(x).type = "join" /\ x \notin opened /\ run'.step[x] \in {"completed", "failed"}
          /\ (x \in done => run'.step[x] = "completed")
      BY <1>4, <1>5, <1>6, <2>2
    <3>3. submitted[x] = 0 /\ branching[x] = 0 /\ run.step[x] \notin {"planned", "started"}
      BY <3>1, <3>2 DEF Life
    <3>4. Asleep(x) \/ Over(x)
      BY <3>1, <3>3 DEF Asleep, Over, StepStatus
    <3>5. PlansIn(bus, x) = 0 /\ StartsIn(bus, x) = 0
      BY <3>1, <3>2, <3>3, <3>4 DEF Life
    <3>6. answers[x] = <<>>
      <4>1. Len(answers[x]) = 0 \/ answers[x] = <<>>
        BY <3>1, <3>3, <3>4 DEF Life, Untouched
      <4>. QED  BY <3>1, <4>1, EmptySeq
    <3>7. ~Asleep(x)' /\ Over(x)'
      BY <3>2 DEF Asleep, Over
    <3>8. /\ PlansIn(bus', x) = 0 /\ StartsIn(bus', x) = 0
          /\ submitted'[x] = 0 /\ branching'[x] = 0 /\ answers'[x] = <<>>
      BY <1>9, <1>11, <3>2, <3>3, <3>5, <3>6
    <3>9. Life(x)'
      BY <3>2, <3>7, <3>8 DEF Life
    <3>10. Indexed(x)'
      <4>1. x \notin run'.plannedSteps
        BY <1>6, <3>1, <3>2, <3>3 DEF Indexed
      <4>2. x \in run'.completedSteps => run'.step[x] = "completed"
        BY <1>6, <1>12, <3>1, <3>2 DEF Indexed, Over
      <4>. QED  BY <3>2, <4>1, <4>2 DEF Indexed
    <3>. QED  BY <3>9, <3>10
  <2>3. ASSUME NEW x \in Steps, x \notin opened, x \notin done, x \notin lost
        PROVE  Life(x)' /\ Indexed(x)'
    <3>1. SameStep(x)
      BY <1>6, <1>9, <1>11, <2>3 DEF SameStep
    <3>. QED  BY <1>11, <3>1, LifeFrame DEF Lives
  <2>. QED  BY <2>1, <2>2, <2>3
<1>14. ASSUME NEW p \in Steps PROVE FamilyAsleep(p)'
  <2>1. SUFFICES ASSUME run'.step[p] \in {"none", "initialized", "planned"}
                          \/ StartsIn(bus', p) > 0,
                        NEW c \in Steps, ParallelEdge(p, c)
                 PROVE  Asleep(c)'
    BY <1>11 DEF FamilyAsleep, ParallelEdge, Def
  <2>2. run.step[p] \in {"none", "initialized", "planned"} \/ StartsIn(bus, p) > 0
    BY <1>4, <1>5, <1>6, <1>9, <2>1
  <2>3. Asleep(c)
    BY <2>1, <2>2 DEF Lives, FamilyAsleep
  <2>4. c \notin opened /\ c \notin done /\ c \notin lost
    BY <1>4, <1>5, <2>1, ShapesOf DEF ParallelEdge
  <2>. QED  BY <1>6, <2>3, <2>4 DEF Asleep
<1>15. ASSUME NEW j \in Steps PROVE JoinDecided(j)'
  <2>1. CASE j \in opened
    BY <1>5, <1>11, <2>1 DEF JoinDecided, Def
  <2>2. CASE j \in done
    <3>1. /\ \A x \in Def(j).steps : x \in Steps /\ run.step[x] = "completed"
          /\ run'.step[j] = "completed"
      BY <1>4, <1>5, <1>6, <2>2, DefType DEF TypeOK
    <3>2. \A x \in Def(j).steps : run'.step[x] = "completed"
      BY <1>12, <3>1 DEF Over
    <3>. QED  BY <1>11, <3>1, <3>2 DEF JoinDecided, Def
  <2>3. CASE j \in lost
    <3>1. PICK x \in Def(j).steps : run.step[x] = "failed"
      BY <1>4, <2>3
    <3>2. x \in Steps /\ run'.step[x] = "failed"
      BY <1>12, <3>1, DefType DEF Over, TypeOK
    <3>3. run'.step[j] = "failed"
      BY <1>4, <1>5, <1>6, <2>3
    <3>. QED  BY <1>11, <3>1, <3>2, <3>3 DEF JoinDecided, Def
  <2>4. CASE j \notin opened /\ j \notin done /\ j \notin lost
    <3>1. run'.step[j] = run.step[j]
      BY <1>6, <2>4
    <3>. QED  BY <1>11, <1>12, <3>1, JoinsStand
  <2>. QED  BY <2>1, <2>2, <2>3, <2>4
<1>16. Counter' /\ IsFiniteSet(Living')
  <2>1. /\ Living' = Living \cup opened
        /\ Living \cap opened = {}
    <3>1. \A j \in Steps : j \in done \cup lost => ~Live(j) /\ ~Live(j)'
      BY <1>4, <1>5, <1>6 DEF Live, Lives, Life
    <3>. QED  BY <1>5, <1>6, <3>1 DEF Living, Live
  <2>2. IsFiniteSet(Living) /\ IsFiniteSet(opened)
    BY <1>5, StepsAssumption, FS_Subset DEF Living
  <2>3. /\ Cardinality(Living \cup opened) = Cardinality(Living) + Cardinality(opened)
        /\ Cardinality(Living) \in Nat /\ Cardinality(opened) \in Nat
    BY <2>1, <2>2, DisjointCards
  <2>4. run.outstanding = Cardinality(Living) + EndsIn(bus) /\ run.outstanding \in Nat
    BY RunFields DEF Lives, Counter, TypeOK
  <2>5. Distance(run.outstanding - 1) = run.outstanding - 1
    BY <1>2, <2>3, <2>4 DEF Distance
  <2>6. run'.outstanding = Cardinality(Living \cup opened) + (EndsIn(bus) - 1)
    BY <1>2, <1>6, <2>3, <2>4, <2>5
  <2>7. IsFiniteSet(Living')
    BY <2>1, <2>2, FS_Union
  <2>. QED  BY <1>9, <2>1, <2>6, <2>7 DEF Counter
<1>17. run'.status \in {"completed", "failed"} => EndsIn(bus') = 0 /\ \A x \in Steps : ~Live(x)'
  <2>1. SUFFICES ASSUME run'.status \in {"completed", "failed"}
                 PROVE  EndsIn(bus') = 0 /\ Living' = {}
    BY DEF Living
  <2>2. run'.outstanding = 0
    BY <1>2, <1>6, <2>1
  <2>3. EndsIn(bus') \in Nat /\ Cardinality(Living') \in Nat
    BY <1>2, <1>9, <1>16, FS_CardinalityType
  <2>4. EndsIn(bus') = 0 /\ Cardinality(Living') = 0
    BY <1>16, <2>2, <2>3 DEF Counter
  <2>. QED  BY <1>16, <2>4, FS_EmptySet
<1>18. Opening'
  BY <1>2, <1>6, <1>9, <1>10, <1>11 DEF Lives, Opening
<1>19. Closing'
  <2>1. announced["run.started"] \in Nat
    BY DEF TypeOK, Announcements
  <2>. QED  BY <1>2, <1>8, <1>9, <1>10, <1>17, <2>1 DEF Closing
<1>20. Kept
  BY <1>2, <1>12 DEF Kept
<1>21. EndSeen
  BY <1>2, <1>6, <1>8, <1>9, <1>10 DEF EndSeen
<1>. QED  BY <1>13, <1>14, <1>15, <1>16, <1>18, <1>19, <1>20, <1>21 DEF Lives

-----------------------------------------------------------------------------
(* The invariant is inductive.                                             *)

LEMMA InitLives == Init => Lives
<1>. SUFFICES ASSUME Init PROVE Lives
  OBVIOUS
<1>1. /\ bus = <<>> /\ load = "none" /\ run.status = "absent" /\ run.outstanding = 0
      /\ run.plannedSteps = {} /\ run.completedSteps = {}
      /\ announced["run.started"] = 0 /\ Ends = 0
      /\ \A s \in Steps : /\ run.step[s] = "none" /\ submitted[s] = 0
                          /\ branching[s] = 0 /\ answers[s] = <<>>
  BY DEF Init, Absent, Announcements, Ends
<1>2. /\ \A s \in Steps : PlansIn(bus, s) = 0 /\ StartsIn(bus, s) = 0
      /\ EndsIn(bus) = 0 /\ BeginsIn(bus) = 0
  BY <1>1, TallyEmpty
<1>3. \A s \in Steps : Life(s) /\ Indexed(s) /\ FamilyAsleep(s) /\ JoinDecided(s)
  BY <1>1, <1>2 DEF Life, Untouched, Asleep, Over, Indexed, FamilyAsleep, JoinDecided
<1>4. Counter
  <2>1. Living = {}
    BY <1>1 DEF Living, Live
  <2>. QED  BY <1>1, <1>2, <2>1, FS_EmptySet DEF Counter
<1>5. Opening /\ Closing
  BY <1>1, <1>2 DEF Opening, Closing, Live
<1>. QED  BY <1>3, <1>4, <1>5 DEF Lives

LEMMA FlowStays == [Next]_vars => flow' = flow
BY DEF Next, Deliver, Loaded, JobAnswers, BranchResolves, vars, Request, RunRequested,
       RunStarted, StepReused, StepPlanned, BranchValueMissing, StepStarted, StepFinished,
       RunFinished, LoadFailed, ForkSpecLoaded, FlowDefLoaded, StepDataLoaded,
       JobAnswered, BranchValueResolved, JobRedelivered

LEMMA StepKeepsLives ==
    ASSUME TypeOK, flow \in Flows, ParallelsOwnChildren, Lives, [Next]_vars
    PROVE  Lives' /\ Kept
<1>1. CASE UNCHANGED vars
  <2>1. Still
    BY <1>1 DEF Still, SameStep, vars
  <2>2. Opening' /\ Closing' /\ Kept
    BY <1>1 DEF Lives, Opening, Closing, Live, Ends, Kept, vars
  <2>. QED  BY <2>1, <2>2, StillLives DEF Lives
<1>2. CASE StepStarted
  BY <1>2, ParallelStartedLives, OtherStartedLives, Zenon
<1>3. CASE Deliver
  BY <1>2, <1>3, RunRequestedLives, RunStartedLives, StepReusedLives, StepPlannedLives,
     BranchValueMissingLives, StepFinishedLives, RunFinishedLives, Zenon DEF Deliver
<1>. QED
  BY <1>1, <1>3, RequestLives, LoadedLives, JobAnsweredLives, JobRedeliveredLives,
     BranchValueResolvedLives, Zenon DEF Next, JobAnswers, BranchResolves

LEMMA EngineInvHolds == Spec => []EngineInv
<1>1. Init => EngineInv
  BY InitType, InitLives DEF EngineInv, Init
<1>2. EngineInv /\ [Next]_vars => EngineInv'
  <2>. SUFFICES ASSUME EngineInv, [Next]_vars PROVE EngineInv'
    OBVIOUS
  <2>1. TypeOK' /\ flow' = flow
    BY StepKeepsTypes, FlowStays DEF EngineInv
  <2>2. ParallelsOwnChildren' <=> ParallelsOwnChildren
    BY <2>1 DEF ParallelsOwnChildren, ParallelEdge, Plans, ControlEdge, BranchEdge,
                JoinNext, Def
  <2>. QED  BY <2>1, <2>2, StepKeepsLives DEF EngineInv
<1>. QED  BY <1>1, <1>2, PTL DEF Spec

-----------------------------------------------------------------------------
(* Why a run at rest has ended.                                            *)

(* A run that has started is begun by its bus or has a step outstanding,   *)
(* until it ends.                                                          *)
Begun ==
    announced["run.started"] > 0 =>
        /\ \A s \in Steps : run.step[s] # "none"
        /\ run.status = "started" => BeginsIn(bus) = 1 \/ run.outstanding # 0
        /\ run.status \in {"completed", "failed"} => Ends > 0

(* Who reuses nothing finds no step reused.                                *)
ReusesNothing ==
    announced["run.started"] = 0 \/ run.fork = NoFork =>
        \A s \in Steps : run.reuse[s] = "none"

(* A branch that has started and refers to its value waits for it.         *)
Awaits(b) == run.step[b] = "started" /\ Def(b).type = "branch" /\ Def(b).ref
                => branching[b] > 0

(* A parallel that has planned its children waits for one of its jobs to   *)
(* be seen to start; until then all of its children are on their way.      *)
Gathering(p) == Def(p).type = "parallel" /\ run.step[p] = "started" /\ StartsIn(bus, p) = 0
OnItsWay(c) ==
    /\ run.step[c] \in {"planned", "started", "completed"}
    /\ Def(c).type = "job" => run.step[c] = "planned" \/ StartsIn(bus, c) > 0
Gathers(p) == Gathering(p) => \A c \in Steps : ParallelEdge(p, c) => OnItsWay(c)

Stirs == /\ Begun /\ ReusesNothing /\ \A b \in Steps : Awaits(b)
         /\ ParallelsRelease /\ run.fork = NoFork => \A p \in Steps : Gathers(p)

StirInv == ParallelsOwnChildren => Stirs

(* The steps of a run are reduced with the fork and the reuse it began     *)
(* with.                                                                   *)
LEMMA PlanFork ==
    ASSUME NEW r \in RunContext, NEW ids
    PROVE  Plan(r, ids).fork = r.fork /\ Plan(r, ids).reuse = r.reuse
BY DEF Plan, RunContext

LEMMA PlannedFork ==
    ASSUME NEW r \in RunContext, NEW s
    PROVE  /\ StepPlannedReducer(r, s).fork = r.fork
           /\ StepPlannedReducer(r, s).reuse = r.reuse
BY DEF StepPlannedReducer, RunContext

LEMMA SettledFork ==
    ASSUME NEW r \in RunContext, NEW s, NEW outcome
    PROVE  /\ SettleReducer(r, s, outcome).fork = r.fork
           /\ SettleReducer(r, s, outcome).reuse = r.reuse
BY DEF SettleReducer, RunContext

LEMMA StartedFork ==
    ASSUME NEW r \in RunContext, NEW s
    PROVE  /\ StepStartedReducer(r, s).fork = r.fork
           /\ StepStartedReducer(r, s).reuse = r.reuse
<1>1. PICK ids : ids = {c \in Def(s).steps : r.step[c] = "initialized"}
  OBVIOUS
<1>2. PICK ps : ps = CompletesWith(r, s)
  OBVIOUS
<1>3. CASE Def(s).type = "parallel"
  <2>1. StepStartedReducer(r, s) = Plan(r, ids)
    BY <1>1, <1>3 DEF StepStartedReducer
  <2>. QED  BY <2>1, PlanFork
<1>4. CASE Def(s).type = "join"
  BY <1>4 DEF StepStartedReducer
<1>5. CASE Def(s).type \notin {"parallel", "join"}
  <2>1. StepStartedReducer(r, s) =
           [r EXCEPT !.step = [p \in Steps |-> IF p \in ps THEN "completed" ELSE @[p]],
                     !.completedSteps = @ \cup ps]
    BY <1>2, <1>5 DEF StepStartedReducer
  <2>. QED  BY <2>1 DEF RunContext
<1>. QED  BY <1>3, <1>4, <1>5

(* An action that moves no step.                                           *)
LEMMA StillStirs ==
    ASSUME TypeOK, Stirs, Quiet, Begun', run'.reuse = run.reuse,
           announced'["run.started"] = announced["run.started"],
           \/ run'.fork = run.fork
           \/ announced["run.started"] = 0 /\ \A s \in Steps : run.step[s] = "none"
    PROVE  Stirs'
<1>1. /\ flow' = flow
      /\ \A s \in Steps : /\ run'.step[s] = run.step[s] /\ branching'[s] = branching[s]
                          /\ StartsIn(bus', s) = StartsIn(bus, s) /\ Def(s)' = Def(s)
      /\ \A p, c \in Steps : ParallelEdge(p, c)' <=> ParallelEdge(p, c)
      /\ ParallelsRelease' <=> ParallelsRelease
  BY DEF Quiet, Still, SameStep, Def, ParallelEdge, ParallelsRelease
<1>2. ReusesNothing'
  BY DEF Stirs, ReusesNothing
<1>3. \A b \in Steps : Awaits(b)'
  BY <1>1 DEF Stirs, Awaits
<1>4. ASSUME ParallelsRelease', run'.fork = NoFork, NEW p \in Steps PROVE Gathers(p)'
  <2>1. CASE run'.fork = run.fork
    BY <1>1, <1>4, <2>1 DEF Stirs, Gathers, Gathering, OnItsWay
  <2>2. CASE \A s \in Steps : run.step[s] = "none"
    BY <1>1, <2>2 DEF Gathers, Gathering
  <2>. QED  BY <2>1, <2>2
<1>. QED  BY <1>2, <1>3, <1>4 DEF Stirs

(* One step moves on, and the parallel above it, if it still gathers, can  *)
(* go on waiting for it.                                                   *)
LEMMA MovesOnStirs ==
    ASSUME TypeOK, Stirs, NEW s \in Steps, MovesOn(s),
           run'.fork = run.fork, run'.reuse = run.reuse, Awaits(s)', ~Gathering(s)',
           ASSUME ParallelsRelease, run.fork = NoFork, NEW p \in Steps,
                  ParallelEdge(p, s), OnItsWay(s)
           PROVE  OnItsWay(s)'
    PROVE  Stirs'
<1>1. /\ flow' = flow
      /\ \A x \in Steps \ {s} : /\ run'.step[x] = run.step[x] /\ branching'[x] = branching[x]
                                /\ StartsIn(bus', x) = StartsIn(bus, x)
      /\ \A x \in Steps : Def(x)' = Def(x)
      /\ \A p, c \in Steps : ParallelEdge(p, c)' <=> ParallelEdge(p, c)
      /\ ParallelsRelease' <=> ParallelsRelease
  BY DEF MovesOn, SameStep, Def, ParallelEdge, ParallelsRelease
<1>2. Begun'
  BY <1>1 DEF Stirs, Begun, MovesOn, Ends
<1>3. ReusesNothing'
  BY DEF Stirs, ReusesNothing, MovesOn
<1>4. ASSUME NEW b \in Steps PROVE Awaits(b)'
  BY <1>1 DEF Stirs, Awaits
<1>5. ASSUME ParallelsRelease', run'.fork = NoFork, NEW p \in Steps PROVE Gathers(p)'
  <2>1. SUFFICES ASSUME Gathering(p)', NEW c \in Steps, ParallelEdge(p, c)
                 PROVE  OnItsWay(c)'
    BY <1>1 DEF Gathers
  <2>2. p # s /\ Gathering(p)
    BY <1>1, <2>1 DEF Gathering
  <2>3. OnItsWay(c)
    BY <1>1, <1>5, <2>1, <2>2 DEF Stirs, Gathers
  <2>4. CASE c = s
    BY <1>1, <1>5, <2>1, <2>3, <2>4
  <2>5. CASE c # s
    BY <1>1, <2>3, <2>5 DEF OnItsWay
  <2>. QED  BY <2>4, <2>5
<1>. QED  BY <1>2, <1>3, <1>4, <1>5 DEF Stirs

(* Before the run.                                                         *)
LEMMA RequestStirs ==
    ASSUME TypeOK, Lives, Stirs, NEW t \in Traces, NEW fork \in Forks \cup {NoFork},
           Request(t, fork)
    PROVE  Stirs'
<1>1. Quiet /\ run' = run /\ announced' = announced
  BY RequestLives DEF Request
<1>2. Begun'
  BY <1>1 DEF Stirs, Begun, Quiet, Ends
<1>. QED  BY <1>1, <1>2, StillStirs

LEMMA RunRequestedStirs ==
    ASSUME TypeOK, Lives, Stirs, RunRequested
    PROVE  Stirs'
<1>1. Quiet
  BY RunRequestedLives
<1>2. /\ announced'["run.started"] = announced["run.started"]
      /\ announced'["run.completed"] = announced["run.completed"]
      /\ announced'["run.failed"] = announced["run.failed"]
  BY DEF RunRequested, Announce, Announcements, TypeOK
<1>3. /\ run'.reuse = run.reuse /\ run'.outstanding = run.outstanding
      /\ \A s \in Steps : run'.step[s] = run.step[s]
      /\ run' = run \/ run.status = "absent"
  BY DEF RunRequested, RunRequestedReducer, TypeOK, RunContext
<1>4. CASE run' = run
  <2>1. Begun'
    BY <1>1, <1>2, <1>4 DEF Stirs, Begun, Quiet, Ends
  <2>. QED  BY <1>1, <1>2, <1>4, <2>1, StillStirs
<1>5. CASE run.status = "absent"
  <2>1. announced["run.started"] = 0 /\ \A s \in Steps : run.step[s] = "none"
    BY <1>5 DEF Lives, Opening
  <2>2. Begun'
    BY <1>2, <2>1 DEF Begun
  <2>. QED  BY <1>1, <1>2, <1>3, <2>1, <2>2, StillStirs
<1>. QED  BY <1>3, <1>4, <1>5

(* A run that fails to load has not begun, one that is planned is begun by *)
(* its run.started.                                                        *)
LEMMA LoadFailedStirs ==
    ASSUME TypeOK, Lives, Stirs, load # "none", flow' = flow, bus' = bus,
           run' = [run EXCEPT !.status = "failed"], Announce({"run.denied"}),
           branching' = branching
    PROVE  Stirs'
<1>1. announced["run.started"] = 0 /\ \A s \in Steps : run.step[s] = "none"
  BY LoadingIsQuiet
<1>2. announced'["run.started"] = announced["run.started"]
  BY DEF Announce, Announcements, TypeOK
<1>3. run'.step = run.step /\ run'.reuse = run.reuse
  BY DEF TypeOK, RunContext
<1>4. Begun' /\ ReusesNothing'
  BY <1>1, <1>2, <1>3 DEF Begun, Stirs, ReusesNothing
<1>5. \A s \in Steps : Awaits(s)' /\ Gathers(s)'
  BY <1>1, <1>3 DEF Awaits, Gathers, Gathering
<1>. QED  BY <1>4, <1>5 DEF Stirs

LEMMA MakeRunPlanStirs ==
    ASSUME TypeOK, Lives, Stirs, load # "none", flow' = flow, NEW valid, NEW data,
           MakeRunPlan(valid, data), branching' = branching
    PROVE  Stirs'
<1>1. CASE SelfReferenced \/ ~valid
  <2>1. run' = [run EXCEPT !.status = "failed"] /\ run'.status = "failed"
    BY <1>1 DEF MakeRunPlan, MakeRunPlanReducer, TypeOK, RunContext
  <2>2. bus' = bus /\ Announce({"run.denied"})
    BY <2>1 DEF MakeRunPlan, Ev
  <2>. QED  BY <2>1, <2>2, LoadFailedStirs
<1>2. CASE ~(SelfReferenced \/ ~valid)
  <2>1. announced["run.started"] = 0 /\ BeginsIn(bus) = 0
    BY LoadingIsQuiet
  <2>2. /\ run'.status = "started" /\ run'.fork = run.fork
        /\ \A s \in Steps : run'.step[s] = "initialized"
        /\ run.fork = NoFork => \A s \in Steps : run'.reuse[s] = "none"
    BY <1>2 DEF MakeRunPlan, MakeRunPlanReducer, TypeOK, RunContext
  <2>3. bus' = Append(bus, Ev("run.started")) /\ Announce({"run.started"})
    BY <2>2 DEF MakeRunPlan, Ev
  <2>4. Ev("run.started") \in Event /\ Ev("run.started").type = "run.started" /\ bus \in Seq(Event)
    BY EventsMade DEF Ev, TypeOK
  <2>5. BeginsIn(bus') = 1
    BY <2>1, <2>3, <2>4, TallyAppend, TallyType DEF One
  <2>6. announced'["run.started"] = 1
    BY <2>1, <2>3 DEF Announce, Announcements, TypeOK
  <2>7. Begun' /\ ReusesNothing'
    BY <2>2, <2>5, <2>6 DEF Begun, ReusesNothing
  <2>8. \A s \in Steps : Awaits(s)' /\ Gathers(s)'
    BY <2>2 DEF Awaits, Gathers, Gathering
  <2>. QED  BY <2>7, <2>8 DEF Stirs
<1>. QED  BY <1>1, <1>2

LEMMA LoadedStirs ==
    ASSUME TypeOK, Lives, Stirs, Loaded
    PROVE  Stirs'
<1>1. CASE LoadFailed
  BY <1>1, LoadFailedStirs DEF LoadFailed, LoadFailedReducer
<1>2. ASSUME UNCHANGED <<flow, run, bus, branching, submitted, answers, announced>>
      PROVE  Stirs'
  <2>1. Quiet
    BY <1>2 DEF Quiet, Still, SameStep
  <2>2. Begun'
    BY <1>2 DEF Stirs, Begun, Ends
  <2>. QED  BY <1>2, <2>1, <2>2, StillStirs
<1>3. CASE ForkSpecLoaded
  BY <1>2, <1>3 DEF ForkSpecLoaded, jobVars
<1>4. ASSUME NEW valid \in BOOLEAN, FlowDefLoaded(valid) PROVE Stirs'
  BY <1>2, <1>4, MakeRunPlanStirs DEF FlowDefLoaded, jobVars
<1>5. ASSUME NEW valid \in BOOLEAN, NEW data \in [Steps -> Outcomes],
             StepDataLoaded(valid, data)
      PROVE  Stirs'
  BY <1>5, MakeRunPlanStirs DEF StepDataLoaded, jobVars
<1>. QED  BY <1>1, <1>3, <1>4, <1>5 DEF Loaded

LEMMA RunStartedStirs ==
    ASSUME TypeOK, flow \in Flows, ParallelsOwnChildren, Lives, Stirs, RunStarted
    PROVE  Stirs'
<1>1. RunBegins /\ announced' = announced
  BY RunStartedLives DEF RunStarted
<1>2. run'.fork = run.fork /\ run'.reuse = run.reuse
  BY PlanFork DEF RunStarted, RunStartedReducer, TypeOK
<1>3. Begun' /\ ReusesNothing'
  BY <1>1, <1>2 DEF Begun, RunBegins, Stirs, ReusesNothing
<1>4. \A s \in Steps : Awaits(s)' /\ Gathers(s)'
  BY <1>1 DEF RunBegins, Awaits, Gathers, Gathering
<1>. QED  BY <1>3, <1>4 DEF Stirs

(* One step moves on.                                                      *)
LEMMA StepReusedStirs ==
    ASSUME TypeOK, flow \in Flows, Lives, Stirs, StepReused
    PROVE  Stirs'
<1>1. PICK s : s = Head(bus).step
  OBVIOUS
<1>2. MovesOn(s) /\ s \in Steps /\ run.step[s] = "planned" /\ s \in run.plannedSteps
  BY <1>1, StepReusedLives, PlannedFacts DEF StepReused
<1>3. run.reuse[s] # "none" /\ run' = StepPlannedReducer(run, s)
  BY <1>1 DEF StepReused
<1>4. run'.fork = run.fork /\ run'.reuse = run.reuse
  BY <1>3, PlannedFork DEF TypeOK
<1>5. run'.step[s] # "started"
  BY <1>2, <1>3, PlannedIs, RunFields DEF TypeOK, Outcomes
<1>6. run.fork # NoFork
  BY <1>2, <1>3 DEF Stirs, ReusesNothing
<1>7. Awaits(s)' /\ ~Gathering(s)'
  BY <1>5 DEF Awaits, Gathering
<1>. QED  BY <1>2, <1>4, <1>6, <1>7, MovesOnStirs

LEMMA StepPlannedStirs ==
    ASSUME TypeOK, flow \in Flows, Lives, Stirs, NEW admitted \in Admission,
           StepPlanned(admitted)
    PROVE  Stirs'
<1>1. PICK s : s = Head(bus).step
  OBVIOUS
<1>2. /\ MovesOn(s) /\ StartsIn(bus', s) = 1
      /\ s \in Steps /\ run.step[s] = "planned" /\ s \in run.plannedSteps
  BY <1>1, StepPlannedLives, PlannedFacts DEF StepPlanned
<1>3. run.reuse[s] = "none" /\ run' = StepPlannedReducer(run, s)
  BY <1>1 DEF StepPlanned
<1>4. run'.fork = run.fork /\ run'.reuse = run.reuse
  BY <1>3, PlannedFork DEF TypeOK
<1>5. run'.step[s] = "started" /\ Def(s)' = Def(s)
  BY <1>2, <1>3, PlannedIs DEF TypeOK, MovesOn, Def
<1>6. Awaits(s)'
  <2>1. Def(s).type = "branch" /\ Def(s).ref => branching'[s] = branching[s] + 1
    BY <1>1, <1>2 DEF StepPlanned, TypeOK
  <2>2. branching[s] \in Nat
    BY <1>2 DEF TypeOK
  <2>. QED  BY <1>5, <2>1, <2>2 DEF Awaits
<1>7. ~Gathering(s)' /\ OnItsWay(s)'
  BY <1>2, <1>5 DEF Gathering, OnItsWay
<1>. QED  BY <1>2, <1>4, <1>6, <1>7, MovesOnStirs

LEMMA BranchValueMissingStirs ==
    ASSUME TypeOK, flow \in Flows, Lives, Stirs, BranchValueMissing
    PROVE  Stirs'
<1>1. PICK s : s = Head(bus).step
  OBVIOUS
<1>2. MovesOn(s) /\ s \in Steps
  BY <1>1, BranchValueMissingLives, PlannedFacts DEF BranchValueMissing
<1>3. /\ Def(s).type = "branch"
      /\ run' = SettleReducer(StepPlannedReducer(run, s), s, "failure")
  BY <1>1 DEF BranchValueMissing
<1>4. StepPlannedReducer(run, s) \in RunContext /\ "failure" \in Outcomes
  BY <1>2, PlannedType DEF TypeOK, Outcomes
<1>5. run'.fork = run.fork /\ run'.reuse = run.reuse
  <2>1. PICK mid : mid = StepPlannedReducer(run, s)
    OBVIOUS
  <2>2. mid.fork = run.fork /\ mid.reuse = run.reuse
    BY <2>1, PlannedFork DEF TypeOK
  <2>. QED  BY <1>3, <1>4, <2>1, <2>2, SettledFork
<1>6. run'.step[s] # "started"
  <2>1. PICK mid \in RunContext : mid = StepPlannedReducer(run, s)
    BY <1>4
  <2>. QED  BY <1>2, <1>3, <1>4, <2>1, SettledIs
<1>7. Awaits(s)' /\ ~Gathering(s)'
  BY <1>6 DEF Awaits, Gathering
<1>8. ASSUME ParallelsRelease, NEW p \in Steps, ParallelEdge(p, s) PROVE FALSE
  BY <1>3, <1>8 DEF ParallelsRelease, ParallelEdge
<1>. QED  BY <1>2, <1>5, <1>7, <1>8, MovesOnStirs

(* A job whose step.started has been handled is above no parallel that     *)
(* gathers, and branches are not.                                          *)
LEMMA SettledStirs ==
    ASSUME TypeOK, flow \in Flows, Stirs, NEW s \in Steps, NEW outcome \in Outcomes,
           MovesOn(s), run' = SettleReducer(run, s, outcome),
           \/ Def(s).type = "branch"
           \/ Def(s).type = "job" /\ run.step[s] = "started" /\ StartsIn(bus, s) = 0
    PROVE  Stirs'
<1>1. run'.fork = run.fork /\ run'.reuse = run.reuse
  BY SettledFork DEF TypeOK
<1>2. run'.step[s] # "started"
  BY SettledIs DEF TypeOK
<1>3. Awaits(s)' /\ ~Gathering(s)'
  BY <1>2 DEF Awaits, Gathering
<1>4. ASSUME ParallelsRelease, NEW p \in Steps, ParallelEdge(p, s), OnItsWay(s) PROVE FALSE
  BY <1>4 DEF ParallelsRelease, ParallelEdge, OnItsWay
<1>. QED  BY <1>1, <1>3, <1>4, MovesOnStirs

LEMMA JobAnsweredStirs ==
    ASSUME TypeOK, flow \in Flows, Lives, Stirs, NEW s \in Steps, NEW outcome \in Outcomes,
           JobAnswered(s, outcome)
    PROVE  Stirs'
<1>1. MovesOn(s) /\ run' = SettleReducer(run, s, outcome) /\ StartsIn(bus, s) = 0
  BY JobAnsweredLives, HandledStart DEF JobAnswered, JobFinished
<1>2. submitted[s] > 0
  <2>1. Len(answers[s]) < submitted[s] /\ submitted[s] \in Nat /\ Len(answers[s]) \in Nat
    BY DEF JobAnswered, TypeOK
  <2>. QED  BY <2>1
<1>3. Def(s).type = "job" /\ ~Untouched(s)
  BY <1>2 DEF Lives, Life, Untouched
<1>4. run.step[s] = "started"
  <2>1. Life(s) /\ run.step[s] \in {"planned", "started"}
    BY <1>1 DEF Lives, MovesOn, Live
  <2>. QED  BY <1>3, <2>1 DEF Life
<1>. QED  BY <1>1, <1>3, <1>4, SettledStirs

LEMMA BranchValueResolvedStirs ==
    ASSUME TypeOK, flow \in Flows, Lives, Stirs, NEW s \in Steps, NEW outcome \in Outcomes,
           NEW value \in BranchValues, BranchValueResolved(s, outcome, value)
    PROVE  Stirs'
<1>1. MovesOn(s) /\ run' = SettleReducer(run, s, outcome) /\ branching[s] > 0
  BY BranchValueResolvedLives DEF BranchValueResolved
<1>2. Def(s).type = "branch"
  BY <1>1 DEF Lives, Life
<1>. QED  BY <1>1, <1>2, SettledStirs

LEMMA JobRedeliveredStirs ==
    ASSUME TypeOK, flow \in Flows, Lives, Stirs, NEW s \in Steps, NEW i \in DOMAIN answers[s],
           JobRedelivered(s, i)
    PROVE  Stirs'
<1>1. Quiet /\ announced' = announced /\ answers[s][i] \in Outcomes
  <2>1. answers[s] \in Seq(Outcomes)
    BY DEF TypeOK
  <2>. QED  BY <2>1, JobRedeliveredLives, ElementOfSeq DEF JobRedelivered
<1>2. run' = SettleReducer(run, s, answers[s][i])
  BY DEF JobRedelivered, JobFinished
<1>3. /\ run'.fork = run.fork /\ run'.reuse = run.reuse
      /\ run'.status = run.status /\ run'.outstanding = run.outstanding
  <2>1. PICK o \in Outcomes : o = answers[s][i]
    BY <1>1
  <2>. QED  BY <1>2, <2>1, SettledFork, SettledIs DEF TypeOK
<1>4. Begun'
  BY <1>1, <1>3 DEF Stirs, Begun, Quiet, Still, SameStep, Ends
<1>. QED  BY <1>1, <1>3, <1>4, StillStirs

(* A parallel that has planned its children gathers them.                  *)
LEMMA ParallelStartedStirs ==
    ASSUME TypeOK, flow \in Flows, ParallelsOwnChildren, Lives, Stirs, StepStarted,
           Def(Head(bus).step).type = "parallel"
    PROVE  Stirs'
<1>1. PICK s : s = Head(bus).step
  OBVIOUS
<1>2. /\ s \in Steps /\ run.step[s] = "started" /\ Def(s).type = "parallel"
      /\ StartsIn(bus, s) > 0 /\ StartSeen(s)
  BY <1>1, StartedFacts, ParallelStartedLives DEF StepStarted
<1>3. PICK ids : ids = {c \in Def(s).steps : run.step[c] = "initialized"}
  OBVIOUS
<1>4. ids \in SUBSET Steps /\ IsFiniteSet(ids) /\ Cardinality(ids) \in Nat
  BY <1>2, <1>3, DefType, StepsAssumption, FS_Subset, FS_CardinalityType DEF TypeOK
<1>5. run' = Plan(run, ids)
  BY <1>1, <1>2, <1>3 DEF StepStarted, StepStartedReducer
<1>6. /\ run'.status = run.status
      /\ run'.outstanding = run.outstanding + Cardinality(ids)
      /\ run'.fork = run.fork /\ run'.reuse = run.reuse
      /\ \A x \in Steps : run'.step[x] = IF x \in ids THEN "planned" ELSE run.step[x]
  BY <1>5 DEF Plan, TypeOK, RunContext
<1>7. /\ flow' = flow /\ announced' = announced /\ branching' = branching
      /\ \A x \in Steps : Def(x)' = Def(x)
      /\ \A p, c \in Steps : ParallelEdge(p, c)' <=> ParallelEdge(p, c)
      /\ ParallelsRelease' <=> ParallelsRelease
  BY DEF StepStarted, Def, ParallelEdge, ParallelsRelease
<1>8. Begun'
  <2>1. run.outstanding \in Nat
    BY RunFields DEF TypeOK
  <2>2. run.outstanding # 0 => run'.outstanding # 0
    BY <1>4, <1>6, <2>1
  <2>3. \A x \in Steps : run.step[x] # "none" => run'.step[x] # "none"
    BY <1>6
  <2>. QED  BY <1>2, <1>6, <1>7, <2>2, <2>3 DEF Stirs, Begun, StartSeen, Ends
<1>9. ReusesNothing' /\ \A b \in Steps : Awaits(b)'
  BY <1>6, <1>7 DEF Stirs, ReusesNothing, Awaits
<1>10. ASSUME ParallelsRelease', run'.fork = NoFork, NEW p \in Steps PROVE Gathers(p)'
  <2>1. SUFFICES ASSUME Gathering(p)', NEW c \in Steps, ParallelEdge(p, c)
                 PROVE  OnItsWay(c)'
    BY <1>7 DEF Gathers
  <2>2. run.step[p] = "started" /\ Def(p).type = "parallel"
    BY <1>6, <1>7, <2>1 DEF Gathering
  <2>3. CASE p = s
    <3>1. run.step[c] \in {"none", "initialized"} /\ c \in Def(s).steps
      BY <1>2, <2>1, <2>3 DEF Lives, FamilyAsleep, Asleep, ParallelEdge
    <3>2. run.step[c] # "none"
      <4>1. announced["run.started"] # 0 /\ announced["run.started"] \in Nat
        BY <1>2 DEF Lives, Opening, TypeOK, Announcements
      <4>. QED  BY <4>1 DEF Stirs, Begun
    <3>3. run'.step[c] = "planned"
      BY <1>3, <1>6, <3>1, <3>2
    <3>. QED  BY <3>3 DEF OnItsWay
  <2>4. CASE p # s
    <3>1. Gathering(p)
      BY <1>2, <1>7, <2>1, <2>2, <2>4 DEF Gathering, StartSeen
    <3>2. OnItsWay(c)
      BY <1>6, <1>7, <1>10, <2>1, <3>1 DEF Stirs, Gathers
    <3>3. c \notin ids
      BY <1>3, <3>2 DEF OnItsWay
    <3>4. CASE c = s
      BY <1>2, <1>6, <1>7, <3>2, <3>3, <3>4 DEF OnItsWay
    <3>5. CASE c # s
      BY <1>2, <1>6, <1>7, <3>2, <3>3, <3>5 DEF OnItsWay, StartSeen
    <3>. QED  BY <3>4, <3>5
  <2>. QED  BY <2>3, <2>4
<1>. QED  BY <1>8, <1>9, <1>10 DEF Stirs

(* The first job of a parallel that is seen to start completes it.         *)
LEMMA OtherStartedStirs ==
    ASSUME TypeOK, flow \in Flows, ParallelsOwnChildren, Lives, Stirs, StepStarted,
           Def(Head(bus).step).type # "parallel"
    PROVE  Stirs'
<1>1. PICK s : s = Head(bus).step
  OBVIOUS
<1>2. /\ s \in Steps /\ run.step[s] \in {"started", "completed", "failed"}
      /\ Def(s).type # "branch" => run.step[s] = "started"
      /\ Def(s).type # "join" /\ Def(s).type # "parallel" /\ StartSeen(s)
  BY <1>1, StartedFacts, OtherStartedLives DEF StepStarted
<1>3. PICK ps : ps = CompletesWith(run, s)
  OBVIOUS
<1>4. /\ ps \in SUBSET Steps
      /\ \A p \in ps : run.step[p] = "started" /\ Def(p).type = "parallel"
  BY <1>3 DEF CompletesWith, ParallelEdge
<1>5. /\ run'.status = run.status /\ run'.outstanding = run.outstanding
      /\ run'.fork = run.fork /\ run'.reuse = run.reuse
      /\ \A x \in Steps : run'.step[x] = IF x \in ps THEN "completed" ELSE run.step[x]
  <2>1. run' = [run EXCEPT !.step = [p \in Steps |-> IF p \in ps THEN "completed"
                                                              ELSE @[p]],
                           !.completedSteps = @ \cup ps]
    BY <1>1, <1>2, <1>3 DEF StepStarted, StepStartedReducer
  <2>. QED  BY <1>4, <2>1 DEF TypeOK, RunContext
<1>6. /\ flow' = flow /\ announced' = announced /\ branching' = branching
      /\ \A x \in Steps : Def(x)' = Def(x)
      /\ \A p, c \in Steps : ParallelEdge(p, c)' <=> ParallelEdge(p, c)
      /\ ParallelsRelease' <=> ParallelsRelease
  BY DEF StepStarted, Def, ParallelEdge, ParallelsRelease
<1>7. Begun'
  <2>1. \A x \in Steps : run.step[x] # "none" => run'.step[x] # "none"
    BY <1>5
  <2>. QED  BY <1>2, <1>5, <1>6, <2>1 DEF Stirs, Begun, StartSeen, Ends
<1>8. ReusesNothing' /\ \A b \in Steps : Awaits(b)'
  BY <1>5, <1>6 DEF Stirs, ReusesNothing, Awaits
<1>9. ASSUME ParallelsRelease', run'.fork = NoFork, NEW p \in Steps PROVE Gathers(p)'
  <2>1. SUFFICES ASSUME Gathering(p)', NEW c \in Steps, ParallelEdge(p, c)
                 PROVE  OnItsWay(c)'
    BY <1>6 DEF Gathers
  <2>2. Gathering(p) /\ p \notin ps
    BY <1>2, <1>5, <1>6, <2>1 DEF Gathering, StartSeen
  <2>3. \A d \in Steps : ParallelEdge(p, d) => OnItsWay(d)
    BY <1>5, <1>6, <1>9, <2>2 DEF Stirs, Gathers
  <2>4. c # s
    <3>. SUFFICES ASSUME ParallelEdge(p, s) PROVE p \in ps
      BY <2>1, <2>2
    <3>1. \A d \in Def(p).steps : d \in Steps /\ ParallelEdge(p, d)
      BY <2>2, DefType DEF ParallelEdge, Gathering, TypeOK
    <3>2. \A d \in Def(p).steps : run.step[d] \in {"started", "completed", "planned"}
      BY <2>3, <3>1 DEF OnItsWay
    <3>. QED  BY <1>3, <2>2, <3>2 DEF CompletesWith, Gathering
  <2>5. OnItsWay(c) /\ StartsIn(bus', c) = StartsIn(bus, c)
    BY <1>2, <2>1, <2>3, <2>4 DEF StartSeen
  <2>6. CASE c \in ps
    BY <1>4, <1>5, <1>6, <2>6 DEF OnItsWay
  <2>7. CASE c \notin ps
    BY <1>5, <1>6, <2>5, <2>7 DEF OnItsWay
  <2>. QED  BY <2>6, <2>7
<1>. QED  BY <1>7, <1>8, <1>9 DEF Stirs

(* What the end of a step opens or decides has no parallel above it.       *)
LEMMA StepFinishedStirs ==
    ASSUME TypeOK, flow \in Flows, ParallelsOwnChildren, Lives, Stirs, StepFinished
    PROVE  Stirs'
<1>1. PICK e : e = Head(bus)
  OBVIOUS
<1>2. e \in EndEvent /\ EndSeen
  BY <1>1, EndFacts, StepFinishedLives DEF StepFinished
<1>3. PICK done, lost, opened : /\ done = JoinsCompletedBy(run, e.step)
                                /\ lost = JoinsFailedBy(run, e.step)
                                /\ opened = OpenedBy(run, e)
  OBVIOUS
<1>4. \A j \in done \cup lost : j \in Steps /\ Def(j).type = "join"
  BY <1>3 DEF JoinsCompletedBy, JoinsFailedBy, JoinEdge
<1>5. \A d \in opened : d \in Steps /\ \A p \in Steps : ~ParallelEdge(p, d)
  BY <1>2, <1>3, OpenedFacts
<1>6. /\ run'.fork = run.fork /\ run'.reuse = run.reuse
      /\ \A s \in Steps : run'.step[s] = IF s \in opened THEN "planned"
                                         ELSE IF s \in done THEN "completed"
                                         ELSE IF s \in lost THEN "failed"
                                         ELSE run.step[s]
  <2>1. run' = StepFinishedReducer(run, e) /\ run \in RunContext
    BY <1>1 DEF StepFinished, TypeOK
  <2>. QED  BY <1>3, <2>1, FinishedIs
<1>7. /\ flow' = flow /\ branching' = branching
      /\ \A x \in Steps : Def(x)' = Def(x)
      /\ \A p, c \in Steps : ParallelEdge(p, c)' <=> ParallelEdge(p, c)
      /\ ParallelsRelease' <=> ParallelsRelease
  BY DEF StepFinished, Def, ParallelEdge, ParallelsRelease
<1>8. announced["run.started"] > 0
  <2>1. announced["run.started"] # 0 /\ announced["run.started"] \in Nat
    BY EndFacts DEF StepFinished, TypeOK, Announcements
  <2>. QED  BY <2>1
<1>9. Begun'
  <2>1. \A x \in Steps : run.step[x] # "none" => run'.step[x] # "none"
    BY <1>6
  <2>. QED  BY <1>2, <1>8, <2>1 DEF Stirs, Begun, EndSeen
<1>10. ReusesNothing'
  <2>1. announced'["run.started"] # 0
    BY <1>2, <1>8 DEF EndSeen
  <2>. QED  BY <1>6, <2>1 DEF Stirs, ReusesNothing
<1>11. \A b \in Steps : Awaits(b)'
  BY <1>6, <1>7 DEF Stirs, Awaits
<1>12. ASSUME ParallelsRelease', run'.fork = NoFork, NEW p \in Steps PROVE Gathers(p)'
  <2>1. SUFFICES ASSUME Gathering(p)', NEW c \in Steps, ParallelEdge(p, c)
                 PROVE  OnItsWay(c)'
    BY <1>7 DEF Gathers
  <2>2. Gathering(p)
    BY <1>2, <1>6, <1>7, <2>1 DEF Gathering, EndSeen
  <2>3. OnItsWay(c)
    BY <1>6, <1>7, <1>12, <2>1, <2>2 DEF Stirs, Gathers
  <2>4. Def(c).type # "join"
    BY <2>1, ShapesOf DEF ParallelEdge
  <2>5. run'.step[c] = run.step[c] /\ StartsIn(bus', c) = StartsIn(bus, c)
    BY <1>2, <1>4, <1>5, <1>6, <2>1, <2>4 DEF EndSeen
  <2>. QED  BY <1>7, <2>3, <2>5 DEF OnItsWay
<1>. QED  BY <1>9, <1>10, <1>11, <1>12 DEF Stirs

LEMMA RunFinishedStirs ==
    ASSUME TypeOK, Lives, Stirs, RunFinished
    PROVE  Stirs'
<1>1. Quiet /\ run' = run
  BY RunFinishedLives DEF RunFinished
<1>2. /\ announced'["run.started"] = announced["run.started"]
      /\ announced'["run.completed"] = announced["run.completed"]
      /\ announced'["run.failed"] = announced["run.failed"]
  BY DEF RunFinished, Announce, Announcements
<1>3. Begun'
  BY <1>1, <1>2 DEF Stirs, Begun, Quiet, Ends
<1>. QED  BY <1>1, <1>2, <1>3, StillStirs

LEMMA StepKeepsStirs ==
    ASSUME TypeOK, flow \in Flows, ParallelsOwnChildren, Lives, Stirs, [Next]_vars
    PROVE  Stirs'
<1>1. CASE UNCHANGED vars
  <2>1. Quiet
    BY <1>1 DEF Quiet, Still, SameStep, vars
  <2>2. Begun'
    BY <1>1 DEF Stirs, Begun, Ends, vars
  <2>. QED  BY <1>1, <2>1, <2>2, StillStirs DEF vars
<1>2. CASE StepStarted
  BY <1>2, ParallelStartedStirs, OtherStartedStirs, Zenon
<1>3. CASE Deliver
  BY <1>2, <1>3, RunRequestedStirs, RunStartedStirs, StepReusedStirs, StepPlannedStirs,
     BranchValueMissingStirs, StepFinishedStirs, RunFinishedStirs, Zenon DEF Deliver
<1>. QED
  BY <1>1, <1>3, RequestStirs, LoadedStirs, JobAnsweredStirs, JobRedeliveredStirs,
     BranchValueResolvedStirs, Zenon DEF Next, JobAnswers, BranchResolves

LEMMA StirsHolds == Spec => [](EngineInv /\ StirInv)
<1>1. Init => StirInv
  <2>. SUFFICES ASSUME Init PROVE Stirs
    BY DEF StirInv
  <2>1. /\ announced["run.started"] = 0
        /\ \A s \in Steps : run.step[s] = "none" /\ run.reuse[s] = "none"
    BY DEF Init, Absent, Announcements
  <2>. QED  BY <2>1 DEF Stirs, Begun, ReusesNothing, Awaits, Gathers, Gathering
<1>2. EngineInv /\ StirInv /\ [Next]_vars => StirInv'
  <2>. SUFFICES ASSUME EngineInv, StirInv, [Next]_vars PROVE StirInv'
    OBVIOUS
  <2>1. ParallelsOwnChildren' <=> ParallelsOwnChildren
    BY FlowStays DEF ParallelsOwnChildren, ParallelEdge, Plans, ControlEdge, BranchEdge,
                     JoinNext, Def
  <2>. QED  BY <2>1, StepKeepsStirs DEF EngineInv, StirInv
<1>. QED  BY <1>1, <1>2, EngineInvHolds, PTL DEF Spec

-----------------------------------------------------------------------------
(* What follows from it.                                                   *)

LEMMA EndEventsCounted ==
    ASSUME TypeOK
    PROVE  /\ Cardinality(EndEvents) = EndsIn(bus)
           /\ EndsIn(bus) = 0 => EndEvents = {}
<1>1. /\ bus \in Seq(Event)
      /\ \A i \in DOMAIN bus : bus[i] \in Event
  BY ElementOfSeq DEF TypeOK
<1>2. EndEvents = Places(bus, EndEvent)
  BY <1>1, EventKinds DEF EndEvents, Places
<1>3. IsFiniteSet(Places(bus, EndEvent))
  BY <1>1, CountFinite
<1>. QED  BY <1>2, <1>3, FS_EmptySet DEF EndsIn, Count

(* The counter a run settles on (outstandingSteps) is the number of steps  *)
(* that are planned or started and of step endings the engine has          *)
(* published and not yet reduced, in any flow whose parallels own their    *)
(* children.                                                               *)
THEOREM OutstandingIsExact == Spec => []OutstandingExact
<1>1. EngineInv => OutstandingExact
  <2>. SUFFICES ASSUME EngineInv, ParallelsOwnChildren
                PROVE  run.outstanding = Cardinality({s \in Steps : Live(s)})
                                            + Cardinality(EndEvents)
    BY DEF OutstandingExact
  <2>. QED  BY EndEventsCounted DEF EngineInv, Lives, Counter, Living
<1>. QED  BY <1>1, EngineInvHolds, PTL

(* When run.completed or run.failed has been published no step is live,    *)
(* no step ending waits, no job and no branch value is awaited.            *)
LEMMA SettledRunsAreQuiet == EngineInv => SettledIsQuiet
<1>. SUFFICES ASSUME EngineInv, ParallelsOwnChildren, Ends > 0
              PROVE  /\ \A s \in Steps : /\ ~Live(s) /\ branching[s] = 0
                                         /\ Len(answers[s]) >= submitted[s]
                     /\ EndEvents = {} /\ load = "none"
  BY DEF SettledIsQuiet
<1>1. TypeOK /\ Lives
  BY DEF EngineInv
<1>2. EndsIn(bus) = 0 /\ \A s \in Steps : ~Live(s)
  BY <1>1 DEF Lives, Closing
<1>3. EndEvents = {}
  BY <1>1, <1>2, EndEventsCounted
<1>4. load = "none"
  BY <1>1, LoadingIsQuiet
<1>5. ASSUME NEW s \in Steps
      PROVE  branching[s] = 0 /\ Len(answers[s]) >= submitted[s]
  <2>1. /\ Life(s) /\ run.step[s] \in StepStatus /\ submitted[s] \in Nat
        /\ run.step[s] \notin {"planned", "started"}
    BY <1>1, <1>2, RunFields DEF Lives, TypeOK, Live
  <2>2. Asleep(s) \/ Over(s)
    BY <2>1 DEF Asleep, Over, StepStatus
  <2>3. CASE Asleep(s)
    <3>1. branching[s] = 0 /\ submitted[s] = 0 /\ answers[s] = <<>>
      BY <2>1, <2>3 DEF Life, Untouched
    <3>. QED  BY <3>1
  <2>4. CASE Over(s)
    <3>1. branching[s] = 0 /\ Len(answers[s]) = submitted[s]
      BY <2>1, <2>4 DEF Life
    <3>. QED  BY <2>1, <3>1
  <2>. QED  BY <2>2, <2>3, <2>4
<1>. QED  BY <1>2, <1>3, <1>4, <1>5

(* When nothing comes any more the run that started has ended, if its      *)
(* parallels own their children and release, its branches refer to their   *)
(* values, nothing is reused and no job was refused.                       *)
LEMMA RestingRunsAreSettled == EngineInv /\ StirInv => RestIsSettled
<1>. SUFFICES ASSUME EngineInv, StirInv, ParallelsOwnChildren, ParallelsRelease, BranchesRefer,
                     run.fork = NoFork, NoneRefused, AtRest, Ends # announced["run.started"]
              PROVE  FALSE
  BY DEF RestIsSettled
<1>1. TypeOK /\ Lives /\ Stirs
  BY DEF EngineInv, StirInv
<1>2. /\ \A s \in Steps : PlansIn(bus, s) = 0 /\ StartsIn(bus, s) = 0
      /\ EndsIn(bus) = 0 /\ BeginsIn(bus) = 0
  BY TallyEmpty DEF AtRest
<1>3. announced["run.started"] > 0 /\ Ends = 0
  <2>1. /\ announced["run.started"] \in Nat /\ Ends \in Nat
        /\ announced["run.started"] <= 1 /\ Ends <= announced["run.started"]
    BY <1>1 DEF TypeOK, Announcements, Ends, Lives, Opening, Closing
  <2>. QED  BY <2>1
<1>4. run.status = "started"
  <2>1. run.status \in RunStatus
    BY <1>1, RunFields DEF TypeOK
  <2>2. run.status \notin {"absent", "requested"}
    BY <1>1, <1>3 DEF Lives, Opening
  <2>3. run.status \notin {"completed", "failed"}
    BY <1>1, <1>3 DEF Stirs, Begun
  <2>. QED  BY <2>1, <2>2, <2>3 DEF RunStatus
<1>5. PICK s \in Steps : Live(s)
  <2>1. run.outstanding # 0
    BY <1>1, <1>2, <1>3, <1>4 DEF Stirs, Begun
  <2>2. Living # {}
    <3>1. run.outstanding = Cardinality(Living) + 0
      BY <1>1, <1>2 DEF Lives, Counter
    <3>. QED  BY <2>1, <3>1, FS_EmptySet
  <2>. QED  BY <2>2 DEF Living
<1>6. run.step[s] = "started"
  BY <1>1, <1>2, <1>5 DEF Live, Lives, Life
<1>7. answers[s] = <<>> /\ Def(s).type \in {"job", "parallel", "branch"}
  BY <1>1, <1>6, DefType DEF Lives, Life, StepTypes, TypeOK
<1>8. CASE Def(s).type = "job"
  <2>1. submitted[s] \in Nat /\ submitted[s] > 0 /\ Len(answers[s]) >= submitted[s]
    BY <1>1, <1>6, <1>8 DEF NoneRefused, AtRest, TypeOK
  <2>. QED  BY <1>7, <2>1
<1>9. CASE Def(s).type = "branch"
  BY <1>1, <1>6, <1>9 DEF BranchesRefer, Stirs, Awaits, AtRest
<1>10. CASE Def(s).type = "parallel"
  <2>1. PICK c \in Def(s).steps : Def(c).type = "job"
    BY <1>10 DEF ParallelsRelease
  <2>2. c \in Steps /\ ParallelEdge(s, c)
    BY <1>1, <1>10, <2>1, DefType DEF ParallelEdge, TypeOK
  <2>3. OnItsWay(c)
    BY <1>1, <1>2, <1>6, <1>10, <2>2 DEF Stirs, Gathers, Gathering
  <2>4. run.step[c] = "planned"
    BY <1>2, <2>1, <2>2, <2>3 DEF OnItsWay
  <2>. QED  BY <1>1, <1>2, <2>2, <2>4 DEF Lives, Life
<1>. QED  BY <1>7, <1>8, <1>9, <1>10

(* A run is quiet after its end, and has ended when it is quiet: nothing   *)
(* goes on in a run that is over, and no run that has started and has no   *)
(* more to come is left without a verdict.                                 *)
THEOREM RunsSettleWhenQuiet == Spec => []SettledAndQuiet
BY SettledRunsAreQuiet, RestingRunsAreSettled, StirsHolds, PTL DEF SettledAndQuiet

(* The job of a step is submitted at most once.                            *)
THEOREM JobsSubmittedOnce == Spec => []SubmittedOnce
<1>1. EngineInv => SubmittedOnce
  <2>. SUFFICES ASSUME EngineInv, ParallelsOwnChildren, NEW s \in Steps
                PROVE  submitted[s] <= 1
    BY DEF SubmittedOnce
  <2>1. Life(s) /\ run.step[s] \in StepStatus
    BY RunFields DEF EngineInv, Lives, TypeOK
  <2>2. submitted[s] <= 1 \/ submitted[s] = 0
    BY <2>1 DEF Life, Untouched, Asleep, Over, StepStatus
  <2>. QED  BY <2>2
<1>. QED  BY <1>1, EngineInvHolds, PTL

(* A step that is over and a run that is over stay as they are, whatever   *)
(* terminal arrives, arrives again or arrives late.                        *)
THEOREM OverIsIrrevocable == Spec => Irrevocable
<1>1. EngineInv /\ [Next]_vars =>
        [ParallelsOwnChildren =>
            /\ \A s \in Steps : Over(s) => run'.step[s] = run.step[s]
            /\ run.status \in {"completed", "failed"} => run'.status = run.status]_vars
  BY StepKeepsLives DEF EngineInv, Kept
<1>. QED  BY <1>1, EngineInvHolds, PTL DEF Spec, Irrevocable

=============================================================================
