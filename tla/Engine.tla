------------------------------- MODULE Engine -------------------------------
(***************************************************************************)
(* The orchestration of one run by the workflow engine                     *)
(* (packages/components/engine/src).  The engine is a reducer / planner /  *)
(* effect loop: a message is reduced to a new run context, the planner     *)
(* compares the old and the new context, and the effects it plans publish  *)
(* step and run events on the engine's own event bus, submit jobs or load  *)
(* artifacts.  The bus is a FIFO (InMemoryEventBus.publish defers with     *)
(* queueMicrotask) and the engine subscribes to what it publishes, so a    *)
(* run advances by the engine consuming its own events, interleaved with   *)
(* the completions of jobs and loads, which arrive at any time.            *)
(*                                                                         *)
(* Each action is one message handled to the end: processNext, and every   *)
(* nested processAll an effect makes before it yields.  Several runs share *)
(* nothing but the bus, so one run is modelled.                            *)
(***************************************************************************)
EXTENDS Integers, Sequences, FiniteSets, SequencesExt

CONSTANTS
    Steps,         \* step ids of a flow definition
    Inherited,     \* a string every object literal has as a key
    BranchValues,  \* what a branch's value may turn out to be
    None,          \* "no step": an absent `on` target, an unmatched case
    Flows,         \* the flow definitions the run may be asked to execute
    Forks,         \* the fork specs a request may carry: sets of reused steps
    NoFork,        \* "no forkSpecHash": an ordinary run
    Traces,        \* trace ids of the run.requested events of this run id
    Redeliveries,  \* how often the carrier may deliver a terminal again
    Admission      \* outcomes of publishing a job: {TRUE}, or BOOLEAN

StepTypes == {"job", "parallel", "join", "branch"}

(* A step definition.  `steps` are the children of a parallel, the inputs  *)
(* of a join, the targets of a branch's cases; `next` is on.success of a   *)
(* job (httpjson, http, mcp), next of a join, default of a branch;         *)
(* `failure` is on.failure; `ref` says that a branch's value is a          *)
(* reference rather than a literal.                                        *)
StepDef == [type : StepTypes, steps : SUBSET Steps, next : Steps \cup {None},
            failure : Steps \cup {None}, ref : BOOLEAN]

FlowDef == [start : Steps, steps : [Steps -> StepDef]]

(* A parallel lists at least one step: step-started.reducer throws on an   *)
(* empty one, and nothing here models a handler that throws.               *)
ParallelsNotEmpty(f) ==
    \A s \in Steps : f.steps[s].type = "parallel" => f.steps[s].steps # {}

(* Joins are entered by the join edges of other steps and by nothing else: *)
(* then the order in which step-finished.reducer walks the out edges of a  *)
(* step does not matter, and outEdges[join][0] is the edge to next.        *)
JoinsOnlyJoin(f) ==
    LET Joins == {j \in Steps : f.steps[j].type = "join"}
    IN  /\ f.start \notin Joins
        /\ \A s \in Steps : /\ f.steps[s].next \notin Joins
                            /\ f.steps[s].failure \notin Joins
                            /\ f.steps[s].steps \cap Joins = {}

ASSUME StepsAssumption == /\ IsFiniteSet(Steps) /\ None \notin Steps
                          /\ Inherited \notin Steps \cup {None}
ASSUME ValuesAssumption == BranchValues \subseteq Steps \cup {None, Inherited}
ASSUME FlowsAssumption == /\ Flows \subseteq FlowDef
                          /\ \A f \in Flows : /\ JoinsOnlyJoin(f)
                                              /\ ParallelsNotEmpty(f)
ASSUME ForksAssumption == Forks \subseteq SUBSET Steps /\ NoFork \notin Forks
ASSUME TracesAssumption == None \notin Traces
ASSUME BoundsAssumption == Redeliveries \in Nat /\ Admission \subseteq BOOLEAN

VARIABLES
    flow,       \* the stored flow definition the run's flowDefHash names
    requested,  \* traces that have published run.requested for this run id
    run,        \* RunContext, the engine's state of the run
    bus,        \* events published and not yet handled, oldest first
    load,       \* the artifact or query load in flight before the run starts
    branching,  \* loads of branch values in flight, per step
    submitted,  \* jobs submitted per step
    answers,    \* terminals the carrier has delivered, per step
    redelivered,\* terminals delivered again
    announced   \* run and flow events published for observers, by type

vars == <<flow, requested, run, bus, load, branching, submitted, answers,
          redelivered, announced>>
jobVars == <<submitted, answers, redelivered>>

Outcomes == {"success", "failure"}
RunStatus == {"absent", "requested", "started", "completed", "failed"}
StepStatus == {"none", "initialized", "planned", "started", "completed",
               "failed"}
Loads == {"none", "flowDef", "forkSpec", "stepData"}
Announcements == {"run.denied", "run.started", "run.completed", "run.failed",
                  "flow.completed", "flow.failed"}

RunContext == [status : RunStatus, trace : Traces \cup {None},
               fork : Forks \cup {NoFork},
               reuse : [Steps -> Outcomes \cup {"none"}],
               step : [Steps -> StepStatus], outstanding : Nat,
               plannedSteps : SUBSET Steps, completedSteps : SUBSET Steps,
               failedSteps : SUBSET Steps]

RunEvent == [type : {"run.started", "run.completed", "run.failed"}]
RequestEvent == [type : {"run.requested"}, trace : Traces,
                 fork : Forks \cup {NoFork}]
StepEvent == [type : {"step.planned", "step.started"}, step : Steps]
EndEvent == [type : {"step.completed", "step.failed", "step.reused"},
             step : Steps, status : Outcomes,
             case : Steps \cup {None, Inherited}]
Event == RunEvent \cup RequestEvent \cup StepEvent \cup EndEvent

TypeOK == /\ flow \in FlowDef
          /\ requested \subseteq Traces
          /\ run \in RunContext
          /\ bus \in Seq(Event)
          /\ load \in Loads
          /\ branching \in [Steps -> Nat]
          /\ submitted \in [Steps -> Nat]
          /\ answers \in [Steps -> Seq(Outcomes)]
          /\ redelivered \in Nat
          /\ announced \in [Announcements -> Nat]

-----------------------------------------------------------------------------
(* The edges analyzeFlow derives from the definition.                      *)

Def(s) == flow.steps[s]
ParallelEdge(p, s) == Def(p).type = "parallel" /\ s \in Def(p).steps
JoinEdge(s, j) == Def(j).type = "join" /\ s \in Def(j).steps
ControlEdge(s, d, gate) ==
    \/ Def(s).type = "job" /\ gate = "success" /\ d = Def(s).next
    \/ Def(s).type = "job" /\ gate = "failure" /\ d = Def(s).failure
JoinNext(j, d) == Def(j).type = "join" /\ d = Def(j).next
BranchEdge(s, d, case) ==
    /\ Def(s).type = "branch"
    /\ \/ d \in Def(s).steps /\ d = case
       \/ d = Def(s).next /\ case = None

SelfReferenced == \E s \in Steps : \/ s \in Def(s).steps
                                   \/ s = Def(s).next
                                   \/ s = Def(s).failure

-----------------------------------------------------------------------------
(* Reducers: run context -> run context.                                   *)

Absent == [status |-> "absent", trace |-> None, fork |-> NoFork,
           reuse |-> [s \in Steps |-> "none"],
           step |-> [s \in Steps |-> "none"], outstanding |-> 0,
           plannedSteps |-> {}, completedSteps |-> {}, failedSteps |-> {}]

(* Mutant: a request for a known run id starts it over.                    *)
MutRequestedAgain(r, e) ==
    [r EXCEPT !.status = "requested", !.trace = e.trace, !.fork = e.fork]

RunRequestedReducer(r, e) ==
    IF r.status # "absent" THEN r
    ELSE [r EXCEPT !.status = "requested", !.trace = e.trace, !.fork = e.fork]

LoadFailedReducer(r) == [r EXCEPT !.status = "failed"]

MakeRunPlanReducer(r, valid, data) ==
    IF SelfReferenced \/ ~valid THEN [r EXCEPT !.status = "failed"]
    ELSE [r EXCEPT !.status = "started",
                   !.reuse = [s \in Steps |-> IF r.fork # NoFork /\ s \in r.fork
                                              THEN data[s] ELSE "none"],
                   !.step = [s \in Steps |-> "initialized"]]

(* Mutants: steps planned together count as one; not counted; subtracted.  *)
MutPlanCountsOnce(r, ids) ==
    [r EXCEPT !.step = [s \in Steps |-> IF s \in ids THEN "planned" ELSE @[s]],
              !.plannedSteps = @ \cup ids,
              !.outstanding = IF ids = {} THEN @ ELSE @ + 1]
MutPlanUncounted(r, ids) ==
    [r EXCEPT !.step = [s \in Steps |-> IF s \in ids THEN "planned" ELSE @[s]],
              !.plannedSteps = @ \cup ids]
MutPlanSubtracts(r, ids) ==
    [r EXCEPT !.step = [s \in Steps |-> IF s \in ids THEN "planned" ELSE @[s]],
              !.plannedSteps = @ \cup ids,
              !.outstanding = @ - Cardinality(ids)]

Plan(r, ids) ==
    [r EXCEPT !.step = [s \in Steps |-> IF s \in ids THEN "planned" ELSE @[s]],
              !.plannedSteps = @ \cup ids,
              !.outstanding = @ + Cardinality(ids)]

RunStartedReducer(r) ==
    IF r.step[flow.start] = "none" THEN r ELSE Plan(r, {flow.start})

(* Mutant: a reused step stays planned.                                    *)
MutReusedStaysPlanned(r, s) ==
    IF r.step[s] # "planned" \/ s \notin r.plannedSteps THEN r
    ELSE [r EXCEPT !.plannedSteps = @ \ {s},
                   !.step[s] = IF r.reuse[s] = "none" THEN "started" ELSE @]

StepPlannedReducer(r, s) ==
    IF r.step[s] # "planned" \/ s \notin r.plannedSteps THEN r
    ELSE [r EXCEPT !.plannedSteps = @ \ {s},
                   !.step[s] = CASE r.reuse[s] = "none" -> "started"
                                 [] r.reuse[s] = "success" -> "completed"
                                 [] r.reuse[s] = "failure" -> "failed"]

(* Mutant: the parallel waits for its children to complete.                *)
MutWaitsForCompleted(r, s) ==
    {p \in Steps : /\ ParallelEdge(p, s) /\ r.step[p] = "started"
                   /\ \A c \in Def(p).steps : r.step[c] = "completed"}

CompletesWith(r, s) ==
    {p \in Steps : /\ ParallelEdge(p, s) /\ r.step[p] = "started"
                   /\ \A c \in Def(p).steps :
                         r.step[c] \in {"started", "completed", "planned"}}

StepStartedReducer(r, s) ==
    CASE Def(s).type = "parallel" ->
            Plan(r, {c \in Def(s).steps : r.step[c] = "initialized"})
      [] Def(s).type = "join" -> r
      [] OTHER -> LET ps == CompletesWith(r, s) IN
            [r EXCEPT !.step = [p \in Steps |-> IF p \in ps THEN "completed"
                                                            ELSE @[p]],
                      !.completedSteps = @ \cup ps]

SettleReducer(r, s, outcome) ==
    IF outcome = "success"
    THEN [r EXCEPT !.step[s] = "completed", !.completedSteps = @ \cup {s}]
    ELSE [r EXCEPT !.step[s] = "failed", !.failedSteps = @ \cup {s}]

(* Mutant: a join completes with its first completed input.                *)
MutFirstInputCompletes(r, s) ==
    {j \in Steps : JoinEdge(s, j) /\ \E d \in Def(j).steps :
                                        r.step[d] = "completed"}

JoinsCompletedBy(r, s) ==
    {j \in Steps : JoinEdge(s, j) /\ \A d \in Def(j).steps :
                                        r.step[d] = "completed"}
JoinsFailedBy(r, s) ==
    {j \in Steps : JoinEdge(s, j) /\ \A d \in Def(j).steps :
                                        r.step[d] \in {"completed", "failed"}}
        \ JoinsCompletedBy(r, s)

(* Mutants: a step past "initialized" is planned again; next of a join is  *)
(* not planned.                                                            *)
MutOpensAgain(r, e) ==
    {d \in Steps : \/ ControlEdge(e.step, d, e.status)
                   \/ e.type = "step.completed"
                         /\ BranchEdge(e.step, d, e.case)
                   \/ \E j \in JoinsCompletedBy(r, e.step) : JoinNext(j, d)}
MutNoJoinNext(r, e) ==
    {d \in Steps : /\ r.step[d] = "initialized"
                   /\ \/ ControlEdge(e.step, d, e.status)
                      \/ e.type = "step.completed"
                            /\ BranchEdge(e.step, d, e.case)}

OpenedBy(r, e) ==
    {d \in Steps : /\ r.step[d] = "initialized"
                   /\ \/ ControlEdge(e.step, d, e.status)
                      \/ e.type = "step.completed"
                            /\ BranchEdge(e.step, d, e.case)
                      \/ \E j \in JoinsCompletedBy(r, e.step) : JoinNext(j, d)}

(* Mutant: the steps that failed are not asked about.                      *)
MutAlwaysCompleted(r) ==
    IF r.outstanding # 0 THEN r ELSE [r EXCEPT !.status = "completed"]

SetRunStatus(r) ==
    IF r.outstanding # 0 THEN r
    ELSE [r EXCEPT !.status = IF r.failedSteps # {} THEN "failed"
                                                    ELSE "completed"]

Distance(n) == IF n < 0 THEN -n ELSE n

StepFinishedReducer(r, e) ==
    LET done == JoinsCompletedBy(r, e.step)
        lost == JoinsFailedBy(r, e.step)
        joined == [r EXCEPT !.outstanding = Distance(@ - 1),
                            !.step = [s \in Steps |-> CASE s \in done -> "completed"
                                                        [] s \in lost -> "failed"
                                                        [] OTHER -> @[s]],
                            !.completedSteps = @ \cup done,
                            !.failedSteps = @ \cup lost]
    IN  SetRunStatus(Plan(joined, OpenedBy(r, e)))

-----------------------------------------------------------------------------
(* Effects and their constructors.                                         *)

Ev(type) == [type |-> type]
StepEv(type, s) == [type |-> type, step |-> s]
Ended(s, outcome, case) ==
    [type |-> IF outcome = "success" THEN "step.completed" ELSE "step.failed",
     step |-> s, status |-> outcome, case |-> case]
Reused(s, outcome) == [type |-> "step.reused", step |-> s, status |-> outcome,
                       case |-> None]

(* The order of the out edges of a step is the author's: any order.        *)
PlannedEvents(ids) == {[i \in DOMAIN q |-> StepEv("step.planned", q[i])] :
                          q \in SetToSeqs(ids)}
CompletedEvents(ids) == {[i \in DOMAIN q |-> Ended(q[i], "success", None)] :
                            q \in SetToSeqs(ids)}

Announce(types) == announced' = [a \in Announcements |->
                        IF a \in types THEN announced[a] + 1 ELSE announced[a]]
Announcing(events) == Announce({events[i].type : i \in DOMAIN events})

-----------------------------------------------------------------------------
(* Before the run: request, loads, plan.                                   *)

Init == /\ flow \in Flows
        /\ requested = {}
        /\ run = Absent
        /\ bus = <<>>
        /\ load = "none"
        /\ branching = [s \in Steps |-> 0]
        /\ submitted = [s \in Steps |-> 0]
        /\ answers = [s \in Steps |-> <<>>]
        /\ redelivered = 0
        /\ announced = [a \in Announcements |-> 0]

(* A caller (run service, sim service) publishes run.requested.            *)
Request(t, fork) ==
    /\ t \notin requested
    /\ requested' = requested \cup {t}
    /\ bus' = Append(bus, [type |-> "run.requested", trace |-> t,
                           fork |-> fork])
    /\ UNCHANGED <<flow, run, load, branching, jobVars, announced>>

Handles(types) == bus # <<>> /\ Head(bus).type \in types

RunRequested ==
    /\ Handles({"run.requested"})
    /\ run' = RunRequestedReducer(run, Head(bus))
    /\ bus' = Tail(bus)
    /\ IF run'.status # "requested" \/ run'.trace # Head(bus).trace
       THEN Announce({"run.denied"}) /\ UNCHANGED load
       ELSE load' = "flowDef" /\ UNCHANGED announced
    /\ UNCHANGED <<flow, requested, branching, jobVars>>

(* The MakeRunPlan message, handled inside the load that planned it.       *)
MakeRunPlan(valid, data) ==
    /\ load' = "none"
    /\ run' = MakeRunPlanReducer(run, valid, data)
    /\ LET e == Ev(IF run'.status = "started" THEN "run.started"
                                              ELSE "run.denied")
       IN  /\ Announce({e.type})
           /\ bus' = IF e.type = "run.started" THEN Append(bus, e) ELSE bus

LoadFailed == /\ load # "none"
              /\ load' = "none"
              /\ run' = LoadFailedReducer(run)
              /\ Announce({"run.denied"})
              /\ UNCHANGED <<flow, requested, bus, branching, jobVars>>

FlowDefLoaded(valid) ==
    /\ load = "flowDef"
    /\ IF run.fork # NoFork
       THEN load' = "forkSpec" /\ UNCHANGED <<run, bus, announced>>
       ELSE MakeRunPlan(valid, [s \in Steps |-> "none"])
    /\ UNCHANGED <<flow, requested, branching, jobVars>>

ForkSpecLoaded == /\ load = "forkSpec"
                  /\ load' = "stepData"
                  /\ UNCHANGED <<flow, requested, run, bus, branching, jobVars,
                                 announced>>

StepDataLoaded(valid, data) ==
    /\ load = "stepData"
    /\ MakeRunPlan(valid, data)
    /\ UNCHANGED <<flow, requested, branching, jobVars>>

-----------------------------------------------------------------------------
(* The run: the engine's own events.                                       *)

RunStarted ==
    /\ Handles({"run.started"})
    /\ run' = RunStartedReducer(run)
    /\ LET s == flow.start
           fresh == /\ run.step[s] = "initialized" /\ run'.step[s] = "planned"
                    /\ s \notin run.plannedSteps /\ s \in run'.plannedSteps
       IN  bus' = Tail(bus) \o (IF fresh THEN <<StepEv("step.planned", s)>>
                                         ELSE <<>>)
    /\ UNCHANGED <<flow, requested, load, branching, jobVars, announced>>

StepReused ==
    /\ Handles({"step.planned"})
    /\ LET s == Head(bus).step IN
       /\ run.reuse[s] # "none"
       /\ run' = StepPlannedReducer(run, s)
       /\ bus' = Append(Tail(bus),
                        Reused(s, IF run'.step[s] = "completed" THEN "success"
                                                                ELSE "failure"))
    /\ UNCHANGED <<flow, requested, load, branching, jobVars, announced>>

(* The planner does not ask whether the reducer moved the step: a second   *)
(* step.planned starts the step, and submits its job, again.               *)
StepPlanned(admitted) ==
    /\ Handles({"step.planned"})
    /\ LET s == Head(bus).step IN
       /\ run.reuse[s] = "none"
       /\ run' = StepPlannedReducer(run, s)
       /\ bus' = Append(Tail(bus), StepEv("step.started", s))
       /\ submitted' = IF Def(s).type = "job" /\ admitted
                       THEN [submitted EXCEPT ![s] = @ + 1] ELSE submitted
       /\ branching' = IF Def(s).type = "branch" /\ Def(s).ref
                       THEN [branching EXCEPT ![s] = @ + 1] ELSE branching
    /\ UNCHANGED <<flow, requested, load, answers, redelivered, announced>>

(* A branch whose referenced value does not exist (ref.hash is null) fails *)
(* synchronously, before its own step.started has been handled.            *)
BranchValueMissing ==
    /\ Handles({"step.planned"})
    /\ LET s == Head(bus).step IN
       /\ run.reuse[s] = "none" /\ Def(s).type = "branch" /\ Def(s).ref
       /\ run' = SettleReducer(StepPlannedReducer(run, s), s, "failure")
       /\ bus' = Tail(bus) \o <<StepEv("step.started", s),
                                Ended(s, "failure", None)>>
    /\ UNCHANGED <<flow, requested, load, branching, jobVars, announced>>

StepStarted ==
    /\ Handles({"step.started"})
    /\ LET s == Head(bus).step IN
       /\ run' = StepStartedReducer(run, s)
       /\ \E planned \in PlannedEvents(
                IF Def(s).type # "parallel" THEN {}
                ELSE {c \in Def(s).steps : run'.step[c] = "planned"}),
             ended \in CompletedEvents(run'.completedSteps
                                         \ run.completedSteps) :
             bus' = Tail(bus) \o planned \o ended
    /\ UNCHANGED <<flow, requested, load, branching, jobVars, announced>>

(* A job's terminal or a branch's value, which the event of step s waits   *)
(* for; both come back through the host's event loop, after every event    *)
(* that was published before them, the step's own step.started included.   *)
StartHandled(s) == \A i \in DOMAIN bus : bus[i] # StepEv("step.started", s)

JobFinished(s, outcome) ==
    /\ run' = SettleReducer(run, s, outcome)
    /\ bus' = IF run'.step[s] = run.step[s] THEN bus
              ELSE Append(bus, Ended(s, outcome, None))

JobAnswered(s, outcome) ==
    /\ Len(answers[s]) < submitted[s] /\ StartHandled(s)
    /\ answers' = [answers EXCEPT ![s] = Append(@, outcome)]
    /\ JobFinished(s, outcome)
    /\ UNCHANGED <<flow, requested, load, branching, submitted, redelivered,
                   announced>>

JobRedelivered(s, i) ==
    /\ i \in DOMAIN answers[s] /\ redelivered < Redeliveries
    /\ redelivered' = redelivered + 1
    /\ JobFinished(s, answers[s][i])
    /\ UNCHANGED <<flow, requested, load, branching, submitted, answers,
                   announced>>

(* `stringValue in cases`: a declared case, or a member of the prototype.  *)
MatchedCase(s, value) ==
    IF value \in Def(s).steps \cup {Inherited} THEN value ELSE None

BranchValueResolved(s, outcome, value) ==
    /\ branching[s] > 0 /\ StartHandled(s)
    /\ branching' = [branching EXCEPT ![s] = @ - 1]
    /\ run' = SettleReducer(run, s, outcome)
    /\ bus' = Append(bus, Ended(s, outcome, IF outcome = "success"
                                            THEN MatchedCase(s, value)
                                            ELSE None))
    /\ UNCHANGED <<flow, requested, load, jobVars, announced>>

(* Mutant: whatever is planned is announced, not what became planned.      *)
MutAllPlanned(old, new) == new.plannedSteps
NewlyPlanned(old, new) == {s \in new.plannedSteps \ old.plannedSteps :
                              old.step[s] = "initialized"}

StepFinished ==
    /\ Handles({"step.completed", "step.failed", "step.reused"})
    /\ run' = StepFinishedReducer(run, Head(bus))
    /\ LET fresh == NewlyPlanned(run, run')
           end == IF run'.outstanding # 0 THEN <<>>
                  ELSE CASE run'.status = "completed" -> <<Ev("run.completed")>>
                         [] run'.status = "failed" -> <<Ev("run.failed")>>
                         [] OTHER -> <<>>
       IN  /\ \E planned \in PlannedEvents(fresh) :
                 bus' = Tail(bus) \o planned \o end
           /\ Announcing(end)
    /\ UNCHANGED <<flow, requested, load, branching, jobVars>>

RunFinished ==
    /\ Handles({"run.completed", "run.failed"})
    /\ bus' = Tail(bus)
    /\ Announce(CASE run.status = "completed" -> {"flow.completed"}
                  [] run.status = "failed" -> {"flow.failed"}
                  [] OTHER -> {})
    /\ UNCHANGED <<flow, requested, run, load, branching, jobVars>>

-----------------------------------------------------------------------------
Deliver == \/ RunRequested \/ RunStarted \/ StepReused
           \/ \E admitted \in Admission : StepPlanned(admitted)
           \/ BranchValueMissing
           \/ StepStarted \/ StepFinished \/ RunFinished

Loaded == \/ LoadFailed \/ ForkSpecLoaded
          \/ \E valid \in BOOLEAN : FlowDefLoaded(valid)
          \/ \E valid \in BOOLEAN, data \in [Steps -> Outcomes] :
                StepDataLoaded(valid, data)

BranchResolves(s) == \E outcome \in Outcomes, value \in BranchValues :
                        BranchValueResolved(s, outcome, value)
JobAnswers(s) == \E outcome \in Outcomes : JobAnswered(s, outcome)

Next == \/ \E t \in Traces, fork \in Forks \cup {NoFork} : Request(t, fork)
        \/ Deliver
        \/ Loaded
        \/ \E s \in Steps : \/ JobAnswers(s)
                            \/ BranchResolves(s)
                            \/ \E i \in DOMAIN answers[s] : JobRedelivered(s, i)

Spec == Init /\ [][Next]_vars

(* The event loop drains the bus; a load returns; the carrier and the      *)
(* worker answer each admitted job.                                        *)
FairSpec == /\ Spec
            /\ WF_vars(Deliver) /\ WF_vars(Loaded)
            /\ \A s \in Steps : WF_vars(JobAnswers(s))
                                 /\ WF_vars(BranchResolves(s))

=============================================================================
