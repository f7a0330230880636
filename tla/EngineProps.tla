----------------------------- MODULE EngineProps -----------------------------
(***************************************************************************)
(* What the engine promises about a run, over the state of module Engine.  *)
(***************************************************************************)
EXTENDS Engine

Live(s) == run.step[s] \in {"planned", "started"}
Over(s) == run.step[s] \in {"completed", "failed"}
EndEvents == {i \in DOMAIN bus :
                 bus[i].type \in {"step.completed", "step.failed", "step.reused"}}
Ends == announced["run.completed"] + announced["run.failed"]

(* Shapes of flows.  A parallel owns its children when nothing else plans  *)
(* them; every parallel releases when one of its children is a job and     *)
(* none can fail before it has been seen to start.                         *)
Plans(s, d) == \/ \E gate \in Outcomes : ControlEdge(s, d, gate)
               \/ \E case \in Steps \cup {None} : BranchEdge(s, d, case)
               \/ JoinNext(s, d)
ParallelsOwnChildren ==
    \A p, c \in Steps : ParallelEdge(p, c) =>
        /\ c # flow.start
        /\ \A s \in Steps : ~Plans(s, c) /\ (ParallelEdge(s, c) => s = p)
ParallelsRelease ==
    \A p \in Steps : Def(p).type = "parallel" =>
        /\ \E c \in Def(p).steps : Def(c).type = "job"
        /\ \A c \in Def(p).steps : Def(c).type # "branch"
BranchesRefer == \A s \in Steps : Def(s).type = "branch" => Def(s).ref
ReusesOnlyJobs == \A s \in Steps : run.reuse[s] # "none" => Def(s).type = "job"

-----------------------------------------------------------------------------
(* outstandingSteps counts the steps that are planned or started and the   *)
(* step endings still on the bus, no more and no less; the run settles on  *)
(* this counter reaching zero (step-finished.reducer, set-run-status).     *)
OutstandingExact ==
    ParallelsOwnChildren =>
        run.outstanding = Cardinality({s \in Steps : Live(s)})
                              + Cardinality(EndEvents)

(* When run.completed or run.failed has been published nothing of the run  *)
(* is still going on: no step is live, no step ending waits on the bus, no *)
(* job or branch value is awaited.                                         *)
SettledIsQuiet ==
    ParallelsOwnChildren /\ Ends > 0 =>
        /\ \A s \in Steps : /\ ~Live(s) /\ branching[s] = 0
                            /\ Len(answers[s]) >= submitted[s]
        /\ EndEvents = {} /\ load = "none"

(* And the other way round: when nothing comes any more, because the bus   *)
(* is drained, no load is in flight and every job and branch value that    *)
(* was asked for has come, the run that started has ended.  It does so if  *)
(* every branch's value is a reference, parallels own their children and   *)
(* release, nothing is reused and the carrier has refused none of its      *)
(* jobs; otherwise it may stall.                                           *)
AtRest == /\ bus = <<>> /\ load = "none"
          /\ \A s \in Steps : branching[s] = 0 /\ Len(answers[s]) >= submitted[s]
NoneRefused == \A s \in Steps : run.step[s] = "started" /\ Def(s).type = "job"
                                    => submitted[s] > 0
RestIsSettled ==
    /\ ParallelsOwnChildren /\ ParallelsRelease /\ BranchesRefer
    /\ run.fork = NoFork /\ NoneRefused /\ AtRest
    => Ends = announced["run.started"]

(* A run is quiet after its end, and ends before it is quiet.              *)
SettledAndQuiet == SettledIsQuiet /\ RestIsSettled

(* A run starts at most once, ends at most once and only if it started,    *)
(* and its flow.* event repeats the run's verdict.                         *)
EndsOnce ==
    ParallelsOwnChildren =>
        /\ announced["run.started"] <= 1 /\ Ends <= announced["run.started"]
        /\ announced["flow.completed"] <= announced["run.completed"]
        /\ announced["flow.failed"] <= announced["run.failed"]

(* The job of a step is submitted at most once.                            *)
SubmittedOnce == ParallelsOwnChildren => \A s \in Steps : submitted[s] <= 1

(* No step leaves "initialized" without a cause: it is the start step, or  *)
(* an edge into it has been earned by the step at its other end.           *)
Caused ==
    ParallelsOwnChildren =>
    \A d \in Steps : run.step[d] \notin {"none", "initialized"} =>
        \/ d = flow.start
        \/ \E s \in Steps :
            \/ ParallelEdge(s, d) /\ run.step[s] \in {"started", "completed"}
            \/ ControlEdge(s, d, "success") /\ run.step[s] = "completed"
            \/ ControlEdge(s, d, "failure") /\ run.step[s] = "failed"
            \/ run.step[s] = "completed"
                 /\ \E case \in Steps \cup {None} : BranchEdge(s, d, case)
            \/ JoinNext(s, d) /\ run.step[s] = "completed"
        \/ Def(d).type = "join" /\ \A s \in Def(d).steps : Over(s)

(* When the run ends, every edge that was earned has been followed, so no  *)
(* work was forgotten: a finished step has planned the targets of its      *)
(* outcome, a completed branch one of its targets, and a join whose inputs *)
(* are all over has been decided by them.  (A reused parallel or branch    *)
(* plans nothing; docs/todo.md:163.  A branch that takes its default and   *)
(* has none, or an inherited member for its case, plans nothing either.)   *)
NothingForgotten ==
    ParallelsOwnChildren /\ ReusesOnlyJobs /\ Ends > 0 =>
        \A s \in Steps :
            LET left(d) == run.step[d] = "initialized" IN
            /\ \A d \in Steps :
                 /\ run.step[s] = "completed" /\ ControlEdge(s, d, "success")
                        => ~left(d)
                 /\ run.step[s] = "failed" /\ ControlEdge(s, d, "failure")
                        => ~left(d)
                 /\ run.step[s] = "completed" /\ JoinNext(s, d) => ~left(d)
                 /\ run.step[s] = "completed" /\ ParallelEdge(s, d) => ~left(d)
            /\ run.step[s] = "completed" /\ Def(s).type = "branch"
                  /\ Def(s).next # None /\ Inherited \notin BranchValues
                 => \E d \in Def(s).steps \cup {Def(s).next} : ~left(d)
            /\ Def(s).type = "join" /\ Def(s).steps # {}
                  /\ (\A d \in Def(s).steps : Over(d))
                 => run.step[s] = IF \A d \in Def(s).steps :
                                       run.step[d] = "completed"
                                  THEN "completed" ELSE "failed"

(* A failure that counts: of an executed step, or of a join.  One that was *)
(* reused is not counted (step-planned.reducer).                           *)
Fails(s) == run.step[s] = "failed" /\ (run.reuse[s] = "none" \/ Def(s).type = "join")

(* The verdict is the steps': run.completed means that no failure counts,  *)
(* run.failed that one does, handled by on.failure or not.                 *)
VerdictOfSteps ==
    ParallelsOwnChildren =>
        /\ announced["run.completed"] > 0 => \A s \in Steps : ~Fails(s)
        /\ announced["run.failed"] > 0 => \E s \in Steps : Fails(s)

(* Every request for the run id gets exactly one answer, run.denied or     *)
(* run.started, however requests and loads interleave.                     *)
RequestsAnswered ==
    load = "none" /\ (\A i \in DOMAIN bus : bus[i].type # "run.requested") =>
        announced["run.denied"] + announced["run.started"]
            = Cardinality(requested)

(* Whatever is requested, refused or delivered again: each request is      *)
(* answered once, and the run that was asked for starts and ends once.     *)
AnsweredOnce == RequestsAnswered /\ EndsOnce

(* A step that is over and a run that is over stay as they are, whatever   *)
(* terminal arrives, arrives again or arrives late.                        *)
Irrevocable ==
    [][ParallelsOwnChildren =>
        /\ \A s \in Steps : Over(s) => run'.step[s] = run.step[s]
        /\ run.status \in {"completed", "failed"} => run'.status = run.status]_vars

(* A requested run is denied or ends, when every branch's value is a       *)
(* reference, parallels own their children and release, and nothing is     *)
(* reused.                                                                 *)
Settles ==
    (requested # {}) ~>
        \/ Ends > 0 \/ announced["run.denied"] > 0
        \/ ~ParallelsOwnChildren \/ ~ParallelsRelease \/ ~BranchesRefer
        \/ run.fork # NoFork

-----------------------------------------------------------------------------
(* Claims of the repository that the code does not keep; each is the       *)
(* property of a run that is expected to violate it.                       *)

(* job-finished.planner.ts:35 says that a step's second terminal "requires *)
(* a carrier that redelivers, which none does today".  Without redelivery  *)
(* a step has one terminal.                                                *)
OneTerminalPerStep == \A s \in Steps : Len(answers[s]) <= 1

(* step-started.planner.ts:59 speaks of "parallel steps that complete when *)
(* all steps have started": once they all have, the parallel completes.    *)
ParallelCompletes ==
    \A p \in Steps :
        /\ Def(p).type = "parallel" /\ run.step[p] = "started"
        /\ \A c \in Def(p).steps : run.step[c] \notin {"initialized", "planned"}
      ~> run.step[p] = "completed"

(* resolve-branch-value.effect.test.ts:57: a value that matches no         *)
(* declared case resolves to null, which takes the default.                *)
BranchTakesACase ==
    \A i \in EndEvents :
        LET s == bus[i].step IN
        Def(s).type = "branch" => bus[i].case \in Def(s).steps \cup {None}

=============================================================================
