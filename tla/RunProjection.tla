--------------------------- MODULE RunProjection ---------------------------
(***************************************************************************)
(* One run as the outside sees it: the request writes its row, the events  *)
(* of the run pass the observability tap, the SQL sink projects them onto    *)
(* the row of the run and the rows of its steps, and requests for its      *)
(* outcome wait for the projection to settle.                              *)
(*                                                                         *)
(* The tap hands every event to one sink after the other and awaits each,  *)
(* for all events at once: `ticks` is the queue of the microtasks that     *)
(* resume it.  The sinks, in the order in which they were attached, are    *)
(* the SQL sink, the eval sink, and one for every listener of the event    *)
(* stream.                                                                 *)
(*                                                                         *)
(* A call of the database is one step, taken when the database runs it;    *)
(* whoever awaits it goes on in the same step.                             *)
(***************************************************************************)
EXTENDS Integers, Sequences, SequencesExt, FiniteSets

CONSTANTS
    Steps, Judge,   \* of the flow; the one whose export is an eval's score
    Waiters,        \* requests for the outcome
    Listeners,      \* connections of the event stream
    MaxReads,       \* of the eval sink, before it gives up
    Surroundings,   \* to choose from: who comes, the steps, how many database calls fail
                    \* (faults), how many microtasks are pending when the
                    \* engine emits (burst), and whether the run judges another
    NoStep

ASSUME JudgeIsNoStep == NoStep \notin Steps

(* The judge is a step of the flow; reads, failures and pending microtasks *)
(* are bounded.                                                            *)
ASSUME SurroundingsAssumption ==
    /\ Judge \in Steps /\ MaxReads \in Nat
    /\ Surroundings \subseteq [clients : SUBSET (Waiters \cup Listeners), steps : SUBSET Steps,
                               faults : Nat, burst : Nat, isEval : BOOLEAN]

SqlSink == 1
EvalSink == 2

VARIABLES
    request,     \* of RunService.requestRun: creating, created, emitted, refused
    around,      \* one of Surroundings, fixed
    published,   \* the events of the run, in order
    sinks, gone, \* the listeners attached so far, in order; those detached
    ticks,       \* pairs <<event, sink>>: the sink has just handled the event
    seen,        \* per listener: the events it was given
    judging,     \* the eval sink's work: the event that waits for it, its reads
    evalResult,
    index,       \* the sink's shadow of the run: its steps, as inserted
    status, dirty, rowWritten,
    flush,       \* what the flush loop of the run awaits
    row, stepRow,   \* the database
    registered,  \* the notifier's waiters
    wait,        \* per waiter: where waitForRun is
    faults

tap == <<sinks, gone, ticks, seen, judging, evalResult>>
shadow == <<index, status, dirty, rowWritten, flush>>
db == <<row, stepRow>>
waiting == <<registered, wait>>
vars == <<around, request, published, tap, shadow, db, waiting, faults>>

-----------------------------------------------------------------------------
Terminal == {"completed", "failed"}
RunStatus == {"requested", "started"} \cup Terminal
StepStatus == {"started", "success", "failure"}

RunEvent(type) == [type |-> type, step |-> NoStep, status |-> "none"]
StepEvent(type, s, st) == [type |-> type, step |-> s, status |-> st]
Events == {RunEvent(t) : t \in {"run.requested", "run.started", "run.denied",
                                "run.completed", "run.failed"}}
          \cup [type : {"step.started", "step.completed", "step.failed", "step.reused"},
                step : Steps, status : StepStatus]

Emitted(type) == \E e \in ToSet(published) : e.type = type
EventsOf(s) == {e \in ToSet(published) : e.step = s}
IsOver == \E type \in {"run.denied", "run.completed", "run.failed"} : Emitted(type)
InProgress(s) == EventsOf(s) # {} /\ \A e \in EventsOf(s) : e.status = "started"

(* What the events say of a step when all are in.                          *)
Truth(s) == IF EventsOf(s) = {} THEN "none"
            ELSE IF InProgress(s) THEN "started"
            ELSE (CHOOSE e \in EventsOf(s) : e.status # "started").status

Idle == [at |-> "idle", status |-> "requested", k |-> 0, n |-> 0, write |-> "none"]
NoWait == [at |-> "none", got |-> "none", steps |-> [s \in Steps |-> "none"],
           resolved |-> FALSE]
Awaits == {"none", "reading", "read", "waiting", "rereading", "reread",
           "outputs", "steps"}
Answers == {"completed", "failed", "timeout", "error", "unfinished"}
NotJudging == [event |-> 0, reads |-> 0, known |-> FALSE]

TypeOK ==
    /\ request \in {"creating", "created", "emitted", "refused"} /\ around \in Surroundings
    /\ published \in Seq(Events)
    /\ sinks \in Seq(Listeners) /\ gone \subseteq ToSet(sinks)
    /\ ticks \in Seq((1 .. Len(published)) \X (1 .. EvalSink + Len(sinks)))
    /\ \A l \in Listeners : seen[l] \in Seq(1 .. Len(published))
    /\ judging \in [event : 0 .. Len(published), reads : 0 .. MaxReads, known : BOOLEAN]
    /\ evalResult \in {"none", "success"}
    /\ index \in Seq([step : Steps, status : StepStatus])
    /\ Cardinality({entry.step : entry \in ToSet(index)}) = Len(index)
    /\ status \in RunStatus /\ dirty \in BOOLEAN /\ rowWritten \in BOOLEAN
    /\ flush \in [at : {"idle", "row", "step", "final", "settle"}, status : RunStatus,
                  k : 0 .. Len(index), n : 0 .. Len(index),
                  write : RunStatus \cup StepStatus \cup {"none"}]
    /\ row \in RunStatus \cup {"none"}
    /\ stepRow \in [Steps -> StepStatus \cup {"none"}]
    /\ registered \subseteq Waiters
    /\ \A w \in Waiters :
          /\ wait[w].at \in Awaits \cup Answers
          /\ wait[w].got \in RunStatus \cup {"none"} /\ wait[w].resolved \in BOOLEAN
          /\ wait[w].steps \in [Steps -> StepStatus \cup {"none"}]
    /\ faults \in 0 .. around.faults

(* The command line requests a forked run without a row                    *)
(* (create-fork-spec.ts).                                                  *)
Init ==
    /\ request \in {"creating", "created"} /\ around \in Surroundings
    /\ published = <<>>
    /\ sinks = <<>> /\ gone = {} /\ ticks = <<>> /\ seen = [l \in Listeners |-> <<>>]
    /\ judging = NotJudging /\ evalResult = "none"
    /\ index = <<>> /\ status = "requested" /\ dirty = FALSE /\ rowWritten = FALSE
    /\ flush = Idle
    /\ row = "none" /\ stepRow = [s \in Steps |-> "none"]
    /\ registered = {} /\ wait = [w \in Waiters |-> NoWait]
    /\ faults = 0

(* A call of the database fails before it did anything, or after.          *)
CallFails == faults < around.faults /\ faults' = faults + 1

-----------------------------------------------------------------------------
(* The flush loop: the row, then every step the shadow has at that moment, *)
(* each as it is when its call is made, then, if the run is over, the row  *)
(* again; once more while events have come in meanwhile.                   *)

(* The call for step k of n.                                               *)
WriteStep(f, k, n, ix) ==
    IF k <= n THEN [f EXCEPT !.at = "step", !.k = k, !.n = n, !.write = ix[k].status]
    ELSE IF f.status \in Terminal THEN [f EXCEPT !.at = "final", !.k = 0, !.n = 0,
                                                 !.write = f.status]
    ELSE Idle

(* Mutant: the row says at once what it is to say last.                    *)
MutSaysAtOnce(st, written, ix) == [Idle EXCEPT !.at = "row", !.status = st, !.write = st]
FlushWith(st, written, ix) ==
    LET f == [Idle EXCEPT !.status = st] IN
    IF st \notin Terminal \/ ~written
    THEN [f EXCEPT !.at = "row", !.write = IF st \in Terminal THEN "started" ELSE st]
    ELSE WriteStep(f, 1, Len(ix), ix)

(* The loop looks at dirty when a flush has gone through, and a flush that *)
(* failed counts as dirty.                                                 *)
LoopGoesOn(next) ==
    IF next = Idle /\ dirty
    THEN flush' = FlushWith(status, rowWritten', index) /\ dirty' = FALSE
    ELSE flush' = next /\ UNCHANGED dirty

Relaunch == flush' = FlushWith(status, rowWritten, index) /\ dirty' = FALSE

FlushFails ==
    /\ CallFails /\ Relaunch
    /\ UNCHANGED <<around, request, published, tap, index, status, rowWritten, waiting>>

RowWrite ==
    /\ flush.at = "row"
    /\ row' = flush.write /\ UNCHANGED stepRow
    /\ \/ FlushFails
       \/ /\ rowWritten' = TRUE
          /\ LoopGoesOn(WriteStep(flush, 1, Len(index), index))
          /\ UNCHANGED <<around, request, published, tap, index, status, waiting, faults>>

StepWrite ==
    /\ flush.at = "step"
    /\ stepRow' = [stepRow EXCEPT ![index[flush.k].step] = flush.write]
    /\ UNCHANGED row
    /\ \/ FlushFails
       \/ /\ UNCHANGED rowWritten
          /\ LoopGoesOn(WriteStep(flush, flush.k + 1, flush.n, index))
          /\ UNCHANGED <<around, request, published, tap, index, status, waiting, faults>>

FinalWrite ==
    /\ flush.at = "final"
    /\ row' = flush.write /\ UNCHANGED stepRow
    /\ \/ FlushFails
       \/ /\ flush' = [flush EXCEPT !.at = "settle"]
          /\ UNCHANGED <<around, request, published, tap, index, status, dirty, rowWritten,
                         waiting, faults>>

WriteFails == flush.at \in {"row", "step", "final"} /\ UNCHANGED db /\ FlushFails

(* settled(): every registered waiter is resolved and forgotten.           *)
Settled ==
    /\ flush.at = "settle"
    /\ wait' = [w \in Waiters |-> IF w \in registered THEN [wait[w] EXCEPT !.resolved = TRUE]
                                                       ELSE wait[w]]
    /\ registered' = {}
    /\ LoopGoesOn(Idle) /\ UNCHANGED rowWritten
    /\ UNCHANGED <<around, request, published, tap, index, status, db, faults>>

-----------------------------------------------------------------------------
(* The bus hands an event of the run to the tap, and the tap hands it to   *)
(* the SQL sink at once; the other sinks get it in microtasks.             *)

(* The shadow's steps after an event.                                      *)
UpdatedIndex(ix, e) ==
    IF e.step = NoStep THEN ix
    ELSE IF \E k \in DOMAIN ix : ix[k].step = e.step
    THEN [k \in DOMAIN ix |-> IF ix[k].step = e.step THEN [ix[k] EXCEPT !.status = e.status]
                                                    ELSE ix[k]]
    ELSE Append(ix, [step |-> e.step, status |-> e.status])

(* A denied run shows as failed: the row has no status of its own for it.  *)
StatusAfter(st, e) ==
    CASE e.type = "run.requested" -> "requested"
      [] e.type = "run.started"   -> "started"
      [] e.type = "run.completed" -> "completed"
      [] e.type \in {"run.failed", "run.denied"} -> "failed"
      [] OTHER -> st

Publish(e) ==
    /\ Len(ticks) <= around.burst
    /\ published' = Append(published, e)
    /\ ticks' = Append(ticks, <<Len(published'), SqlSink>>)
    /\ index' = UpdatedIndex(index, e)
    /\ status' = StatusAfter(status, e)
    /\ IF flush = Idle THEN flush' = FlushWith(status', rowWritten, index') /\ dirty' = FALSE
                       ELSE dirty' = TRUE /\ UNCHANGED flush
    /\ UNCHANGED <<around, sinks, gone, seen, judging, evalResult, rowWritten, db, waiting,
                   faults>>

(* RunService.requestRun: the row first, and only then the event.          *)
CreateRun ==
    /\ request = "creating"
    /\ \/ row' = "requested" /\ request' = "created" /\ UNCHANGED faults
       \/ row' \in {row, "requested"} /\ request' = "refused" /\ CallFails
    /\ UNCHANGED <<around, published, tap, shadow, stepRow, waiting>>

RequestEmitted ==
    /\ request = "created"
    /\ request' = "emitted"
    /\ Publish(RunEvent("run.requested"))

(* What the engine emits (module Engine): a run is denied or started; its  *)
(* steps start and end or are reused, and it ends when none is under way.  *)
RunEmits(type) ==
    /\ request = "emitted" /\ ~IsOver
    /\ CASE type = "run.denied"  -> ~Emitted("run.started")
         [] type = "run.started" -> ~Emitted("run.started")
         [] OTHER -> Emitted("run.started") /\ \A s \in Steps : ~InProgress(s)
    /\ UNCHANGED request
    /\ Publish(RunEvent(type))

StepEmits(type, s) ==
    /\ Emitted("run.started") /\ ~IsOver /\ s \in around.steps
    /\ IF type \in {"step.started", "step.reused"} THEN EventsOf(s) = {} ELSE InProgress(s)
    /\ UNCHANGED request
    /\ Publish(StepEvent(type, s, CASE type = "step.started" -> "started"
                                     [] type = "step.failed"  -> "failure"
                                     [] OTHER -> "success"))

-----------------------------------------------------------------------------
(* The microtasks of the tap.  A sink attached meanwhile is visited as     *)
(* well, one detached is not.  They touch nothing that a call of the       *)
(* database touches, and run before any of those returns.                  *)

SinksAfter(k) ==
    {j \in k + 1 .. EvalSink + Len(sinks) : j = EvalSink \/ sinks[j - EvalSink] \notin gone}

(* The eval sink remembers an eval run when it is requested, and turns to  *)
(* the database when it has completed: what follows in the tap waits.      *)
Slow(e) == judging.known /\ e.type = "run.completed"

EvalHandles(i) ==
    LET e == published[i] IN
    IF Slow(e)
    THEN judging' = [event |-> i, reads |-> 0, known |-> FALSE] /\ ticks' = Tail(ticks)
    ELSE /\ judging' = [judging EXCEPT !.known = @ \/ (around.isEval /\ e.type = "run.requested")]
         /\ ticks' = Append(Tail(ticks), <<i, EvalSink>>)

NextSink(js) == CHOOSE j \in js : \A other \in js : j <= other

Tick ==
    /\ ticks # <<>>
    /\ LET i == Head(ticks)[1]
           js == SinksAfter(Head(ticks)[2])
           j == NextSink(js) IN
       IF js = {} THEN ticks' = Tail(ticks) /\ UNCHANGED <<judging, seen>>
       ELSE IF j = EvalSink THEN EvalHandles(i) /\ UNCHANGED seen
       ELSE /\ seen' = [seen EXCEPT ![sinks[j - EvalSink]] = Append(@, i)]
            /\ ticks' = Append(Tail(ticks), <<i, j>>)
            /\ UNCHANGED judging
    /\ UNCHANGED <<around, request, published, sinks, gone, evalResult, shadow, db, waiting,
                   faults>>

Attach(l) ==
    /\ l \in around.clients \ ToSet(sinks)
    /\ sinks' = Append(sinks, l)
    /\ UNCHANGED <<around, request, published, gone, ticks, seen, judging, evalResult, shadow,
                   db, waiting, faults>>

(* The connection closes: an event of its own, after the microtasks.       *)
Detach(l) ==
    /\ l \in ToSet(sinks) \ gone /\ ticks = <<>>
    /\ gone' = gone \cup {l}
    /\ UNCHANGED <<around, request, published, sinks, ticks, seen, judging, evalResult, shadow,
                   db, waiting, faults>>

(* The eval sink looks for the score in the projection, some times with a  *)
(* pause between, stores what it finds, and lets the tap go on.            *)
HasScore == stepRow[Judge] = "success"
EvalResumes == /\ judging' = [judging EXCEPT !.event = 0]
               /\ ticks' = Append(ticks, <<judging.event, EvalSink>>)
EvalReads ==
    /\ judging.event # 0 /\ ticks = <<>>
    /\ \/ CallFails /\ EvalResumes /\ UNCHANGED evalResult
       \/ HasScore /\ EvalResumes /\ evalResult' = stepRow[Judge] /\ UNCHANGED faults
       \/ /\ ~HasScore /\ UNCHANGED <<evalResult, faults>>
          /\ IF judging.reads + 1 < MaxReads
             THEN judging' = [judging EXCEPT !.reads = @ + 1] /\ UNCHANGED ticks
             ELSE EvalResumes
    /\ UNCHANGED <<around, request, published, sinks, gone, seen, shadow, db, waiting>>

-----------------------------------------------------------------------------
(* RunService.waitForRun: register, read, wait, read again, and read what  *)
(* the outputs need.                                                       *)

Goes(w, at) == wait' = [wait EXCEPT ![w].at = at]
(* Mutant: the cancellation takes the others with it.                      *)
MutCancelled(w) == {}
Cancelled(w) == registered \ {w}
Answer(w, at) ==
    wait' = [wait EXCEPT ![w] = [NoWait EXCEPT !.at = at]] /\ registered' = Cancelled(w)

(* Mutant: after the first read.                                           *)
MutRegistersAt == "read"
RegistersAt == "none"
Registered(w) ==
    registered' = IF wait[w].at = RegistersAt THEN registered \cup {w} ELSE registered

Waits(w) == ticks = <<>> /\ UNCHANGED <<around, request, published, tap, shadow, db>>

Open(w) ==
    /\ w \in around.clients /\ wait[w].at = "none" /\ row # "none"
    /\ Goes(w, "reading") /\ Registered(w)
    /\ Waits(w) /\ UNCHANGED faults

ReadRun(w) ==
    /\ wait[w].at \in {"reading", "rereading"}
    /\ \/ /\ wait' = [wait EXCEPT ![w].at = IF @ = "reading" THEN "read" ELSE "reread",
                                  ![w].got = row]
          /\ UNCHANGED <<registered, faults>>
       \/ CallFails /\ Answer(w, "error")
    /\ Waits(w)

Decide(w) ==
    /\ wait[w].at \in {"read", "reread"}
    /\ \/ /\ wait[w].at = "read" /\ wait[w].got \notin Terminal
          /\ Goes(w, "waiting") /\ Registered(w)
       \/ wait[w].got = "failed" /\ Answer(w, "failed")
       \/ /\ wait[w].got # "failed" /\ (wait[w].at = "reread" \/ wait[w].got \in Terminal)
          /\ Goes(w, "outputs") /\ UNCHANGED registered
    /\ Waits(w) /\ UNCHANGED faults

Wake(w) ==
    /\ wait[w].at = "waiting" /\ wait[w].resolved
    /\ Goes(w, "rereading")
    /\ Waits(w) /\ UNCHANGED <<registered, faults>>

TimesOut(w) ==
    /\ wait[w].at = "waiting" /\ ~wait[w].resolved
    /\ Answer(w, "timeout")
    /\ Waits(w) /\ UNCHANGED faults

(* getRunOutputs: the row once more, and then the rows of the steps.       *)
ReadOutputs(w) ==
    /\ \/ /\ wait[w].at = "outputs" /\ UNCHANGED faults
          /\ IF row \in Terminal THEN Goes(w, "steps") /\ UNCHANGED registered
                               ELSE Answer(w, "unfinished")
       \/ /\ wait[w].at = "steps" /\ UNCHANGED faults
          /\ wait' = [wait EXCEPT ![w].at = "completed", ![w].steps = stepRow]
          /\ registered' = Cancelled(w)
       \/ wait[w].at \in {"outputs", "steps"} /\ CallFails /\ Answer(w, "error")
    /\ Waits(w)

-----------------------------------------------------------------------------
FlushStep == ticks = <<>> /\ (RowWrite \/ StepWrite \/ FinalWrite \/ WriteFails \/ Settled)
WaitStep(w) == Wake(w) \/ ReadRun(w) \/ Decide(w) \/ ReadOutputs(w)

Next ==
    \/ CreateRun \/ RequestEmitted
    \/ \E type \in {"run.denied", "run.started", "run.completed", "run.failed"} : RunEmits(type)
    \/ \E type \in {"step.started", "step.completed", "step.failed", "step.reused"} :
          \E s \in Steps : StepEmits(type, s)
    \/ Tick \/ EvalReads
    \/ \E l \in Listeners : Attach(l) \/ Detach(l)
    \/ FlushStep
    \/ \E w \in Waiters : Open(w) \/ WaitStep(w) \/ TimesOut(w)

(* Calls return, and microtasks run.  Nothing is assumed of the engine, of *)
(* the clients, or of the timer of a wait.                                 *)
Fairness == /\ WF_vars(Tick) /\ WF_vars(EvalReads) /\ WF_vars(FlushStep)
            /\ \A w \in Waiters : WF_vars(WaitStep(w))
Spec == Init /\ [][Next]_vars /\ Fairness

-----------------------------------------------------------------------------
(* The row of a run says that it is over only when the run is, as it ended,*)
(* and when every step has its final row: whoever sees it may read on      *)
(* (sql-run-projection.sink.ts:160-162, 26-28).                            *)
TerminalIsWhole ==
    row \in Terminal =>
        /\ row = "completed" <=> Emitted("run.completed")
        /\ row = "failed" <=> Emitted("run.failed") \/ Emitted("run.denied")
        /\ \A s \in Steps : stepRow[s] = Truth(s)

(* The row of a step refers to that of its run, which has to be there      *)
(* before (sql-run-projection.sink.ts:26-28).                              *)
StepsHaveRun == row = "none" => \A s \in Steps : stepRow[s] = "none"

(* When no flush is under way the rows show every event that there was.    *)
IdleIsProjected ==
    flush = Idle /\ published # <<>> =>
        /\ ~dirty
        /\ row \in Terminal <=> IsOver
        /\ \A s \in Steps : stepRow[s] = Truth(s)

(* What a wait answers is true of the run, and its outputs are those of    *)
(* steps that are all in; a wait that was told the run has settled never   *)
(* finds that it has not (stream-run.ts, run.service.ts:141-177).          *)
AnswersAreTrue ==
    \A w \in Waiters :
        /\ wait[w].at # "unfinished"
        /\ wait[w].at = "failed" => Emitted("run.failed") \/ Emitted("run.denied")
        /\ wait[w].at = "completed" => /\ Emitted("run.completed")
                                       /\ \A s \in Steps : wait[w].steps[s] = Truth(s)

(* A settle is never remembered, and still none is missed: whoever waits   *)
(* when the row says that the run is over has been resolved, or a settle   *)
(* is yet to come (run.service.ts:144-146).                                *)
NoMissedWake ==
    \A w \in Waiters :
        wait[w].at = "waiting" /\ row \in Terminal => wait[w].resolved \/ flush # Idle

(* The notifier holds nobody who has gone.                                 *)
NoLeak == \A w \in registered : wait[w].at \in Awaits \ {"none"}

(* A listener sees the run's events in their order and without a gap, from *)
(* the one under way when it came, although the tap handles them at once   *)
(* and the eval sink keeps one of them waiting.                            *)
SeenInOrder ==
    \A l \in Listeners : \A k \in 1 .. Len(seen[l]) - 1 : seen[l][k + 1] = seen[l][k] + 1

(* A score is stored for an eval run that has completed, and from a judge  *)
(* that has succeeded.                                                     *)
ScoreIsOfJudge ==
    evalResult # "none" => /\ around.isEval /\ Emitted("run.completed")
                           /\ evalResult = Truth(Judge) /\ Truth(Judge) = "success"

(* What the projection has written is true of the run: its row, the rows   *)
(* of its steps and its score, and in an order that lets nobody read more  *)
(* than has happened (sql-run-projection.sink.ts).                         *)
RowsAreTrue ==
    TypeOK /\ StepsHaveRun /\ TerminalIsWhole /\ IdleIsProjected /\ ScoreIsOfJudge

(* What a client is told is true of the run, in order, and it is told of   *)
(* the end, whatever else comes, goes, fails or is late                    *)
(* (run.service.ts, events-route.ts).                                      *)
ClientsSeeTruth == AnswersAreTrue /\ NoMissedWake /\ NoLeak /\ SeenInOrder

(* When the run is over every wait is answered, and no timer is needed.    *)
OverIsAnswered ==
    \A w \in Waiters : IsOver /\ wait[w].at \in Awaits \ {"none"} ~> wait[w].at \in Answers
=============================================================================
