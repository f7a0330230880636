# A formal model of lowercase

lowercase runs workflows. A flow definition is a graph of steps (`httpjson`,
`http` and `mcp` jobs, `parallel`, `join` and `branch`); a run of it is driven
by the **engine**, whose jobs travel through a **message router** to a
**worker**, which calls HTTP services and sends back a terminal message. This
directory holds TLA+ modules of those three parts, of the Redis carrier and of
what surrounds a run (its projection, the artifact store, the hosts, the page of
the workbench), the TLC runs that check them on small instances, and TLAPS
proofs of the results that should hold for every instance.

    run.requested            job.httpjson.submitted           HTTP
    ------------> [engine] ----> [message router] ----> [worker] ----> ...
                  ^  |  ^               |  |                 |
                  |  v  +---------------+  +-> observability |
              [event bus]  job.*.completed / .failed <-------+

* [Components](#components), the inventory
* [Modules](#modules) and how they correspond to the code
* [Runs](#runs), bounds and fairness
* [Proofs](#proofs)
* [Disagreements found](#disagreements-found)
* [Hazards without a property](#hazards-without-a-property)
* [Plan](#plan) and what is not modelled

Paths are relative to the repository's root; `engine/` stands for
`packages/components/engine/src/`, `worker/` and `limiter/` likewise, and
`router/` for `packages/process-hosting/message-router/src/`.

## Components

**Engine** (`engine/`). *State*: one run context per run: its status, a status
for every step, four index sets of steps by status, the counter
`outstandingSteps`, the plan of reused steps, the flow's analysed edges; and
the queue of internal messages. *Operations*: one reducer, one planner and a
few effects per message: `RunRequested`, `FlowDefResult`, `ForkSpecResult`,
`ReusableStepDataResult`, `MakeRunPlan`, `RunStarted`, `StepPlanned`,
`StepStarted`, `StepFinished`, `JobFinished`, `BranchValueResolved`,
`RunFinished`. *Interaction*: planners publish step and run events on the
engine's own in-memory bus, to which the engine subscribes; jobs go to the
router, terminals come back from it; artifact loads answer as internal
messages. *Hard*: a run ends when a counter reaches zero, and six reducers move
that counter; jobs, loads and branch values answer in any order; joins are
decided by whichever input is last; requests and terminals may be repeated;
forks reuse some steps. *Correct when*: the counter is exact, nothing happens
after a run's end, each step is started for a cause and a job submitted once,
no earned edge is forgotten, the verdict is that of the steps, and every run
ends.

**Flow analysis** (`packages/functional-core/flow-analysis/src`). Pure:
builds the edges the engine walks, resolves references, sorts topologically
and reports problems to authors. Correct when every declared transition is one
edge, which the engine's properties depend on.

**Worker** (`worker/`). *State*: a semaphore of capacity slots, a semaphore of
permits per resource key (the origin of a URL), and per job two abort signals
(the caller's and the protocol timeout's) combined into one. *Operations*:
`handleJobSubmitted` validates, waits for a slot, records the start, prepares
the request, waits for a permit, calls, reads and checks the response, stores
outputs, records the end and publishes the terminal. *Hard*: every `await` is
an interleaving; aborts arrive while a job waits in the middle of a queue, or
in the same instant as a release; the timeout races the caller; every port
may reject. *Correct when*: slots and permits are neither lost nor granted
twice, waiters keep their places, the first of two signals classifies the job,
the terminal agrees with the recorded facts, and every job ends.

**In-process message router** (`router/in-process/`, `router/delivery-lane.ts`).
*State*: the bindings of a host plan, one lane per subscription (a queue, a
count of deliveries in flight, a flag "a dispatch is scheduled"), one count of
outstanding deliveries, the callers of `whenIdle`. *Operations*: `bind`,
`publisher`/`publish`, the deferred dispatch of a lane, the end of a delivery,
`whenIdle`. *Hard*: three places decide whether a dispatch is due; handlers
publish from within; handlers and error reporters throw. *Correct when*: it is
a mailbox (below), no lane with work and room sleeps, `whenIdle` answers only
in a quiet moment and always does, and an observer of two topics sees causes
before effects.

**Redis carrier** (`router/redis/`, `packages/adapters/src/message-log`).
*State*: in Redis a stream per route, and per reader a consumer group with its
cursor and the entries it has given out; in every process the readers (off,
blocked in a read, holding a batch), the same lanes as above, and what is being
acknowledged. *Operations*: provisioning, `start`, `publish`, the read loop,
refusing, acknowledging after the handler has settled, `stop`. *Hard*: replies
and acknowledgements are lost, processes die at any point and come back, a stop
finds reads that may still return a batch, and several subscriptions share a
route. *Correct when* it is an at-most-once log (below), nothing is acknowledged
before it was handled, what is neither handled nor acknowledged is known and
bounded, and a host that runs catches up.

**Limiter** (`limiter/`). Counts slots per tool, queues denied requests,
grants them on `worker.slot.finished`. Dormant: nothing emits its requests
today. Correct when a queue is non-empty only if its tool is at its limit, and
the count is the number of grants not finished.

**In-memory event bus** (`packages/adapters/src/event-bus`). Handlers per
topic, deferred with `queueMicrotask`. Correct when a publisher's events
arrive in order at every subscriber.

**Run projection** (`packages/components/observability`,
`packages/adapters/src/run-settled`, `app-services/src/run.service.ts`, the
event stream of `apps/http-server`). *State*: the sinks of the tap, the shadow
the SQL sink keeps of each run, the rows of the run and its steps, the
registrations of those who wait. *Operations*: requesting a run, projecting an
event, the flush loop, waiting with a timeout, listening, projecting an eval's
score. *Hard*: every database call may fail before or after it took effect; a
settle is never remembered, so it races reads, registrations, timers and
disconnections; events are handled concurrently. *Correct when* the rows end as
the events say and never go back, an answer is the truth and comes with all the
steps, no registration is left behind, and a run that is over is answered.

**Artifact store** (`packages/artifacts`, `packages/adapters/src/artifact-store`
and `artifact-repository`). Content is kept under its hash with its type beside
it, and a row lists it. *Hard*: saves of the same bytes overlap on the same
temporary files; any call may fail or the process die between two. *Correct
when* what can be read is whole and what is listed is there.

**Process assembly and hosts** (`packages/process-hosting/assembly`,
`profile-local-system`, `apps/http-server/src/http`, `apps/worker-host`). Starts
resources in order, stops them in reverse, rolls back a failed start, closes on
signals. *Correct when* nothing runs without what it stands on, nothing is left
running, and work in hand is finished. **Message topology** (`message-topology`)
checks catalogs and manifests and resolves the plan of each host.

**Flow analysis, order and references** (`toposort.ts`, `analyze-references.ts`).
Correct when the order respects every edge, cycles are found, and a reference is
allowed exactly when its target comes first.

**Workbench** (`apps/workbench/src`, with the event stream and the event log
behind it). *State*: the buffer of the stream's middleware, the events slice
(events, their order, their lists per run), the cached calls for a run's events,
the dock, a slice per kind of panel, what each of the two storages holds.
*Operations*: an event arrives, a frame takes the buffer in, a call is made,
answered, refused or forgotten; panels are opened, focused and closed; a run is
requested and its answer comes; replays and drafts begin and end; the page is left,
shown again, saved and reloaded; a storage throws. *Hard*: the stream sends nothing
of the past and a call may repeat what came over it; an answer finds its panel
closed or in another mode; copies (the event graph's run, the stored layout) must
follow what they copy, the first only when its hook renders. *Correct when* an event
is kept once and none is missing without a reason, modes exclude each other, the
event graph shows the run of the panel it tracks once the hook has rendered with
that panel there, and each storage has everything unless a write is due or its last
write threw.

**Use cases and application services.** `run-flow` publishes `run.requested`;
`run-history` gives the index of a run; the services call repositories.

The remaining packages are declarations (`types`, `events`, `specs`, `ports`),
pure data rewriting (`json-ref-binder`), the remaining applications under `apps/`,
and retired code (`archive`).

The hazards of this code that a property guards against, each at its line, are
listed in `PROJECT.json`; those without one are [below](#hazards-without-a-property).

## Modules

| module | models | proofs |
|---|---|---|
| `Engine` | one run, from `run.requested` to `flow.completed` or `flow.failed` | `EngineProofs`, `EngineStoryProofs` |
| `EngineProps` | what the engine promises of a run | `EngineProofs`, `EngineStoryProofs` |
| `EdgeWalk` | `step-finished.reducer`'s walk over the out edges, one edge at a time | `EngineStoryProofs` |
| `Semaphore` | `worker/concurrency/semaphore.ts` as operators on a record | `WorkerProofs` |
| `Worker` | a worker's jobs between their awaits | `WorkerProofs` |
| `WorkerProps` | what the worker promises of its jobs | `WorkerProofs` |
| `DeliveryLane` | `router/delivery-lane.ts` as operators on a record | `RouterProofs`, `RedisProofs` |
| `InProcessRouter` | the in-process carrier and its promises | `RouterProofs` |
| `Mailbox` | the abstract carrier the router implements | `RouterProofs` |
| `RedisRouter` | the Redis carrier: processes, streams, groups, faults | `RedisProofs` |
| `MessageTopology` | the checks of manifests and the resolution of host plans, as operators | `RedisProofs` |
| `AtMostOnce` | the abstract log-backed carrier | `RedisProofs` |
| `RunProjection` | one run as the outside sees it: rows, waits, listeners | `ObservationProofs` |
| `ArtifactStore` | one artifact, its files or object, its row | `ServiceProofs` |
| `HostLifecycle` | one process from its start to its end | `ServiceProofs` |
| `Limiter` | the limiter and its workers over the bus | `ServiceProofs` |
| `FlowGraph` | the topological sort and the search for references, a round at a time | `ServiceProofs` |
| `Workbench` | the page of the workbench: events, calls, panels, storage | `ObservationProofs` |
| `InductionFacts` | no code: induction over the naturals, folds and counts, for the proofs | itself |
| `MC*` | instances for TLC; `MCServices` holds the last six of the system's parts beside each other | |

### Engine

`run` is the run context. Its `step` field gives each step's status; the index
sets `plannedSteps`, `startedSteps`, `completedSteps` and `failedSteps` are
represented where they differ from what `step` says and something reads them
(`failedSteps` decides the verdict). `bus` is the in-memory event bus: a FIFO of the events the engine
published and has yet to consume. An action is one message handled to its
end: `processNext` with its reducer, planner and effects, and the nested
`processAll` of the effects that enqueue (making the run plan, loading). The
action `Deliver` takes the head of `bus` and applies the handler of its type
(`RunRequested`, `RunStarted`, `StepPlanned`, `StepStarted`, `StepFinished`,
`RunFinished`). Everything else is environment: `JobAnswers` a job ends for
the first time, `JobRedelivered` a terminal arrives again, `BranchResolves` the
value of a branch is loaded or cannot be, `Loaded` the next of the three loads
before a run starts (flow definition, fork spec, reusable step data) answers,
`Request` somebody publishes `run.requested` for this run id. `Admission`
says whether the router may refuse a job.

Abstracted: outputs, exports, parameters, references and trace spans are left
out; a job is a step with an outcome; `httpjson`, `http` and `mcp` steps are
one type. Steps may be entered in loops, as the schema allows. Two assumptions
on flows are named constants' assumptions: `JoinsOnlyJoin` (only the inputs of
a join lead into it; the repository leaves the other case undecided,
`docs/todo.md:184`) and `ParallelsNotEmpty` (an empty one makes a reducer
throw).

`step-finished.reducer` walks the out edges in the order of analysis, with each
edge able to change what the next one reads. `Engine` states the result of the
walk in closed form; `EdgeWalk` models the walk literally, and `WalkIsClosedForm`
says that in every order of the edges the two agree. This keeps the order of edges out
of the model of the engine, where it would multiply states.

### Worker

`stage[j]` is the await job `j` stands at. Slots and permits are `Semaphore`
records: `available` and a queue. `cause[j]` is the reason of the combined
abort signal, `facts[j]` what the lifecycle sink was told, `terminals[j]` what
was published. `Promote` resumes the jobs a release serves. A job's own steps
are `Own(j)`; the environment's are `Submit`, `Abort` (the caller gives up; one
action per place where it can find the job), `TimerFires` and the network
(`Responds`, `FetchRejects`, `BodyRead`, `BodyRejects`). Content is reduced to
whether materialising, validating or storing succeeds.

### In-process router

`InProcessRouter` keeps the code's `lanes`, `outstanding` and `idleWaiters`,
and beside them three history variables per subscription (`sent`, `began`,
`settled`), which are the variables of `Mailbox`, and `cause`, the message
whose handler published a message. A handler is everything between `PumpRuns`
and `Settles`: it may publish, and may end well or badly. `Mailbox` says what
a carrier promises: a message is accepted for all recipients at once; each
begins its messages in the order of acceptance, once each, at most
`MaxInFlight` at a time; what has begun ends at most once. `ImplementsMailbox`
is that refinement.

### Redis carrier

`RedisRouter` composes `MessageTopology` (a behaviour is one of a manifest that
`ManifestOk` accepts, and each process takes its publishers and readers from
`HostPlanFor`) with `DeliveryLane`. A reader is a pair of a subscription and a
route. A call of Redis is one step, taken when Redis runs it; whoever awaits the
reply goes on in the same step, unless the reply is lost (`ReadLost`, the second
alternative of `Acknowledge`). `Crash` drops all a process holds; `StartBegins`
may follow. `Stray` is an entry that something else appends and that its reader
refuses. `claimPending` has no caller, so nothing reads pending entries again:
this is why the carrier is at most once. `AtMostOnce` says what that leaves: all
logs of a path at once, each entry begun at most once and in the order of its
log, so many at a time; `ImplementsAtMostOnce` is the refinement. `RestIsDone`
is a safety form of "a host that runs catches up": when nothing is left to do
without a new message, and there was no fault, the backlog is empty.

### Run projection

The tap hands an event to one sink after the other and awaits each; `ticks` is
the queue of the microtasks that resume it, and what microtasks do comes before
any reply of the database. A call of the database is one step; it may fail before
it did anything or after. `flush` is the loop of the SQL sink: the row, the steps
its shadow has at that moment, and the row again when the run is over. `wait` is
where `waitForRun` and its route are, with the timer and the disconnection as
steps that may come at any time.

### Artifacts, hosts, limiter, flow graph

`ArtifactStore` has an action per system call of `FsArtifactStore` (a writer
holds the open file, not its name) and one for an object store, then the upsert
of the row. `setting.together` says whether saves may overlap: the promises of
the store hold of those that do not, and `FilesAreWhole` and `SavedIsLoaded` say
what remains when they do. A read that a rename falls into is a step of its own.
Any read may fail with `STORE_ERROR`. What the legacy layout of the file store
holds is a choice: where there is no content of the new layout, a read may find
the bytes there, under a type that is asked for or under another.

`HostLifecycle` has the order of the resources of each profile, the hooks that
throw, the signals, and the work in hand. A hook that throws while starting may
leave its resource half up, which nobody stops. The events that a delivery leaves
to the projection are written by a loop nobody awaits (`projecting`).

`Limiter` takes the workers that ask for slots as the environment. They are
external: nothing in the repository asks yet. `FlowGraph` takes a graph and goes
through `toposort` and `isReachable` loop by loop; on a cycle the search may
overflow, and only there.

### Workbench

An action is an event of the browser (a message, a frame, a click, an answer)
with the React commit it leads to. `Commits` runs the effects of a commit: the
event graph follows (`Follows`), a run that somebody begins to watch is called
for, and a change is noted for storage (`CommitsTo`). Events are numbered in the
order they happen, which is also their time; `away` and `pushed` are history
variables: the events that were not sent to this page, and those a window pushed
out.

`useTrackedFlowGraphPanel` compares the pair of panel and run only while it
renders. `Follows` therefore renders it (`Renders`) when it must: when it mounts,
when it tracks another panel, and when a selector of it gives something else
(`Sees`). `RendersAgain` is a render for any other reason, which may or may not
come. So if the tracked panel is closed and opened again blank, the copy may keep
the old run: nothing the hook listens to has changed. `desk.graph.gone`, a history
variable, says that the tracked panel was not there at the last render.

Each storage is written on its own, by the debounced write (`Saves`) and at
leaving and at `pagehide` (`Flushed`); one that throws keeps what it had, and the
page counts the change as written (`Written`). `saved.missed` is a history
variable: the storages whose last write threw. A read takes the tab's own storage
first, however old, then the shared one, and skips one that throws (`Loaded`);
the slices are read when the store is made and the dock when the page shows it, so
the two reads of a reload may fail apart. A write or a read that throws costs the
scene a fault. A reload finds either the last write or what `pagehide` flushed, as
a crash flushes nothing.

`Removes` leaves the choice of the next active panel to dockview. Parameters,
viewports and the panels of artifacts and of authoring are left out; they share
only the dock with what is modelled. One tab is modelled, so what other tabs write
to `localStorage` is not.

## Runs

| run | question | instance |
|---|---|---|
| `engine_flows` | Is the counter exact, is nothing left going after the end, has a run with nothing left going ended, is every job submitted once and every step caused, is the order of out edges immaterial, and does every run end? | `MCFlows`: every combination, with joins entered by join edges only, of 6 × 5 × 3 × 3 × 4 definitions of five steps; 560 flows |
| `engine_repeats` | Forks that reuse steps, refused jobs, repeated requests and terminals: is the counter exact, is any earned edge forgotten, is the verdict right, does what is over stay over? | four sample flows, four forks, two requests, two redeliveries |
| `worker_slots` | Are slots and permits exact and terminals truthful, whoever aborts and whatever throws? | 3 jobs, 2 keys, 2 slots, 1 permit per key |
| `worker_live` | Do waiters keep their places, does the first signal win, does every job end even if the service never answers? | 3 jobs, 2 slots and 3 slots, one permit of one key |
| `router` | Is the router a mailbox with exact counters, no lost wake-up, an honest `whenIdle` and causes before effects? Does a handler that hangs hold up the others? | the local system's plan: worker (2 in flight), engine and observability, two topics, three messages; the worker's handlers may hang |
| `redis` | Is the Redis carrier an at-most-once log, is every entry accounted for, is a stopped host quiet, does a restarted one catch up, does a shared route keep causes before effects? | two hosts, two routes, a command and a terminal, one stray entry; four route plans; one fault, three starts |
| `services` | Are rows and answers true under failing calls; is what is stored whole and what is listed there; is a host orderly whatever throws; are slots counted exactly and in order; is the analysis of a graph right; does the page keep every event once, and do its panels, its event graph and its storages agree, also when one throws? | five surroundings of a run of one or two steps; up to three saves one by one, two that overlap; three profiles and two carriers with two mishaps; four jobs; 676 graphs; three panels, an old and a new run, nine scenes |
| `engine_shared_child`, `engine_nested_parallel`, `engine_inherited_case`, `worker_timeout`, `host_projects` | the disagreements below | each expects a counterexample |

**Why the bounds are enough to be interesting.** Five steps allow a fan-out,
the join of it and a successor, a parallel in a parallel with a join across
both, a branch with two cases and a default, and loops back to the start. Step
identities carry no meaning, so more steps repeat these shapes. Three jobs on
two slots make one wait for a slot while another holds or waits for a permit,
and three on one permit leave a waiter that others wait behind to abort. The live
run has both: workers with two slots, and with three (`LiveInit`).
Two commands and a terminal give the worker two deliveries at once, the engine
one to answer, and observability a backlog over both topics. The Redis run has a
subscription of two topics over one or two routes, so that shared and split
routes both occur, a batch of two and a reader that takes one at a time; one
fault is enough to lose a batch, an acknowledgement or a process between any two
steps, and three starts let one process come back. The surroundings of a run vary
one thing at a time (two who wait; failures; the judge; listeners with a burst;
an eval), because those who wait and those who listen share nothing. The graphs
are all those of four steps with up to two edges from the first two and one from
the third. The page has one panel of each way of opening one, runs of three and
two events, a buffer of one and a window of four, so that both windows push
events out and an answer can bring back what one pushed; a scene gives it what
leads to one kind of trouble (a stream that breaks, gestures, modes, leaving and
reloading, a storage that throws), and an outage of zero a stream that is open from
the start. Four scenes offer only some of the panels: six clicks at one panel are
enough to open it, run, open the event graph, close the panel, open it again and
run once more, which is what a copy of an old run needs; without `gone` the
property is violated there, and without `missed` where a storage throws.

`MCServices` is the disjoint union of six modules: a behaviour chooses one of
them and the others stay at one initial state. They share nothing, and one run
asks for what is one question each.

**Bounds.** `Redeliveries` caps how often terminals arrive again, `Traces` how
many requests name the run id, `Messages` what is ever published. `MaxFaults` and
`MaxStarts` cap what goes wrong with Redis and its processes, `faults` and
`burst` of a surrounding the failing calls and the pending microtasks, `MaxReads`
is the eval sink's own limit made small, `saves` and `mishaps` of a setting,
`left` of a scene, `MaxWork` and `MaxMishaps`, `MaxAsks` and `MaxStrays` do the same for the other
parts. No other variable needs a cap. Jobs of a worker are symmetric, and symmetry is used in
the one run that has no temporal property.

**Deadlock** is not checked where a system may come to rest: a finished run, a
worker without jobs, an idle router or host, a run that was answered.

**Fairness.** *Engine*: an event on the bus is delivered (a microtask runs), a
load answers, a submitted job gets its terminal and a branch value its answer.
The last two are promises of the worker and the artifact store, the first of
which `worker_live` checks; a refused job gets no terminal, and `Settles` is
checked where none is refused. *Worker*: a job's own continuation runs and its
timer, once armed, fires; a call whose signal is aborted rejects, as `fetch`
does. Nothing is assumed of the network otherwise, and nothing of the caller.
*Router*: a scheduled dispatch runs; the handlers of the subscriptions in
`Prompt` come back. *Run projection*: microtasks run, and a call of the database
comes back, well or not; nothing is assumed of timers. The Redis carrier, the
artifact store, the hosts, the limiter, the flow graph and the page state safety
only.

**Restrictions inside properties.** `ParallelsOwnChildren` (a child of a
parallel is planned by nothing else), `ParallelsRelease` (a parallel has a job
among its children and no branch), `BranchesRefer` (a branch's value is a
reference) and `ReusesOnlyJobs` name the flows for which a promise holds. Each
leaves out a case the code mishandles; three of the findings below, and
`docs/todo.md:163`, are about these cases. `Caused`, `VerdictOfSteps` and the
properties of the counter are stated under the first; without it a child may be
planned twice. The branch clause of `NothingForgotten`
leaves out branches without a default and values that name an inherited member:
the code follows nothing there, and says so for the first.

## Proofs

Every theorem below holds for all values of the constants the assumptions
admit. Each rests on an inductive invariant that is stronger than the property;
the text says what is added and why it is needed.

`InductionFacts` proves what the others need and no library states in a usable
form. An induction theorem that takes a predicate cannot be instantiated here,
so `NatSetInduction` takes a set, and `SeqSetInduction` one of sequences. From
these follow that a fold over a sequence or a function exists and can be taken
apart (`FoldStepsExist`, `FoldIsSum`, `SumShift`), what a fold that selects
from a sequence returns (`Chosen`), that it keeps a sequence without
repetitions one (`Once`), and how often members of a set come in a sequence
(`Count`).

### Engine

`EngineProofs` proves `EngineTyped`, `Spec => []TypeOK`, for any flow, and for
any flow whose parallels own their children:

* `OutstandingIsExact`: the counter a run settles on is the number of steps that
  are planned or started and of ends that wait to be handled;
* `RunsSettleWhenQuiet`: nothing is left going after the end, and when nothing is
  left going a run that started has ended;
* `JobsSubmittedOnce`: no job is submitted twice;
* `OverIsIrrevocable`: no step of the engine changes what is over.

None is inductive. The counter is exact only if a step event is never handled
twice, or in another status of its step than the one it was published in, and
that is what `EngineInv` adds. `Life` says for each step what its status allows
on the bus, at the carrier and at the resolver of branch values; `Indexed` that
the sets of the run context agree with the statuses; `FamilyAsleep` that the
children of a parallel sleep until its `step.started` is handled; `JoinDecided`
that a join is what its inputs made it; `Opening`, `Counter` and `Closing` what
the bus, the counter and the end have to do with each other. There is one lemma
`...Lives` per action, which also shows `Kept`, that nothing over is touched.

The second half of `RunsSettleWhenQuiet`, `RestIsSettled`, is the safety core of
`Settles`: with the bus drained and every job and branch value answered, no run
stays open. It holds where the parallels release, the branches refer, nothing is
reused and the carrier refused no job: a refused job gets no terminal, a
parallel completes on a `step.started` that a reused child never has, and the
other two stalls are under the hazards without a property below. `EngineInv` bounds what is on its way from
above, so it cannot show that something still is. `Stirs` does: `Begun`, that a
run that was started has its `run.started` on the bus, an outstanding step or a
verdict; `Awaits`, that a started branch awaits its value; `Gathers`, that until
a started parallel has seen one of its jobs start, all its children are on their
way. There is one lemma `...Stirs` per action. At rest no child of a parallel is
on its way, no branch waits and no job runs, so the counter is zero and the
verdict is in.

`EngineStoryProofs` goes on from there to what a run has done:

* `WakingHasACause` (`Caused`), `NothingIsForgotten` (`NothingForgotten`) and
  `VerdictIsTheSteps` (`VerdictOfSteps`), under the conditions the properties
  state. At the end of a run these hold because of what was on the bus before
  it. `Story` says so: the ends on the bus are true of their steps, what a step
  has earned is followed or its end still waits, only what is not reused is
  executed, who is awake has a reason, and the run context has the failures
  that count.
* `EachIsAnsweredOnce` (`AnsweredOnce`), for any flow and any number of
  requests. `Asked` follows a request from the bus over the loads to its
  answer, each of which has one owner; `EndsTold` follows the end of a run to
  the event of its flow, where the verdict that `Story` fixes keeps the run from
  completing and failing both.
* `OrderDecidesNothing` (`WalkIsClosedForm`), for any flow. After any prefix of
  any order of the out edges the run is the one those edges give together
  (`Reached`), by induction over the places of the order; what all the edges
  give is what the closed form gives. This is what allows `Engine` to leave the
  order of edges out.

Assumed are `StepsAssumption`, `FlowsAssumption`, `ForksAssumption`,
`TracesAssumption` and `BoundsAssumption` of `Engine`. `FlowsAssumption` contains
`JoinsOnlyJoin`, which also excludes joins whose inputs are joins.

### Worker

`WorkerProofs` proves, for any finite set of jobs, any set of keys and any
limits of at least one, from `JobsAssumption` and `LimitsAssumption`:

* `TypeCorrect`, `SlotsAreExact` and `PermitsAreExact`. It first shows what each
  operation of a semaphore does to `Balanced`: the free places and the holders
  add up to the capacity, the queue lists exactly the waiters, each once, and
  nobody waits while a place is free. The inductive invariant is
  `IInv == TypeOK /\ SlotsExact /\ PermitsExact`, of which no part is inductive
  alone: a release promotes the job at the head of a queue, and only the
  semaphore's own invariant says that this job stands at the stage where it
  waits.
* `TerminalsTell` (`TerminalTellsFacts`). `Told` follows one job through its
  stages. A step of one job moves others only by handing them a place
  (`Bystands`), which is where `IInv` is needed.
* `PlacesAreKept` (`PlacesKept`), an action property: whatever a step does to a
  queue is one of taking, waiting, releasing and leaving (`Moved`), none of
  which sets a waiter back that is listed once.
* `FirstSignalDecides` (`FirstSignalWins`), a property with `[]` inside `[]`:
  once the timeout was first, no step takes that back (`StepSignalled`), and
  while it stands the outcome is not a cancellation (`SignalInv`).

### Carriers

`RouterProofs` proves of the in-process router, for any plan, any finite set of
messages and any bounds of at least one, from `PlanAssumption` and
`SetsAssumption`:

* `NoSleepingLane` (`NoLostWakeup`) and `RouterIsMailbox` (`ImplementsMailbox`,
  the refinement of `Mailbox`). `RInv` relates every lane to its history: what
  was sent is what has begun followed by the queue, and what has begun is what
  has ended plus what is in flight. `Wired` adds that the lanes of a topic are
  those of the bound subscriptions that select it, without which a publication
  could miss a recipient.
* `CountersAreExact` (`CountersExact`) and `IdleMeansIdle` (`IdleIsIdle`, an
  action property): a message is sent to a lane once, so what is in flight is
  a set; the router's own counter is the sum over the lanes, and somebody waits
  for idleness only while it is not zero (`CountInv`).
* `CausesComeFirst` (`CauseFirst`): a cause is sent before what it caused, and
  a lane of one has settled all but the last it began (`CauseInv`).

`RedisProofs` proves of the Redis carrier, for any catalog, any manifests the
check accepts, any messages, limits, crashes and lost replies, from
`DeploymentAssumption` and `TopologyAssumption` of `RedisRouter`:

* `AcceptedResolves`: what `ManifestOk` accepts resolves in every host of it;
* `EveryEntryAccounted` (`AllIsAccounted`): a publication reaches each of its
  subscriptions on exactly one route, only strays are refused, what leaves Redis
  was handled or refused, and a fault leaves at most a batch behind;
* `StoppedIsClean` (`StopIsClean`), `CausesComeFirst` (`CauseFirst`) and
  `RestingIsDone` (`RestIsDone`);
* `CarrierIsAtMostOnce` (`ImplementsAtMostOnce`): the refinement of `AtMostOnce`.

One invariant, `RInv`, carries all of these. What a group has given out is pending
until it is handled or refused; what a reader holds of it is queued in its lane,
at work or refused, and nowhere twice; what it does not hold was left by a
fault; a lane counts who is at work; and what a subscription has begun and has
queued is in the order of each stream. The hard case is a crash, or a reply that is lost,
between a read and its acknowledgement: then the entry is pending and nobody's,
and that nothing begins twice rests on the group's cursor alone.
`WellDeployed`, the facts of a deployment, is proved from `ManifestOk` and
`HostPlanFor` and not assumed.

### Run projection

`ObservationProofs` proves `RowsStayTrue` (`RowsAreTrue`) and
`ClientsAreToldTruth` (`ClientsSeeTruth`), for any flow, any number of requests
and listeners, and any calls that fail, from `SurroundingsAssumption` and
`JudgeIsNoStep`. `ObsInv` has five parts: the events come in the order of the
engine; the shadow says what they say; the flush under way will have shown it
unless something has come in since, and then another follows; whoever waits
registered before it read, so whoever has not seen the end will be told; and an
event of the tap is at the same sink as a later one, before it in the queue, or
further on. The last part is why a listener is given events one after the other
although the tap handles them all at once.

### Workbench

The same module proves of the page `PageIsTyped` (`WorkbenchTypeOK`),
`EventsStayAccounted` (`EventsAreAccounted`) and `PanelsAlwaysAgree`
(`PanelsAgree`), for any tabs and runs, any number of events, windows of any
size and any scene, from `PageAssumption`. `EventsAreAccounted` speaks of the
runs whose answer the page holds; that is not inductive, as an answer is held
only once the buffer, the two windows and the reloads have done with the events
before it. `FeedInv` adds that every event there is was sent, waits, was pushed
out or happened unseen, that neither the slice nor the buffer has one twice, and
that what the slice lists of a run is its list restricted to the run; a window
then drops from both what it drops from one. `PanelsAgree` is not inductive
because a reload takes the desk from storage: `PanelsInv` says of what each storage
holds what it says of what is shown. Of the event graph it says two things more.
Its pair, if it has one, is the tracked panel and the run it shows, whoever is
docked, so that a render that finds the same pair leaves it right. And while it is
mounted and not `gone` its run is that of the tracked panel, there or not: a commit
at which the hook need not render leaves what the hook listens to as it was. Of the
storages it says that one whose last write did not throw has what was written, which
a commit without a change leaves equal to what is shown.

### Services

`ServiceProofs` has four parts that share no state.

* `HostIsOrderly` (`Orderly`), from `BoundsAssumption`: for any amount of work
  and hooks that throw, every profile and either carrier. `HostInv` says what is
  up in the middle of a start or a stop: the resources before exactly one point
  of the order. A start that threw in a worker host has nothing to stop, which
  is a case of its own.
* `ListedIsInStore` (`ListedIsThere`), from `StoreAssumption`, and `FilesStayWhole`
  (`StoreIsWhole`), from `SaversAssumption` too, for any number of savers. The
  promises of the store hold under conditions that differ, so `StoreInv` has four
  layers, each under the condition of the properties it serves: what each saver has
  open; while nothing fails, what is not whole is being written and what is
  temporary will be unlinked; while saves do not overlap, the one under way is
  alone with its files; and when neither happens, each save does all its work.
* `GrantsAreExact` (`GrantsExact`), from `LimiterAssumption`: for any jobs, tools,
  limits and requests. `SlotsInv` says that what a job has, is granted or waits
  for it asked for, and that the count, the queue and the grants on the bus of each
  tool are what the events handled so far come to.

* `GraphAnalysisIsRight` (`GraphIsAnalysed`), from `GraphAssumption`: for any
  order of any number of steps and any edges over them, doubled edges, edges to
  the step itself and cycles included. `PathCloses` shows first that `Path`, a
  fold, is the least transitive relation with the edges; nothing else is used of
  it but that a path begins and ends with an edge. `SearchInv` says of the sort
  that a step's count is the number of edges left into it, that it is ready or
  sorted exactly when there is none, and that what leads to a sorted step was
  sorted before it. When nothing is ready, every step that is left has one that
  is left before it; the steps that lead to it become fewer along such a chain
  unless it comes to a cycle, so what is left is exactly what a cycle leads to
  (`AcyclicIsDone`). Of the search it says that the calls under way are a path and
  that every edge they have gone through came to nothing; a call that comes to a
  step under way has therefore found a cycle, which the sort has reported.

### What is only model-checked

Liveness: the engine's `Settles`, the worker's `EveryJobEnds`, the router's
`Served` and `IdleComes` and the run projection's `OverIsAnswered`. Liveness
under fairness stays with TLC, as the proof system cannot reason about `ENABLED`.
The five runs that expect a counterexample have nothing to prove. What an
operator computes by recursion over data is proved only where an induction over
the naturals reaches it, as with folds.

## Disagreements found

1. **A shared child runs twice** (`engine_shared_child`). Two parallels that
   list the same step both publish `step.planned` for it, and
   `step-planned.planner.ts` submits its job each time. The step has two
   terminals without redelivery, which `job-finished.planner.ts:34-36` says
   cannot happen.
2. **A parallel of parallels never completes** (`engine_nested_parallel`).
   Only children that are jobs or branches complete their parallel
   (`step-started.reducer.ts:20-36`); the run stalls.
3. **A branch takes a case nobody declared** (`engine_inherited_case`).
   `stringValue in cases` finds inherited members; neither a case nor the
   default is followed.
4. **A timeout during the body is not a timeout** (`worker_timeout`). An abort
   while the response body is read is reported as an invalid response.
5. **A client's terminal is not projected before the disconnect**
   (`host_projects`). `assemble-api-host.ts:48-50` stops the router first so
   that a terminal it has claimed is "still projected" while the database client
   is connected. Stopping awaits the handler, but the projecting sink only
   starts its flush and awaits nothing, so the client may be disconnected
   before the row is written.

## Hazards without a property

What can go wrong here and is guarded by no property, with the reason:

* `engine/effects/publish-job-httpjson-submitted.effect.ts:29`: A job submission
  the carrier refuses is logged and forgotten: the run stalls. *The code stalls,
  as docs/todo.md:41 says. The model has refused jobs, and the counter, the
  causes and the verdict are checked with them; but these hold of the stalled run
  too, and RestIsSettled and Settles leave these runs out.*
* `packages/components/worker/src/worker.ts:107`: A job whose lifecycle sink or
  artifact store rejects publishes no terminal: the engine's step stays started
  for ever. *The rejection is logged and nothing answers it. The model has it as
  the stage rejected, which EveryJobEnds counts as an end.*
* `engine/reducers/utils/complete-parallel-edge.reducer.ts:25`: A branch child
  may fail before a sibling starts (its value cannot be resolved): "failed" is
  not among the statuses that let the parallel complete, so the run never
  ends. *Settles assumes ParallelsRelease, which excludes branch children; a
  property that drops the assumption is violated and waits for the rework of
  control flow docs/todo.md announces.*
* `packages/functional-core/flow-analysis/src/analyze-flow.ts:190`: No rule
  keeps on.success or on.failure from leading into a join (docs/todo.md:184):
  the join is then planned and also decided by its inputs, and the order of
  its in edges begins to matter. *The flows are restricted by JoinsOnlyJoin:
  the semantics of such flows is declared undecided by the repository.*
* `engine/planners/step-planned.planner.ts:206`: A branch whose value is a
  literal plans no resolution effect: the step stays started and the run never
  ends. *Settles and RestIsSettled assume BranchesRefer; the model has
  such flows and SettledIsQuiet, OutstandingExact hold of them.*
* `engine/engine.ts:199`: A reducer or planner that throws leaves isProcessing
  true: the engine would queue every later message and process none. *The
  throw happens in a bus handler nobody awaits: the rejection is unhandled and
  ends the process, so nothing waits behind it.*
* `engine/planners/fork-spec-result.planner.ts:37`: A fork spec without
  parentRunId plans no further effect: the run stays requested. *ForkSpec
  types parentRunId as required and the loader parses it; the case needs a
  value the types exclude.*
* `engine/reducers/run-finished.reducer.ts:13`: The contexts of finished runs
  are never deleted, although the README of the engine says so (README.md:48).
  *Memory only: no later message looks at the context of a finished run but to
  answer that the run exists.*
* `packages/components/observability/src/sinks/eval-result-projection.sink.ts:153`:
  The score may not be projected before the retries are used up: the result is
  then never stored. *The budget is in real time against the speed of the
  database; the code only reports it (docs/todo names it), so there is no
  promise to check.*
* `packages/components/observability/src/sinks/sql-run-projection.sink.ts:38`:
  The shadow of a run is never deleted: the map grows with every run. *There
  is no bound in the code to check.*
* `packages/app-services/src/run.service.ts:82`: A process that dies, or a
  reply that is lost, between the row and run.requested leaves a run that is
  requested for ever: a wait for it ends by its timer only. *The model has the
  refused request with its row; nothing in the code repairs it, so there is
  nothing to hold it to.*
* `router/redis/redis-message-router.ts:424`: publish looks only for the
  publisher's connection, which start() opens before it makes the groups,
  although the interface says that nothing may be published until start()
  resolves (redis-message-router.ts:67-69): what a component publishes then
  may precede a group of its own deployment. *The assembly starts its
  components before the router and nothing publishes on its own then; whether
  a caller waits for start() is outside the router.*
* `router/redis/redis-message-router.ts:422`: Two calls of start() before the
  first resolves both pass the check of `running`, and would run every loop
  twice. *The assembly calls start once; the model starts a process once too.*
* `router/delivery-lane.ts:52`: Lanes are unbounded: a publisher that outruns
  its recipient fills the memory. *The code decides against a bound; there is
  no overflow behaviour to state a property about.*
* `packages/adapters/src/artifact-repository/prisma-artifact-repository.ts:205`:
  The row takes the last declared type while the file store keeps the first
  (docs/todo.md:17): what the index lists may not be what a load answers.
  *Known and left open by the repository; StoreIsWhole states what the store
  itself promises, the first type.*
* `packages/adapters/src/artifact-repository/prisma-artifact-repository.ts:200`:
  Saving bytes that a user has curated writes curated false over it: the
  writer always passes the field. *Labels and curation are not in the model,
  which has one row with its type.*
* `apps/http-server/src/http/serve.ts:103`: Closing waits for the requests
  under way, an event stream of a client among them, without a limit. *The
  model lets close wait as long as there are requests and states no liveness
  of it: nothing in the code bounds the wait.*
* `apps/http-server/src/http/serve.ts:111`: Before the handlers are registered
  a signal ends the process at once: what has started is not stopped. *Orderly
  is about a stop that happens; the model has the signal kill the process in
  these phases.*
* `apps/http-server/src/http/serve.ts:57`: buildServer or server.close throws
  after the start: nobody catches it and the runtime is not stopped. *The
  model has both as the end of the process; there is no promise in the code to
  check.*
* `packages/process-hosting/profile-local-system/src/build-message-router.ts:40`:
  The router within a process has no stop: its deliveries go on while the
  engine, the sinks and the database stop. *Orderly claims the served-whole
  part for Redis only; what is delivered afterwards is lost with the process
  anyway.*
* `packages/process-hosting/assembly/src/managed-runtime.ts:44`: Two starts
  before the first has finished both find that nothing is running and start
  every resource twice. *Every host calls start once, before anything that
  could call it again.*
* `limiter/concurrency-limiter.ts:141`: A finished event of a tool that was
  not configured throws in an async handler, which the bus calls without
  awaiting: an unhandled rejection. *The model's finished events are of known
  tools, requests of unknown ones are in it; the bus's guard catches only what
  is thrown at once.*
* `limiter/limiter.ts:69`: A slot given back while the limiter is stopped
  stays counted for ever. *The exactness of the count is stated while the
  limiter is subscribed; hosts start it once and stop it at their end.*
* `packages/functional-core/flow-analysis/src/graph-layout.ts:24`: A
  predecessor that is not placed counts as placed, against the comment at
  graph-layout.ts:32: a step may be laid out above one that leads to it.
  *graphLayout has no caller; only the order it is given is modelled.*
* `workbench/components/workbench/shared/events/use-replay-clock.ts:72`: A
  call's answer is appended after newer events of the stream, so the list of a
  run need not be in the order of time the clock assumes: a replay may end at
  once, and a step's status, the last in the list, may go back. *The model has
  it (Filled after Frame); no property, as the code reorders nothing.*
* `workbench/components/workbench/flow-graph-panel/use-flow-graph-panel.ts:180`:
  When the window drops the last event of an old run, the run looks in flight
  again: Run is disabled and there is no replay, and the call is not made
  again while its answer is cached. *EventsAreAccounted says which events may
  be missing; the code has no rule for this one.*
* `workbench/redux/slices/flow-graph-panels-slice.ts:27`: A replay that plays
  when the page is left or reloaded plays on when it comes back; the comment
  here and docs/initiatives/ui-workspace/arcs/replay.md:32 say it comes back
  paused. *Reloads and ComesBack keep the status, as the code does.*
* `workbench/components/workbench/flow-graph-panel/use-flow-graph-panel.ts:285`:
  Run can be pressed again while the first request is unanswered: two runs
  begin, and the panel ends on the run whose answer comes last. *Nothing in
  the code prevents it or says it may not be.*
* `workbench/redux/api/runs-api.ts:65`: A run asked for before its log exists
  is answered ok: false, which is cached like an answer: its earlier events
  are not asked for again while anybody watches it. *EventsAreAccounted leaves
  out the runs that were denied; the code does not retry.*
* `worker/adapters/outbound/local-resource-permit.adapter.ts:36`: The
  semaphores of resource keys are never evicted (docs/todo.md:216). *Memory
  only: a semaphore in balance with no waiters behaves like a new one, so no
  step of the model can tell.*

Four hazards are covered in part, and what is left out is what the code allows:

* `adapters/src/artifact-store/fs-artifact-store.ts:48`: while two saves overlap a
  reader may see the file partial. `StoreIsWhole` speaks of what is there once the
  saves have returned.
* `process-hosting/assembly/src/lifecycle.ts:51`: a resource whose start threw may
  be half up. `Orderly` covers those before it.
* `event-graph-panel/use-tracked-flow-graph-panel.ts:113`: the event graph may keep
  the run of a panel that was closed and opened again, until its hook renders.
* `workbench/pages/Workbench.tsx:56`: a storage whose write threw stays behind until
  the next change.

## Plan

Done: the engine, the worker, both carriers, the run projection, the artifact
store, the hosts, the limiter, the topology, the flow graph and the workbench's
page are modelled and checked. Every safety property a passing run checks is
proved, for every value of the constants; so are both refinements. What is left,
in this order:

1. `LocalSystem`: a small composition of run, carrier and worker in which the
   environment actions of `Engine` are steps of the others; the composition
   implements the engine's view of its jobs.
2. `InlineRun`: what the waiting route answers when it is given inline steps.

Not modelled and not planned: formatting and parsing of JSON, templates and
references (pure rewriting of data), Prisma, the rendering of the workbench, the
command line, and code under `packages/archive`. The reasons are in `PROJECT.json`.
Three parts are modelled with a restriction a reader should know of. `Limiter`
models code nothing emits requests to today. The artifact's row takes the last
declared type while the file store keeps the first (`docs/todo.md:17`); the model
states what the store promises and leaves the row's type alone. The in-process
carrier has no stop, so `Orderly` speaks of deliveries in hand for Redis only.
