-------------------------- MODULE InProcessRouter ---------------------------
(***************************************************************************)
(* The in-process message router (in-process-message-router.ts) and the    *)
(* lanes it owns.  Subscriptions are bound, the router is sealed, and from *)
(* then on a published message is copied to the lane of every subscription *)
(* that selects its topic.  A handler is invoked by its lane's pump, runs  *)
(* for any time, may publish, and ends well or with an error, which is     *)
(* reported and dropped.                                                   *)
(*                                                                         *)
(* A publish, a pump and the end of a delivery each run to completion      *)
(* before anything else does, as JavaScript jobs do.                       *)
(***************************************************************************)
EXTENDS DeliveryLane, FiniteSets, Functions

CONSTANTS
    Subscriptions, Topics,
    Selects,       \* the topics every subscription selects (the host plan)
    MaxInFlight,   \* of every binding
    TopicOf,       \* the topic every message is published to
    Waiters,       \* callers of whenIdle
    Prompt,        \* subscriptions whose handlers always come back
    Nobody

ASSUME PlanAssumption == /\ Selects \in [Subscriptions -> SUBSET Topics]
                         /\ MaxInFlight \in [Subscriptions -> Nat \ {0}]
                         /\ TopicOf \in [Messages -> Topics]
                         /\ Prompt \subseteq Subscriptions
                         /\ Nobody \notin Messages
ASSUME SetsAssumption == IsFiniteSet(Subscriptions) /\ IsFiniteSet(Messages)

VARIABLES
    sealed, bound,
    destinations,  \* the lanes of every topic, by subscription
    lanes,
    outstanding,   \* deliveries queued or running
    idleWaiters,   \* callers of whenIdle not resolved yet
    sent, began, settled,  \* the history of every lane: see module Mailbox
    cause,         \* the message whose handler published each message
    reported       \* failed deliveries, as <<subscription, message>>

box == <<sent, began, settled>>
setup == <<sealed, bound, destinations>>
vars == <<setup, lanes, outstanding, idleWaiters, box, cause, reported>>

Listing(seq) == {seq[i] : i \in DOMAIN seq}
Running(s) == Listing(began[s]) \ settled[s]
Published(m) == \E s \in Subscriptions : m \in Listing(sent[s])

TypeOK == /\ sealed \in BOOLEAN
          /\ bound \subseteq Subscriptions
          /\ destinations \in [Topics -> SUBSET Subscriptions]
          /\ lanes \in [Subscriptions -> LaneState]
          /\ outstanding \in Nat
          /\ idleWaiters \subseteq Waiters
          /\ sent \in [Subscriptions -> Seq(Messages)]
          /\ began \in [Subscriptions -> Seq(Messages)]
          /\ settled \in [Subscriptions -> SUBSET Messages]
          /\ cause \in [Messages -> Messages \cup {Nobody}]
          /\ reported \subseteq Subscriptions \X Messages

Init == /\ sealed = FALSE /\ bound = {}
        /\ destinations = [t \in Topics |-> {}]
        /\ lanes = [s \in Subscriptions |-> NewLane]
        /\ outstanding = 0 /\ idleWaiters = {}
        /\ sent = [s \in Subscriptions |-> <<>>]
        /\ began = [s \in Subscriptions |-> <<>>]
        /\ settled = [s \in Subscriptions |-> {}]
        /\ cause = [m \in Messages |-> Nobody]
        /\ reported = {}

-----------------------------------------------------------------------------
(* Composition: a subscription of the plan is bound once, and the router   *)
(* is sealed when all of them are.                                         *)

(* Mutant: the topic's lanes are replaced.                                 *)
MutLastLaneOnly(s, t) == {s}
LanesWith(s, t) == destinations[t] \cup {s}

Bind(s) ==
    /\ ~sealed /\ s \notin bound
    /\ bound' = bound \cup {s}
    /\ destinations' = [t \in Topics |-> IF t \in Selects[s] THEN LanesWith(s, t)
                                                             ELSE destinations[t]]
    /\ UNCHANGED <<sealed, lanes, outstanding, idleWaiters, box, cause, reported>>

Seal == /\ ~sealed /\ bound = Subscriptions
        /\ sealed' = TRUE
        /\ UNCHANGED <<bound, destinations, lanes, outstanding, idleWaiters, box,
                       cause, reported>>

-----------------------------------------------------------------------------
(* Delivery.                                                               *)
Counted(to) == outstanding + Cardinality(to)

(* `by` is the message whose handler publishes, or nobody's.               *)
Publish(m, by) ==
    /\ sealed /\ ~Published(m)
    /\ by = Nobody \/ \E s \in Subscriptions : by \in Running(s)
    /\ LET to == destinations[TopicOf[m]] IN
       /\ outstanding' = Counted(to)
       /\ lanes' = [s \in Subscriptions |->
                       IF s \in to THEN Enqueue(lanes[s], MaxInFlight[s], m)
                                   ELSE lanes[s]]
       /\ sent' = [s \in Subscriptions |->
                      IF s \in to THEN Append(sent[s], m) ELSE sent[s]]
    /\ cause' = [cause EXCEPT ![m] = by]
    /\ UNCHANGED <<setup, idleWaiters, began, settled, reported>>

(* The deferred dispatch of a lane: the handler is called for all it takes.*)
PumpRuns(s) ==
    /\ lanes[s].scheduled
    /\ lanes' = [lanes EXCEPT ![s] = Pump(@, MaxInFlight[s])]
    /\ began' = [began EXCEPT ![s] = @ \o Pumped(lanes[s], MaxInFlight[s])]
    /\ UNCHANGED <<setup, outstanding, idleWaiters, sent, settled, cause, reported>>

(* Mutants: nobody is told of a failed delivery; whoever waits for idle is *)
(* told of every delivery.                                                 *)
MutFailureUncounted(ok) ==
    /\ outstanding' = IF ok THEN outstanding - 1 ELSE outstanding
    /\ idleWaiters' = IF outstanding' = 0 THEN {} ELSE idleWaiters
MutOneLeft(ok) ==
    /\ outstanding' = outstanding - 1
    /\ idleWaiters' = IF outstanding' > 1 THEN idleWaiters ELSE {}
OnSettled(ok) ==
    /\ outstanding' = outstanding - 1
    /\ idleWaiters' = IF outstanding' > 0 THEN idleWaiters ELSE {}

Settles(s, m, ok) ==
    /\ m \in Running(s)
    /\ lanes' = [lanes EXCEPT ![s] = Delivered(@, MaxInFlight[s])]
    /\ OnSettled(ok)
    /\ settled' = [settled EXCEPT ![s] = @ \cup {m}]
    /\ reported' = IF ok THEN reported ELSE reported \cup {<<s, m>>}
    /\ UNCHANGED <<setup, sent, began, cause>>

(* A caller that asks while nothing is outstanding has its answer at once. *)
WhenIdle(w) ==
    /\ outstanding # 0
    /\ idleWaiters' = idleWaiters \cup {w}
    /\ UNCHANGED <<setup, lanes, outstanding, box, cause, reported>>

Next == \/ Seal
        \/ \E m \in Messages : \E by \in Messages \cup {Nobody} : Publish(m, by)
        \/ \E w \in Waiters : WhenIdle(w)
        \/ \E s \in Subscriptions :
              \/ Bind(s) \/ PumpRuns(s)
              \/ \E m \in Messages : \E ok \in BOOLEAN : Settles(s, m, ok)

Spec == Init /\ [][Next]_vars

(* A microtask that is queued runs; the handlers of the prompt come back.  *)
FairSpec ==
    /\ Spec
    /\ \A s \in Subscriptions : WF_vars(PumpRuns(s))
    /\ \A s \in Prompt : \A m \in Messages :
          WF_vars(\E ok \in BOOLEAN : Settles(s, m, ok))

-----------------------------------------------------------------------------
(* The counters tell the truth: the lanes queue what was sent and not      *)
(* begun, in order, and count what has begun and not ended; the router     *)
(* counts both.                                                            *)
CountersExact ==
    /\ \A s \in Subscriptions :
          /\ sent[s] = began[s] \o lanes[s].queue
          /\ lanes[s].inFlight = Cardinality(Running(s))
          /\ lanes[s].inFlight <= MaxInFlight[s]
    /\ outstanding = FoldFunction(LAMBDA lane, n : Len(lane.queue) + lane.inFlight + n,
                                  0, lanes)

(* No lost wake-up: a lane with work and room has a dispatch on its way.   *)
NoLostWakeup ==
    \A s \in Subscriptions : Due(lanes[s], MaxInFlight[s]) => lanes[s].scheduled

(* whenIdle: a caller waits while a delivery is queued or running, and is  *)
(* resolved at a moment when none is, those published by handlers included.*)
Quiet == \A s \in Subscriptions : Listing(sent[s]) = settled[s]
IdleIsIdle == /\ [](idleWaiters # {} => ~Quiet)
              /\ [][idleWaiters \subseteq idleWaiters' \/ Quiet']_vars

(* A subscription that selects several topics and handles one message at a *)
(* time is done with a message before it begins one that the first caused, *)
(* whichever other handler published it (job.catalog.ts:44-47).            *)
CauseFirst ==
    \A s \in Subscriptions : \A m \in Listing(began[s]) :
        /\ MaxInFlight[s] = 1 /\ cause[m] \in Listing(sent[s])
        => cause[m] \in settled[s]

(* The router is a carrier as module Mailbox describes it.                 *)
Box == INSTANCE Mailbox WITH
          Recipients <- [m \in Messages |->
                           {s \in Subscriptions : TopicOf[m] \in Selects[s]}]
ImplementsMailbox == Box!Spec

(* A subscription is served whatever the handlers of the others do.        *)
Served == \A s \in Prompt : \A m \in Messages :
             m \in Listing(sent[s]) ~> m \in settled[s]

(* Failed deliveries or not, a caller of whenIdle gets its answer, unless  *)
(* a handler that need not come back hangs for ever.                       *)
IdleComes ==
    \A w \in Waiters :
        <>[](w \in idleWaiters)
          => <>[](\E s \in Subscriptions \ Prompt : Running(s) # {})

=============================================================================
