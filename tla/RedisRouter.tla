---------------------------- MODULE RedisRouter -----------------------------
(***************************************************************************)
(* The log-backed carrier: one process per role of the manifest, each with *)
(* the Redis router (redis-message-router.ts), over one Redis that keeps a *)
(* stream per route and, per stream, one consumer group per subscription   *)
(* (redis-message-log.ts).                                                 *)
(*                                                                         *)
(* A reader is a pair <<subscription, route>>.  It asks Redis for a batch, *)
(* hands every entry to the lane of its subscription, and asks again when  *)
(* the whole batch is handled and acknowledged.  Redis forgets nothing in  *)
(* a crash of a process: the cursor of the group and the entries given out *)
(* and not acknowledged (pending) stay.  Nothing ever reads the pending    *)
(* entries again.                                                          *)
(*                                                                         *)
(* A call of Redis is one step, taken when Redis runs it; whoever awaits   *)
(* the reply goes on in the same step, unless the reply is lost.           *)
(***************************************************************************)
EXTENDS Integers, Sequences, SequencesExt, FiniteSets, MessageTopology

CONSTANTS
    Messages, Routes, Subscriptions, Topics,
    Catalog,
    Manifests,     \* the deployments to choose from
    TopicOf,
    StrayTo,       \* messages another program appends, and to which stream
    MaxInFlight, ReadCount,
    MaxFaults,     \* crashes, lost replies and lost acknowledgements
    MaxStarts,     \* of all processes
    Nobody

Entries == Routes \X Messages
Pairs == Subscriptions \X Routes
Roles == UNION {Ids(manifest.roles) : manifest \in Manifests}

(* What the deployment gives is of these types, and a binding takes one    *)
(* message at a time at least, as a read asks for one entry at least.      *)
ASSUME DeploymentAssumption ==
    /\ TopicOf \in [Messages -> Topics] /\ Nobody \notin Messages
    /\ DOMAIN StrayTo \subseteq Messages
    /\ \A m \in DOMAIN StrayTo : StrayTo[m] \in Routes
    /\ MaxInFlight \in [Subscriptions -> Nat \ {0}]
    /\ ReadCount \in [Subscriptions -> Nat \ {0}]
    /\ MaxFaults \in Nat /\ MaxStarts \in Nat
ASSUME TopologyAssumption ==
    /\ CatalogOk(Catalog) /\ ToSet(Catalog.topics) \subseteq Topics
    /\ \A manifest \in Manifests : \A route \in ToSet(manifest.routes) :
          route.routeId \in Routes

(* What the hosts of a manifest resolve when they are composed: the routes *)
(* of what each publishes, the subscriptions it consumes, a reader for     *)
(* each distinct route of a subscription, and the topics that it accepts.  *)
Deployment(manifest) ==
    LET plan == [h \in Ids(manifest.roles) |-> HostPlanFor(manifest, h)]
        Consumed(h) == Subscriptions \cap DOMAIN plan[h].consumesFrom
        Bound(h, s, r) == {t \in Topics : <<t, r>> \in plan[h].consumesFrom[s]} IN
    [publishes |-> [h \in DOMAIN plan |-> plan[h].publishesTo],
     consumes  |-> [h \in DOMAIN plan |-> Consumed(h)],
     readers   |-> [h \in DOMAIN plan |->
                       {p \in Consumed(h) \X Routes : Bound(h, p[1], p[2]) # {}}],
     accepts   |-> [p \in Pairs |->
                       UNION {Bound(h, p[1], p[2]) :
                                 h \in {g \in DOMAIN plan : p[1] \in Consumed(g)}}],
     paths     |-> [m \in Messages |-> IF m \in DOMAIN StrayTo THEN {{StrayTo[m]}}
                                       ELSE {RoutesOfTopic(manifest, TopicOf[m])}]]

(* Every accepted manifest resolves, in every host.                        *)
ManifestsResolve ==
    \A manifest \in Manifests : ManifestOk(Catalog, manifest) =>
        \A h \in Ids(manifest.roles) : Resolves(HostPlanFor(manifest, h), Catalog)

L == INSTANCE DeliveryLane WITH Messages <- Entries

VARIABLES
    deployed,  \* the deployment, fixed
    stream,    \* per route: the entries appended
    group,     \* per pair: where its group began, and what it has given out
    pending,   \* per pair: entries given out and not acknowledged
    phase,     \* of every role's process: down, starting, running, stopping
    ready,     \* the readers whose connection and group a start has made
    reader,    \* per pair: off, reading (a blocked read), holding (a batch)
    batch,     \* per pair: the entries presented and not retired
    lanes,
    running,   \* per subscription: entries in their handler
    retiring,  \* per subscription: entries handled and being acknowledged
    refused,   \* per pair: entries presented that no topic of it declares
    began, ended,   \* per subscription: the history of its handler
    cause,     \* the message whose handler published each message
    starts, faults

redis == <<stream, group, pending>>
process == <<phase, ready, reader, batch, lanes, running, retiring, refused>>
history == <<began, ended, cause>>
vars == <<deployed, redis, process, history, starts, faults>>

-----------------------------------------------------------------------------
Hosts == DOMAIN deployed.readers
SubscriptionsOf(h) == deployed.consumes[h]
HostOf(s) == CHOOSE h \in Hosts : s \in SubscriptionsOf(h)
ReadersOf(h) == deployed.readers[h]
AllReaders == UNION {ReadersOf(h) : h \in Hosts}

(* A reader accepts the types of all the topics on its route.              *)
Allows(p, m) == TopicOf[m] \in deployed.accepts[p]

NoGroup == [from |-> -1, cursor |-> -1]
Given(p) == {<<p[2], stream[p[2]][i]>> : i \in group[p].from + 1 .. group[p].cursor}
Published(m) == \E r \in Routes : m \in ToSet(stream[r])

TypeOK ==
    /\ stream \in [Routes -> Seq(Messages)]
    /\ \A p \in Pairs :
          /\ \/ group[p] = NoGroup
             \/ /\ group[p].from \in Nat
                /\ group[p].cursor \in group[p].from .. Len(stream[p[2]])
          /\ pending[p] \subseteq Entries
          /\ reader[p] \in {"off", "reading", "holding"}
          /\ batch[p] \subseteq Entries /\ Cardinality(batch[p]) <= ReadCount[p[1]]
          /\ refused[p] \subseteq batch[p]
    /\ phase \in [Roles -> {"down", "starting", "running", "stopping"}]
    /\ ready \subseteq Pairs
    /\ \A s \in Subscriptions :
          /\ lanes[s] \in L!LaneState
          /\ lanes[s].inFlight = Cardinality(running[s] \cup retiring[s])
          /\ lanes[s].inFlight <= MaxInFlight[s]
          /\ began[s] \in Seq(Entries) /\ ended[s] \subseteq ToSet(began[s])
    /\ cause \in [Messages -> Messages \cup {Nobody}]
    /\ starts \in 0 .. MaxStarts /\ faults \in 0 .. MaxFaults

(* Provisioned before any host starts, or not at all.                      *)
Init ==
    /\ \E manifest \in Manifests :
          /\ ManifestOk(Catalog, manifest)
          /\ deployed = Deployment(manifest)
          /\ \E first \in {{}, ProvisionedGroups(manifest)} :
                group = [p \in Pairs |-> IF p \in first THEN [from |-> 0, cursor |-> 0]
                                                        ELSE NoGroup]
    /\ stream = [r \in Routes |-> <<>>]
    /\ pending = [p \in Pairs |-> {}]
    /\ phase = [h \in Roles |-> "down"] /\ ready = {}
    /\ reader = [p \in Pairs |-> "off"]
    /\ batch = [p \in Pairs |-> {}] /\ refused = [p \in Pairs |-> {}]
    /\ lanes = [s \in Subscriptions |-> L!NewLane]
    /\ running = [s \in Subscriptions |-> {}]
    /\ retiring = [s \in Subscriptions |-> {}]
    /\ began = [s \in Subscriptions |-> <<>>]
    /\ ended = [s \in Subscriptions |-> {}]
    /\ cause = [m \in Messages |-> Nobody]
    /\ starts = 0 /\ faults = 0

-----------------------------------------------------------------------------
(* Start: the publisher's connection, then a connection and a group for    *)
(* every reader, then all the loops.  A group that exists keeps its cursor.*)

StartBegins(h) ==
    /\ phase[h] = "down" /\ starts < MaxStarts
    /\ phase' = [phase EXCEPT ![h] = "starting"]
    /\ starts' = starts + 1
    /\ UNCHANGED <<deployed, redis, ready, reader, batch, lanes, running, retiring,
                   refused, history, faults>>

(* Mutant: the group is moved to the end of the stream.                    *)
MutMovesGroup(p) == LET end == Len(stream[p[2]]) IN
                    IF group[p] = NoGroup THEN [from |-> end, cursor |-> end]
                                          ELSE [group[p] EXCEPT !.cursor = end]
EnsuredGroup(p) == LET end == Len(stream[p[2]]) IN
                   IF group[p] = NoGroup THEN [from |-> end, cursor |-> end]
                                         ELSE group[p]

EnsureGroup(h, p) ==
    /\ phase[h] = "starting" /\ p \in ReadersOf(h) \ ready
    /\ group' = [group EXCEPT ![p] = EnsuredGroup(p)]
    /\ ready' = ready \cup {p}
    /\ UNCHANGED <<deployed, stream, pending, phase, reader, batch, lanes, running,
                   retiring, refused, history, starts, faults>>

StartEnds(h) ==
    /\ phase[h] = "starting" /\ ReadersOf(h) \subseteq ready
    /\ phase' = [phase EXCEPT ![h] = "running"]
    /\ reader' = [p \in Pairs |-> IF p \in ReadersOf(h) THEN "reading" ELSE reader[p]]
    /\ UNCHANGED <<deployed, redis, ready, batch, lanes, running, retiring, refused,
                   history, starts, faults>>

-----------------------------------------------------------------------------
(* Stop: the loops end, each when its batch is done or its read returns    *)
(* nothing, and then the connections are closed.                           *)

StopBegins(h) ==
    /\ phase[h] = "running"
    /\ phase' = [phase EXCEPT ![h] = "stopping"]
    /\ UNCHANGED <<deployed, redis, ready, reader, batch, lanes, running, retiring,
                   refused, history, starts, faults>>

(* The blocked read runs into its timeout.                                 *)
ReadTimesOut(h, p) ==
    /\ phase[h] = "stopping" /\ p \in ReadersOf(h) /\ reader[p] = "reading"
    /\ group[p].cursor = Len(stream[p[2]])
    /\ reader' = [reader EXCEPT ![p] = "off"]
    /\ UNCHANGED <<deployed, redis, phase, ready, batch, lanes, running, retiring,
                   refused, history, starts, faults>>

(* Mutant: nobody waits for the loops.                                     *)
MutNoWait(h) == TRUE
LoopsEnded(h) == \A p \in ReadersOf(h) : reader[p] = "off"

StopEnds(h) ==
    /\ phase[h] = "stopping" /\ LoopsEnded(h)
    /\ phase' = [phase EXCEPT ![h] = "down"]
    /\ ready' = ready \ ReadersOf(h)
    /\ UNCHANGED <<deployed, redis, reader, batch, lanes, running, retiring, refused,
                   history, starts, faults>>

-----------------------------------------------------------------------------
(* Publishing: one admission to every route of the topic.  It is possible  *)
(* while the publisher's connection is there.  `by` is the message whose   *)
(* handler publishes, or nobody's.                                         *)

AppendAll(routes, m) ==
    stream' = [r \in Routes |-> IF r \in routes THEN Append(stream[r], m) ELSE stream[r]]

Publish(h, m, by) ==
    /\ m \notin DOMAIN StrayTo /\ ~Published(m)
    /\ TopicOf[m] \in DOMAIN deployed.publishes[h]
    /\ phase[h] # "down"
    /\ \/ by = Nobody
       \/ \E s \in SubscriptionsOf(h) : \E r \in Routes : <<r, by>> \in running[s]
    /\ AppendAll(deployed.publishes[h][TopicOf[m]], m)
    /\ cause' = [cause EXCEPT ![m] = by]
    /\ UNCHANGED <<deployed, group, pending, process, began, ended, starts, faults>>

(* Redis is shared: something else appends to a stream.                    *)
Stray(m) ==
    /\ m \in DOMAIN StrayTo /\ ~Published(m)
    /\ AppendAll({StrayTo[m]}, m)
    /\ UNCHANGED <<deployed, group, pending, process, history, starts, faults>>

-----------------------------------------------------------------------------
(* Reading.                                                                *)

NextBatch(p) ==
    LET left == Len(stream[p[2]]) - group[p].cursor
        n == IF left < ReadCount[p[1]] THEN left ELSE ReadCount[p[1]] IN
    SubSeq(stream[p[2]], group[p].cursor + 1, group[p].cursor + n)

(* The group gives entries out.  Mutant: the cursor stays until they are   *)
(* acknowledged.                                                           *)
MutRereads(p, es) == /\ UNCHANGED group
                     /\ pending' = [pending EXCEPT ![p] = @ \cup es]
GiveOut(p, es) == /\ group' = [group EXCEPT ![p].cursor = @ + Cardinality(es)]
                  /\ pending' = [pending EXCEPT ![p] = @ \cup es]

EnqueueAll(p, ms) ==
    FoldLeft(LAMBDA lane, m : IF Allows(p, m)
                              THEN L!Enqueue(lane, MaxInFlight[p[1]], <<p[2], m>>)
                              ELSE lane,
             lanes[p[1]], ms)

(* The reply arrives: every entry goes to the lane, or is refused.         *)
Read(h, p) ==
    /\ p \in ReadersOf(h) /\ reader[p] = "reading"
    /\ LET ms == NextBatch(p)
           es == {<<p[2], m>> : m \in ToSet(ms)} IN
       /\ ms # <<>>
       /\ GiveOut(p, es)
       /\ reader' = [reader EXCEPT ![p] = "holding"]
       /\ batch' = [batch EXCEPT ![p] = es]
       /\ lanes' = [lanes EXCEPT ![p[1]] = EnqueueAll(p, ms)]
       /\ refused' = [refused EXCEPT ![p] = {e \in es : ~Allows(p, e[2])}]
    /\ UNCHANGED <<deployed, stream, phase, ready, running, retiring, history, starts,
                   faults>>

(* The connection breaks after Redis has given the batch out, or an entry  *)
(* of it cannot be decoded: the reader reports, pauses and asks again.     *)
ReadLost(h, p) ==
    /\ faults < MaxFaults
    /\ p \in ReadersOf(h) /\ reader[p] = "reading"
    /\ NextBatch(p) # <<>>
    /\ GiveOut(p, {<<p[2], m>> : m \in ToSet(NextBatch(p))})
    /\ reader' = IF phase[h] = "running" THEN reader ELSE [reader EXCEPT ![p] = "off"]
    /\ faults' = faults + 1
    /\ UNCHANGED <<deployed, stream, phase, ready, batch, lanes, running, retiring,
                   refused, history, starts>>

-----------------------------------------------------------------------------
(* Handling: the lane calls the handler; when it comes back, well or not,  *)
(* the entry is acknowledged inside its slot, and then the slot is free.   *)

PumpRuns(s) ==
    /\ lanes[s].scheduled
    /\ LET es == L!Pumped(lanes[s], MaxInFlight[s]) IN
       /\ began' = [began EXCEPT ![s] = @ \o es]
       /\ running' = [running EXCEPT ![s] = @ \cup ToSet(es)]
    /\ lanes' = [lanes EXCEPT ![s] = L!Pump(@, MaxInFlight[s])]
    /\ UNCHANGED <<deployed, redis, phase, ready, reader, batch, retiring, refused,
                   ended, cause, starts, faults>>

HandlerEnds(s, e) ==
    /\ e \in running[s]
    /\ running' = [running EXCEPT ![s] = @ \ {e}]
    /\ retiring' = [retiring EXCEPT ![s] = @ \cup {e}]
    /\ ended' = [ended EXCEPT ![s] = @ \cup {e}]
    /\ UNCHANGED <<deployed, redis, phase, ready, reader, batch, lanes, refused, began,
                   cause, starts, faults>>

(* The acknowledgement; it may fail on the way, which is reported.         *)
(* Mutant: the wrong group is named.                                       *)
MutAckNothing(p, e) == UNCHANGED <<pending, faults>>
Acknowledge(p, e) ==
    \/ /\ pending' = [pending EXCEPT ![p] = @ \ {e}]
       /\ UNCHANGED faults
    \/ /\ faults < MaxFaults /\ faults' = faults + 1
       /\ UNCHANGED pending

(* The batch is awaited as a whole, and then the loop looks at `running`.  *)
BatchWithout(p, e) ==
    /\ batch' = [batch EXCEPT ![p] = @ \ {e}]
    /\ reader' = [reader EXCEPT ![p] =
                     IF batch'[p] # {} THEN "holding"
                     ELSE IF phase[HostOf(p[1])] = "running" THEN "reading" ELSE "off"]

Retire(s, e) ==
    LET p == <<s, e[1]>> IN
    /\ e \in retiring[s]
    /\ Acknowledge(p, e)
    /\ BatchWithout(p, e)
    /\ retiring' = [retiring EXCEPT ![s] = @ \ {e}]
    /\ lanes' = [lanes EXCEPT ![s] = L!Delivered(@, MaxInFlight[s])]
    /\ UNCHANGED <<deployed, stream, group, phase, ready, running, refused, history,
                   starts>>

Refuse(p, e) ==
    /\ e \in refused[p]
    /\ Acknowledge(p, e)
    /\ BatchWithout(p, e)
    /\ refused' = [refused EXCEPT ![p] = @ \ {e}]
    /\ UNCHANGED <<deployed, stream, group, phase, ready, lanes, running, retiring,
                   history, starts>>

(* A process dies with all it holds.                                       *)
Crash(h) ==
    LET Dies(s) == s \in SubscriptionsOf(h) IN
    /\ faults < MaxFaults /\ phase[h] # "down"
    /\ faults' = faults + 1
    /\ phase' = [phase EXCEPT ![h] = "down"]
    /\ ready' = ready \ ReadersOf(h)
    /\ reader' = [p \in Pairs |-> IF Dies(p[1]) THEN "off" ELSE reader[p]]
    /\ batch' = [p \in Pairs |-> IF Dies(p[1]) THEN {} ELSE batch[p]]
    /\ refused' = [p \in Pairs |-> IF Dies(p[1]) THEN {} ELSE refused[p]]
    /\ lanes' = [s \in Subscriptions |-> IF Dies(s) THEN L!NewLane ELSE lanes[s]]
    /\ running' = [s \in Subscriptions |-> IF Dies(s) THEN {} ELSE running[s]]
    /\ retiring' = [s \in Subscriptions |-> IF Dies(s) THEN {} ELSE retiring[s]]
    /\ UNCHANGED <<deployed, redis, history, starts>>

-----------------------------------------------------------------------------
Next ==
    \/ \E h \in Hosts :
          \/ StartBegins(h) \/ StartEnds(h) \/ StopBegins(h) \/ StopEnds(h) \/ Crash(h)
          \/ \E p \in Pairs : \/ EnsureGroup(h, p) \/ ReadTimesOut(h, p)
                              \/ Read(h, p) \/ ReadLost(h, p)
          \/ \E m \in Messages : \E by \in Messages \cup {Nobody} : Publish(h, m, by)
    \/ \E m \in DOMAIN StrayTo : Stray(m)
    \/ \E s \in Subscriptions :
          \/ PumpRuns(s)
          \/ \E e \in Entries : HandlerEnds(s, e) \/ Retire(s, e)
    \/ \E p \in Pairs : \E e \in Entries : Refuse(p, e)

Spec == Init /\ [][Next]_vars

-----------------------------------------------------------------------------
(* What the carrier promises, whatever is lost: see module AtMostOnce.     *)
Promised == INSTANCE AtMostOnce WITH
    Logs <- Routes, log <- stream,
    paths <- deployed.paths,
    IsFor <- [s \in Subscriptions |->
                 [r \in Routes |-> {m \in Messages : TopicOf[m] \in Selected(Catalog, s)}]]
ImplementsAtMostOnce == Promised!Spec

(* An entry that Redis no longer holds for a group has been handled to its *)
(* end, or no topic of the reader declares it: nothing is acknowledged     *)
(* before its handler is done (redis-message-router.ts:147-152).           *)
AckedIsHandled ==
    \A p \in AllReaders : \A e \in Given(p) \ pending[p] :
        e \in ended[p[1]] \/ ~Allows(p, e[2])

(* The pending list stays transient: without a fault it holds exactly what *)
(* the reader has in hand, and every fault leaves at most one batch.       *)
PendingIsHeld ==
    \A p \in AllReaders :
        /\ batch[p] \subseteq pending[p]
        /\ Cardinality(pending[p] \ batch[p]) <= faults * ReadCount[p[1]]

(* When stop() has returned nothing of the host is at work.                *)
StopIsClean ==
    \A h \in Hosts : phase[h] = "down" =>
        \A s \in SubscriptionsOf(h) :
            /\ lanes[s] = L!NewLane /\ running[s] = {} /\ retiring[s] = {}
            /\ \A p \in ReadersOf(h) : reader[p] = "off" /\ batch[p] = {}

(* What an accepted manifest sends to a reader is for it.                  *)
OnlyStraysRefused ==
    \A p \in AllReaders : \A e \in refused[p] : e[2] \in DOMAIN StrayTo

(* One route, one order: where one reader carries a message and what its   *)
(* handler published, a subscription that handles one at a time is done    *)
(* with the cause, or has lost it, before it begins the effect, whichever  *)
(* process published it.                                                   *)
CauseFirst ==
    \A s \in Subscriptions : \A i \in DOMAIN began[s] :
        LET r == began[s][i][1]
            before == <<r, cause[began[s][i][2]]>> IN
        MaxInFlight[s] = 1
          => before \notin ToSet(lanes[s].queue) \cup
                (running[s] \ {began[s][i]}) \cup {began[s][j] : j \in i + 1 .. Len(began[s])}

(* A host that runs catches up: when it comes to rest and no reply,        *)
(* acknowledgement or process has been lost, each of its subscriptions has *)
(* handled everything appended for it since its group was made, what was   *)
(* appended while the host was down as well.                               *)
Backlog(s) ==
    {e \in Entries :
        LET p == <<s, e[1]>> IN
        /\ Allows(p, e[2]) /\ e \notin ended[s] /\ group[p] # NoGroup
        /\ \E i \in group[p].from + 1 .. Len(stream[e[1]]) : stream[e[1]][i] = e[2]}
AtRest(s) ==
    /\ ~lanes[s].scheduled /\ running[s] = {} /\ retiring[s] = {}
    /\ \A p \in ReadersOf(HostOf(s)) : p[1] = s =>
          refused[p] = {} /\ ~(reader[p] = "reading" /\ NextBatch(p) # <<>>)
RestIsDone ==
    \A h \in Hosts : \A s \in SubscriptionsOf(h) :
        phase[h] = "running" /\ AtRest(s) /\ faults = 0 => Backlog(s) = {}

(* What is published to a topic reaches every subscription that selects it,*)
(* on exactly one of its routes.                                           *)
ReachesOnce ==
    \A h \in Hosts : \A s \in SubscriptionsOf(h) : \A m \in Messages \ DOMAIN StrayTo :
        Published(m) /\ TopicOf[m] \in Selected(Catalog, s)
        => Cardinality({r \in Routes : /\ m \in ToSet(stream[r])
                                       /\ <<s, r>> \in AllReaders}) = 1

(* Every entry is accounted for, from its publication to its               *)
(* acknowledgement, under every manifest that was accepted.                *)
AllIsAccounted ==
    TypeOK /\ ReachesOnce /\ OnlyStraysRefused /\ AckedIsHandled /\ PendingIsHeld
=============================================================================
