----------------------------- MODULE RedisProofs ------------------------------
(***************************************************************************)
(* The Redis carrier, for any catalog and manifests, any messages, limits  *)
(* and faults: what it loses and what it never does.                       *)
(*                                                                         *)
(* First, that every accepted manifest resolves, which gives the facts of  *)
(* a deployment the rest stands on (WellDeployed).  The invariant then     *)
(* follows an entry.  It is appended once, to all of one path, after its   *)
(* cause (StreamsOk, CausesOk).  What a group has given out is pending     *)
(* until it is handled or refused (GroupOk).  What its reader holds of it  *)
(* is in the lane's queue, at work or refused, and what it does not hold   *)
(* was left by a fault, at most a batch for each (BatchOk).  A lane counts *)
(* who is at work and has scheduled what is due (LaneOk).  And what a      *)
(* subscription has begun and has queued is in the order of each stream,   *)
(* so nothing begins twice (WorkOk).  Only the last two speak of the lane, *)
(* but a lane is fed from a batch and a batch ends when the lane has let   *)
(* go of it: no part is kept without the others.                           *)
(***************************************************************************)
EXTENDS RedisRouter, InductionFacts, SequenceTheorems, FiniteSetTheorems, TLAPS

(* What the proofs use of a deployment.                                    *)
HostsApart ==
    /\ Hosts \subseteq Roles
    /\ \A h \in Hosts : /\ SubscriptionsOf(h) \subseteq Subscriptions
                        /\ ReadersOf(h) \subseteq SubscriptionsOf(h) \X Routes
    /\ \A g, h \in Hosts : g # h => SubscriptionsOf(g) \cap SubscriptionsOf(h) = {}
PathsKnown ==
    /\ deployed.paths \in [Messages -> SUBSET SUBSET Routes]
    /\ \A h \in Hosts : \A m \in Messages \ DOMAIN StrayTo :
          TopicOf[m] \in DOMAIN deployed.publishes[h]
            => deployed.publishes[h][TopicOf[m]] \in deployed.paths[m]
    /\ \A m \in DOMAIN StrayTo : {StrayTo[m]} \in deployed.paths[m]
RoutesShared ==
    /\ \A p \in AllReaders : \A m \in Messages :
          /\ Allows(p, m) => TopicOf[m] \in Selected(Catalog, p[1])
          /\ m \notin DOMAIN StrayTo =>
                \A path \in deployed.paths[m] : p[2] \in path => Allows(p, m)
    /\ \A h \in Hosts : \A s \in SubscriptionsOf(h) : \A m \in Messages \ DOMAIN StrayTo :
          TopicOf[m] \in Selected(Catalog, s) =>
             \A path \in deployed.paths[m] : \E r \in path :
                <<s, r>> \in AllReaders
                  /\ \A q \in path : <<s, q>> \in AllReaders => q = r
BoundRead == \A p \in Pairs : \A m \in Messages : Allows(p, m) => p \in AllReaders
WellDeployed == HostsApart /\ PathsKnown /\ RoutesShared /\ BoundRead

-----------------------------------------------------------------------------
(* The invariant.                                                          *)

Before(r, m, n) == \E i, j \in DOMAIN stream[r] :
                       i < j /\ stream[r][i] = m /\ stream[r][j] = n
Work(s) == began[s] \o lanes[s].queue
AtWork(s) == running[s] \cup retiring[s]

Typed ==
    /\ stream \in [Routes -> Seq(Messages)]
    /\ group \in [Pairs -> [from : Int, cursor : Int]]
    /\ pending \in [Pairs -> SUBSET Entries]
    /\ phase \in [Roles -> {"down", "starting", "running", "stopping"}]
    /\ ready \subseteq Pairs
    /\ reader \in [Pairs -> {"off", "reading", "holding"}]
    /\ batch \in [Pairs -> SUBSET Entries]
    /\ refused \in [Pairs -> SUBSET Entries]
    /\ lanes \in [Subscriptions -> L!LaneState]
    /\ running \in [Subscriptions -> SUBSET Entries]
    /\ retiring \in [Subscriptions -> SUBSET Entries]
    /\ began \in [Subscriptions -> Seq(Entries)]
    /\ ended \in [Subscriptions -> SUBSET Entries]
    /\ cause \in [Messages -> Messages \cup {Nobody}]
    /\ starts \in 0 .. MaxStarts /\ faults \in 0 .. MaxFaults

(* A message is appended once, to all of one of its paths; one that a      *)
(* handler published comes after the one that was handled.                 *)
StreamsOk ==
    /\ \A r \in Routes : \A i, j \in DOMAIN stream[r] : stream[r][i] = stream[r][j] => i = j
    /\ \A m \in Messages :
          Published(m) => {r \in Routes : m \in ToSet(stream[r])} \in deployed.paths[m]
CausesOk ==
    \A m \in Messages : cause[m] # Nobody =>
        /\ Published(cause[m])
        /\ \A r \in Routes : m \in ToSet(stream[r]) /\ cause[m] \in ToSet(stream[r])
                            => Before(r, cause[m], m)

(* The loops run from the end of a start to the end of a stop.             *)
PhasesOk ==
    /\ \A h \in Hosts : \A p \in ReadersOf(h) :
          /\ phase[h] \in {"down", "starting"} => reader[p] = "off"
          /\ phase[h] = "running" => reader[p] # "off"
    /\ \A p \in ready : group[p] # NoGroup

GroupOk(p) ==
    /\ \/ group[p] = NoGroup
       \/ group[p].from \in Nat /\ group[p].cursor \in group[p].from .. Len(stream[p[2]])
    /\ reader[p] # "off" => p \in AllReaders /\ group[p] # NoGroup
    /\ pending[p] \subseteq Given(p) /\ IsFiniteSet(pending[p])
    /\ \A e \in Given(p) \ pending[p] : e \in ended[p[1]] \/ ~Allows(p, e[2])

(* What a reader holds is queued, at work or refused, and nowhere twice.   *)
BatchOk(p) ==
    /\ reader[p] = "holding" <=> batch[p] # {}
    /\ batch[p] \subseteq pending[p]
    /\ Cardinality(batch[p]) <= ReadCount[p[1]]
    /\ Cardinality(pending[p] \ batch[p]) <= faults * ReadCount[p[1]]
    /\ refused[p] \subseteq {e \in batch[p] : ~Allows(p, e[2])}
    /\ batch[p] \ refused[p] =
          {e \in ToSet(lanes[p[1]].queue) \cup AtWork(p[1]) : e[1] = p[2]}

LaneOk(s) ==
    /\ lanes[s].scheduled = L!Due(lanes[s], MaxInFlight[s])
    /\ IsFiniteSet(AtWork(s))
    /\ lanes[s].inFlight = Cardinality(AtWork(s)) /\ lanes[s].inFlight <= MaxInFlight[s]
    /\ running[s] \cap ended[s] = {} /\ retiring[s] \subseteq ended[s]
    /\ running[s] \cup ended[s] \subseteq ToSet(began[s])
    /\ MaxInFlight[s] = 1 => \A e \in running[s] : e = began[s][Len(began[s])]

(* What has begun and what is queued, in the order of each stream.         *)
WorkOk(s) ==
    /\ \A e \in ToSet(Work(s)) :
          LET p == <<s, e[1]>> IN p \in AllReaders /\ e \in Given(p) /\ Allows(p, e[2])
    /\ \A i, j \in DOMAIN Work(s) :
          i < j /\ Work(s)[i][1] = Work(s)[j][1]
            => Before(Work(s)[i][1], Work(s)[i][2], Work(s)[j][2])

RInv ==
    /\ WellDeployed /\ Typed /\ StreamsOk /\ CausesOk /\ PhasesOk
    /\ \A p \in Pairs : GroupOk(p) /\ BatchOk(p)
    /\ \A s \in Subscriptions : LaneOk(s) /\ WorkOk(s)

-----------------------------------------------------------------------------
(* Manifests.                                                              *)

Routed(manifest, t, s, r) ==
    \E route \in ToSet(manifest.routes) :
        route.topicId = t /\ route.subscriptionId = s /\ route.routeId = r

LEMMA NamedIs ==
    ASSUME NEW seq, NEW id \in Ids(seq)
    PROVE  \E i \in DOMAIN seq : seq[i].id = id /\ Named(seq, id) = seq[i]
  BY DEF Ids, Named

LEMMA PlanIs ==
    ASSUME NEW manifest, NEW h \in Ids(manifest.roles)
    PROVE  \E i \in DOMAIN manifest.roles :
              /\ manifest.roles[i].id = h
              /\ LET plan == HostPlanFor(manifest, h) IN
                 /\ DOMAIN plan.publishesTo = manifest.roles[i].publishesTo
                 /\ \A t \in DOMAIN plan.publishesTo :
                       plan.publishesTo[t] = RoutesOfTopic(manifest, t)
                 /\ DOMAIN plan.consumesFrom = ToSet(manifest.roles[i].consumesFrom)
                 /\ \A s \in DOMAIN plan.consumesFrom : \A t, r :
                       <<t, r>> \in plan.consumesFrom[s] <=> Routed(manifest, t, s, r)
<1>1. PICK i \in DOMAIN manifest.roles :
          manifest.roles[i].id = h /\ Named(manifest.roles, h) = manifest.roles[i]
  BY NamedIs
<1>. DEFINE plan == HostPlanFor(manifest, h)
<1>2. /\ plan.publishesTo =
              [t \in manifest.roles[i].publishesTo |-> RoutesOfTopic(manifest, t)]
      /\ plan.consumesFrom =
              [s \in ToSet(manifest.roles[i].consumesFrom) |-> TopicRoutes(manifest, s)]
  BY <1>1 DEF HostPlanFor
<1>3. \A s, t, r : <<t, r>> \in TopicRoutes(manifest, s) <=> Routed(manifest, t, s, r)
  BY DEF TopicRoutes, Routed
<1>. HIDE DEF plan
<1>. QED
  BY <1>1, <1>2, <1>3 DEF plan

(* The route of an edge is one, and it carries to each of its              *)
(* subscriptions every topic that it carries at all.                       *)
LEMMA EdgesRouted ==
    ASSUME NEW manifest, ManifestOk(Catalog, manifest)
    PROVE  /\ \A t, s : (\E r : Routed(manifest, t, s, r)) <=>
                 /\ t \in manifest.topicIds /\ s \in manifest.subscriptionIds
                 /\ t \in Selected(Catalog, s)
           /\ \A t, s, r, q : Routed(manifest, t, s, r) /\ Routed(manifest, t, s, q)
                                => q = r
           /\ \A t, s, u, v, r : Routed(manifest, t, s, r) /\ Routed(manifest, u, v, r)
                                => Routed(manifest, t, v, r)
<1>1. ASSUME NEW t, NEW s
      PROVE  (\E r : Routed(manifest, t, s, r)) <=>
                 /\ t \in manifest.topicIds /\ s \in manifest.subscriptionIds
                 /\ t \in Selected(Catalog, s)
  <2>1. (\E r : Routed(manifest, t, s, r)) <=>
            <<t, s>> \in {<<r.topicId, r.subscriptionId>> : r \in ToSet(manifest.routes)}
    BY DEF Routed
  <2>2. <<t, s>> \in Edges(Catalog, manifest) <=>
            /\ t \in manifest.topicIds /\ s \in manifest.subscriptionIds
            /\ t \in Selected(Catalog, s)
    BY DEF Edges
  <2>. QED
    BY <2>1, <2>2 DEF ManifestOk, RoutedOk
<1>2. ASSUME NEW t, NEW s, NEW r, NEW q,
             Routed(manifest, t, s, r), Routed(manifest, t, s, q)
      PROVE  q = r
  <2>1. PICK i \in DOMAIN manifest.routes :
            /\ manifest.routes[i].topicId = t /\ manifest.routes[i].subscriptionId = s
            /\ manifest.routes[i].routeId = r
    BY <1>2 DEF Routed, ToSet
  <2>2. PICK j \in DOMAIN manifest.routes :
            /\ manifest.routes[j].topicId = t /\ manifest.routes[j].subscriptionId = s
            /\ manifest.routes[j].routeId = q
    BY <1>2 DEF Routed, ToSet
  <2>3. i = j
    BY <2>1, <2>2 DEF ManifestOk, RoutedOk, Distinct
  <2>. QED
    BY <2>1, <2>2, <2>3
<1>3. ASSUME NEW t, NEW s, NEW u, NEW v, NEW r,
             Routed(manifest, t, s, r), Routed(manifest, u, v, r)
      PROVE  Routed(manifest, t, v, r)
  BY <1>3 DEF Routed, ManifestOk, SharedRoutesOk
<1>. QED
  BY <1>1, <1>2, <1>3

(* Every accepted manifest resolves in every host: what its check accepts  *)
(* leaves nothing for the host's own check to refuse.                      *)
THEOREM AcceptedResolves == ManifestsResolve
<1>. SUFFICES ASSUME NEW manifest \in Manifests, ManifestOk(Catalog, manifest),
                     NEW h \in Ids(manifest.roles)
              PROVE  Resolves(HostPlanFor(manifest, h), Catalog)
  BY DEF ManifestsResolve
<1>. DEFINE plan == HostPlanFor(manifest, h)
<1>1. PICK i \in DOMAIN manifest.roles :
          /\ DOMAIN plan.publishesTo = manifest.roles[i].publishesTo
          /\ DOMAIN plan.consumesFrom = ToSet(manifest.roles[i].consumesFrom)
          /\ \A s \in DOMAIN plan.consumesFrom : \A t, r :
                 <<t, r>> \in plan.consumesFrom[s] <=> Routed(manifest, t, s, r)
  BY PlanIs
<1>2. /\ manifest.roles[i].publishesTo \subseteq manifest.topicIds
      /\ ToSet(manifest.roles[i].consumesFrom) \subseteq manifest.subscriptionIds
  BY <1>1 DEF ManifestOk, RolesOk
<1>3. ASSUME NEW s \in DOMAIN plan.consumesFrom
      PROVE  /\ s \in Ids(Catalog.subscriptions)
             /\ Selected(Catalog, s) = {tr[1] : tr \in plan.consumesFrom[s]}
  <2>1. s \in manifest.subscriptionIds
    BY <1>1, <1>2
  <2>2. plan.consumesFrom[s] = TopicRoutes(manifest, s)
    <3>1. \E j \in DOMAIN manifest.roles :
              plan.consumesFrom = [q \in ToSet(manifest.roles[j].consumesFrom) |->
                                      TopicRoutes(manifest, q)]
      BY NamedIs DEF HostPlanFor
    <3>. QED
      BY <3>1
  <2>3. \A t : t \in {tr[1] : tr \in plan.consumesFrom[s]}
                 <=> \E r : Routed(manifest, t, s, r)
    <3>1. \A tr : tr \in TopicRoutes(manifest, s)
                    <=> \E u, r : tr = <<u, r>> /\ Routed(manifest, u, s, r)
      BY DEF TopicRoutes, Routed
    <3>2. ASSUME NEW tr \in TopicRoutes(manifest, s)
          PROVE  \E r : Routed(manifest, tr[1], s, r)
      <4>1. PICK u, r : tr = <<u, r>> /\ Routed(manifest, u, s, r)
        BY <3>1
      <4>. QED
        BY <4>1
    <3>3. ASSUME NEW t, NEW r, Routed(manifest, t, s, r)
          PROVE  t \in {tr[1] : tr \in TopicRoutes(manifest, s)}
      <4>1. <<t, r>> \in TopicRoutes(manifest, s) /\ <<t, r>>[1] = t
        BY <3>1, <3>3
      <4>. QED
        BY <4>1
    <3>. QED
      BY <2>2, <3>2, <3>3
  <2>4. Selected(Catalog, s) \subseteq manifest.topicIds
    BY <2>1 DEF ManifestOk, EnabledOk
  <2>5. \A t : (\E r : Routed(manifest, t, s, r)) <=> t \in Selected(Catalog, s)
    BY <2>1, <2>4, EdgesRouted
  <2>6. Selected(Catalog, s) = {tr[1] : tr \in plan.consumesFrom[s]}
    BY <2>3, <2>5
  <2>. QED
    BY <2>1, <2>6 DEF ManifestOk, EnabledOk
<1>4. CatalogOk(Catalog) /\ DOMAIN plan.publishesTo \subseteq ToSet(Catalog.topics)
  BY <1>1, <1>2, TopologyAssumption DEF ManifestOk, EnabledOk
<1>. QED
  BY <1>3, <1>4 DEF Resolves

LEMMA Deploys ==
    ASSUME NEW manifest \in Manifests, ManifestOk(Catalog, manifest),
           deployed = Deployment(manifest)
    PROVE  WellDeployed
<1>. DEFINE plan == [h \in Ids(manifest.roles) |-> HostPlanFor(manifest, h)]
            Consumed(h) == Subscriptions \cap DOMAIN plan[h].consumesFrom
            Bound(h, s, r) == {t \in Topics : <<t, r>> \in plan[h].consumesFrom[s]}
<1>1. /\ deployed.publishes = [h \in Ids(manifest.roles) |-> plan[h].publishesTo]
      /\ deployed.consumes = [h \in Ids(manifest.roles) |-> Consumed(h)]
      /\ deployed.readers = [h \in Ids(manifest.roles) |->
                                 {p \in Consumed(h) \X Routes : Bound(h, p[1], p[2]) # {}}]
      /\ deployed.accepts = [p \in Pairs |->
                                 UNION {Bound(h, p[1], p[2]) :
                                    h \in {g \in Ids(manifest.roles) : p[1] \in Consumed(g)}}]
      /\ deployed.paths = [m \in Messages |->
                               IF m \in DOMAIN StrayTo THEN {{StrayTo[m]}}
                               ELSE {RoutesOfTopic(manifest, TopicOf[m])}]
  BY DEF Deployment
<1>2. \A h \in Ids(manifest.roles) : plan[h] = HostPlanFor(manifest, h)
  OBVIOUS
<1>. HIDE DEF plan
<1>3. ASSUME NEW h \in Ids(manifest.roles)
      PROVE  \E i \in DOMAIN manifest.roles :
                /\ manifest.roles[i].id = h
                /\ \A t \in DOMAIN plan[h].publishesTo :
                       plan[h].publishesTo[t] = RoutesOfTopic(manifest, t)
                /\ DOMAIN plan[h].consumesFrom = ToSet(manifest.roles[i].consumesFrom)
                /\ \A s \in DOMAIN plan[h].consumesFrom : \A t, r :
                       <<t, r>> \in plan[h].consumesFrom[s] <=> Routed(manifest, t, s, r)
  BY <1>2, PlanIs
<1>4. /\ Hosts = Ids(manifest.roles)
      /\ \A h \in Hosts : /\ SubscriptionsOf(h) = Consumed(h)
                          /\ ReadersOf(h) = {p \in Consumed(h) \X Routes :
                                                Bound(h, p[1], p[2]) # {}}
  BY <1>1 DEF Hosts, SubscriptionsOf, ReadersOf
<1>5. ASSUME NEW t, NEW s, NEW r, Routed(manifest, t, s, r)
      PROVE  t \in Topics /\ r \in Routes
  <2>1. r \in Routes
    BY <1>5, TopologyAssumption DEF Routed
  <2>2. t \in manifest.topicIds
    BY <1>5, EdgesRouted
  <2>. QED
    BY <2>1, <2>2, TopologyAssumption DEF ManifestOk, EnabledOk
(* What a host's reader is bound to are the edges of its route.            *)
<1>6. ASSUME NEW h \in Hosts, NEW s \in Consumed(h), NEW t, NEW r
      PROVE  t \in Bound(h, s, r) <=> Routed(manifest, t, s, r)
  <2>1. s \in DOMAIN plan[h].consumesFrom /\ h \in Ids(manifest.roles)
    BY <1>4
  <2>. QED
    BY <1>3, <1>5, <2>1
<1>7. ASSUME NEW g \in Hosts, NEW h \in Hosts, NEW s \in Consumed(g), s \in Consumed(h)
      PROVE  g = h
  <2>1. PICK i \in DOMAIN manifest.roles :
            manifest.roles[i].id = g /\ s \in ToSet(manifest.roles[i].consumesFrom)
    BY <1>3, <1>4
  <2>2. PICK j \in DOMAIN manifest.roles :
            manifest.roles[j].id = h /\ s \in ToSet(manifest.roles[j].consumesFrom)
    BY <1>3, <1>4, <1>7
  <2>3. i = j
    BY <2>1, <2>2 DEF ManifestOk, RolesOk
  <2>. QED
    BY <2>1, <2>2, <2>3
<1>. HIDE DEF Consumed, Bound
<1>8. HostsApart
  <2>1. Hosts \subseteq Roles
    BY <1>4 DEF Roles
  <2>2. \A h \in Hosts : Consumed(h) \subseteq Subscriptions
    BY DEF Consumed
  <2>. QED
    BY <1>4, <1>7, <2>1, <2>2 DEF HostsApart
<1>9. /\ \A m \in DOMAIN StrayTo : deployed.paths[m] = {{StrayTo[m]}}
      /\ \A m \in Messages \ DOMAIN StrayTo :
             deployed.paths[m] = {RoutesOfTopic(manifest, TopicOf[m])}
  BY <1>1, DeploymentAssumption
<1>10. \A t, r : r \in RoutesOfTopic(manifest, t) <=> \E s : Routed(manifest, t, s, r)
  BY DEF RoutesOfTopic, Routed
<1>11. PathsKnown
  <2>1. \A t : RoutesOfTopic(manifest, t) \subseteq Routes
    BY <1>5, <1>10
  <2>2. deployed.paths \in [Messages -> SUBSET SUBSET Routes]
    <3>1. ASSUME NEW m \in Messages PROVE deployed.paths[m] \subseteq SUBSET Routes
      <4>1. CASE m \in DOMAIN StrayTo
        BY <1>9, <4>1, DeploymentAssumption
      <4>2. CASE m \notin DOMAIN StrayTo
        BY <1>9, <2>1, <4>2
      <4>. QED
        BY <4>1, <4>2
    <3>. QED
      BY <1>1, <3>1
  <2>3. ASSUME NEW h \in Hosts, NEW m \in Messages \ DOMAIN StrayTo,
               TopicOf[m] \in DOMAIN deployed.publishes[h]
        PROVE  deployed.publishes[h][TopicOf[m]] \in deployed.paths[m]
    <3>1. deployed.publishes[h] = plan[h].publishesTo
      BY <1>1, <1>4
    <3>2. plan[h].publishesTo[TopicOf[m]] = RoutesOfTopic(manifest, TopicOf[m])
      BY <1>3, <1>4, <2>3, <3>1
    <3>. QED
      BY <1>9, <3>1, <3>2
  <2>. QED
    BY <1>9, <2>2, <2>3 DEF PathsKnown
<1>12. ASSUME NEW h \in Hosts, NEW s \in SubscriptionsOf(h), NEW r
       PROVE  <<s, r>> \in AllReaders <=> \E t : Routed(manifest, t, s, r)
  <2>1. s \in Consumed(h)
    BY <1>4
  <2>2. \A g \in Hosts : s \in Consumed(g) => g = h
    BY <1>7, <2>1
  <2>3. <<s, r>> \in AllReaders <=> <<s, r>> \in ReadersOf(h)
    BY <1>4, <2>2 DEF AllReaders
  <2>4. <<s, r>> \in ReadersOf(h) <=> r \in Routes /\ Bound(h, s, r) # {}
    BY <1>4, <2>1
  <2>. QED
    BY <1>5, <1>6, <2>1, <2>3, <2>4
<1>13. ASSUME NEW p \in AllReaders, NEW m \in Messages
       PROVE  /\ \E h \in Hosts : p \in ReadersOf(h)
              /\ p[1] \in manifest.subscriptionIds
              /\ Allows(p, m) <=> Routed(manifest, TopicOf[m], p[1], p[2])
  <2>1. PICK h \in Hosts : p \in ReadersOf(h)
    BY DEF AllReaders
  <2>2. p \in Pairs /\ p[1] \in Consumed(h) /\ p[2] \in Routes
    BY <1>4, <1>8, <2>1 DEF HostsApart, Pairs
  <2>3. Allows(p, m) <=> TopicOf[m] \in Bound(h, p[1], p[2])
    <3>1. {g \in Ids(manifest.roles) : p[1] \in Consumed(g)} = {h}
      BY <1>4, <1>7, <2>2
    <3>. QED
      BY <1>1, <2>2, <3>1 DEF Allows
  <2>4. \E t : Routed(manifest, t, p[1], p[2])
    BY <1>4, <1>6, <2>1, <2>2
  <2>. QED
    BY <1>6, <2>1, <2>2, <2>3, <2>4, EdgesRouted
<1>14. RoutesShared
  <2>1. ASSUME NEW p \in AllReaders, NEW m \in Messages, Allows(p, m)
        PROVE  TopicOf[m] \in Selected(Catalog, p[1])
    BY <1>13, <2>1, EdgesRouted
  <2>2. ASSUME NEW p \in AllReaders, NEW m \in Messages \ DOMAIN StrayTo,
               NEW path \in deployed.paths[m], p[2] \in path
        PROVE  Allows(p, m)
    <3>1. PICK h \in Hosts : p \in ReadersOf(h)
      BY <1>13
    <3>2. p[1] \in SubscriptionsOf(h) /\ p = <<p[1], p[2]>>
      BY <1>8, <3>1 DEF HostsApart
    <3>3. \E t : Routed(manifest, t, p[1], p[2])
      BY <1>12, <3>2
    <3>4. \E s : Routed(manifest, TopicOf[m], s, p[2])
      BY <1>9, <1>10, <2>2
    <3>5. Routed(manifest, TopicOf[m], p[1], p[2])
      BY <3>3, <3>4, EdgesRouted
    <3>. QED
      BY <1>13, <3>5
  <2>3. ASSUME NEW h \in Hosts, NEW s \in SubscriptionsOf(h),
               NEW m \in Messages \ DOMAIN StrayTo,
               TopicOf[m] \in Selected(Catalog, s), NEW path \in deployed.paths[m]
        PROVE  \E r \in path :
                  /\ <<s, r>> \in AllReaders
                  /\ \A q \in path : <<s, q>> \in AllReaders => q = r
    <3>0. path = RoutesOfTopic(manifest, TopicOf[m])
      BY <1>9
    <3>1. s \in manifest.subscriptionIds
      <4>1. PICK i \in DOMAIN manifest.roles :
                DOMAIN plan[h].consumesFrom = ToSet(manifest.roles[i].consumesFrom)
        BY <1>3, <1>4
      <4>2. s \in DOMAIN plan[h].consumesFrom
        BY <1>4 DEF Consumed
      <4>. QED
        BY <4>1, <4>2 DEF ManifestOk, RolesOk
    <3>2. TopicOf[m] \in manifest.topicIds
      BY <2>3, <3>1 DEF ManifestOk, EnabledOk
    <3>3. PICK r : Routed(manifest, TopicOf[m], s, r)
      BY <2>3, <3>1, <3>2, EdgesRouted
    <3>4. r \in path /\ <<s, r>> \in AllReaders
      BY <1>10, <1>12, <3>0, <3>3
    <3>5. ASSUME NEW q \in path, <<s, q>> \in AllReaders
          PROVE  q = r
      <4>1. \E t : Routed(manifest, t, s, q)
        BY <1>12, <3>5
      <4>2. \E v : Routed(manifest, TopicOf[m], v, q)
        BY <1>10, <3>0
      <4>3. Routed(manifest, TopicOf[m], s, q)
        BY <4>1, <4>2, EdgesRouted
      <4>. QED
        BY <3>3, <4>3, EdgesRouted
    <3>. QED
      BY <3>4, <3>5
  <2>. QED
    BY <2>1, <2>2, <2>3 DEF RoutesShared
<1>15. BoundRead
  <2>1. ASSUME NEW p \in Pairs, NEW m \in Messages, Allows(p, m) PROVE p \in AllReaders
    <3>1. PICK h \in Ids(manifest.roles) :
              p[1] \in Consumed(h) /\ TopicOf[m] \in Bound(h, p[1], p[2])
      BY <1>1, <2>1 DEF Allows
    <3>2. p \in Consumed(h) \X Routes
      BY <3>1 DEF Pairs
    <3>. QED
      BY <1>4, <3>1, <3>2 DEF AllReaders
  <2>. QED
    BY <2>1 DEF BoundRead
<1>. QED
  BY <1>8, <1>11, <1>14, <1>15 DEF WellDeployed

-----------------------------------------------------------------------------
(* The lane: a dispatch is scheduled exactly when one is due.              *)

LaneKept(lane, max) == lane \in L!LaneState /\ lane.scheduled = L!Due(lane, max)

LEMMA ScheduleLane ==
    ASSUME NEW q \in Seq(Entries), NEW n \in Nat, NEW b \in BOOLEAN, NEW max \in Nat,
           b => q # <<>> /\ n < max,
           NEW new,
           new = L!Schedule([queue |-> q, inFlight |-> n, scheduled |-> b], max)
    PROVE  LaneKept(new, max) /\ new.queue = q /\ new.inFlight = n
<1>. DEFINE d == (q # <<>> /\ n < max)
<1>1. d \in BOOLEAN /\ (b \/ d) = d
  OBVIOUS
<1>2. new = [queue |-> q, inFlight |-> n, scheduled |-> (b \/ d)]
  BY DEF L!Schedule, L!Due
<1>. HIDE DEF d
<1>3. new.queue = q /\ new.inFlight = n /\ new.scheduled = d
  BY <1>1, <1>2
<1>4. new \in L!LaneState
  BY <1>1, <1>2 DEF L!LaneState
<1>. QED
  BY <1>3, <1>4 DEF L!Due, LaneKept, d

LEMMA EnqueueLane ==
    ASSUME NEW lane, NEW max \in Nat, LaneKept(lane, max), NEW e \in Entries
    PROVE  /\ LaneKept(L!Enqueue(lane, max, e), max)
           /\ L!Enqueue(lane, max, e).queue = Append(lane.queue, e)
           /\ L!Enqueue(lane, max, e).inFlight = lane.inFlight
<1>. DEFINE q == Append(lane.queue, e)  new == L!Enqueue(lane, max, e)
<1>1. /\ lane.queue \in Seq(Entries) /\ lane.inFlight \in Nat
      /\ lane.scheduled \in BOOLEAN
      /\ lane = [queue |-> lane.queue, inFlight |-> lane.inFlight,
                 scheduled |-> lane.scheduled]
  BY DEF LaneKept, L!LaneState
<1>2. q \in Seq(Entries) /\ q # <<>>
  BY <1>1
<1>3. lane.scheduled => lane.inFlight < max
  BY DEF LaneKept, L!Due
<1>. HIDE DEF q
<1>4. [lane EXCEPT !.queue = q] =
          [queue |-> q, inFlight |-> lane.inFlight, scheduled |-> lane.scheduled]
  BY <1>1
<1>5. new = L!Schedule([queue |-> q, inFlight |-> lane.inFlight,
                        scheduled |-> lane.scheduled], max)
  BY <1>4 DEF L!Enqueue, q
<1>. HIDE DEF new
<1>6. LaneKept(new, max) /\ new.queue = q /\ new.inFlight = lane.inFlight
  BY <1>1, <1>2, <1>3, <1>5, ScheduleLane
<1>. QED
  BY <1>6 DEF q, new

LEMMA DeliveredLane ==
    ASSUME NEW lane, NEW max \in Nat, LaneKept(lane, max), lane.inFlight > 0
    PROVE  /\ LaneKept(L!Delivered(lane, max), max)
           /\ L!Delivered(lane, max).queue = lane.queue
           /\ L!Delivered(lane, max).inFlight = lane.inFlight - 1
<1>. DEFINE new == L!Delivered(lane, max)
<1>1. /\ lane.queue \in Seq(Entries) /\ lane.inFlight - 1 \in Nat
      /\ lane.scheduled \in BOOLEAN
      /\ lane = [queue |-> lane.queue, inFlight |-> lane.inFlight,
                 scheduled |-> lane.scheduled]
  BY DEF LaneKept, L!LaneState
<1>2. lane.scheduled => lane.queue # <<>> /\ lane.inFlight - 1 < max
  BY <1>1 DEF LaneKept, L!LaneState, L!Due
<1>3. [lane EXCEPT !.inFlight = @ - 1] =
          [queue |-> lane.queue, inFlight |-> lane.inFlight - 1,
           scheduled |-> lane.scheduled]
  BY <1>1
<1>4. new = L!Schedule([queue |-> lane.queue, inFlight |-> lane.inFlight - 1,
                        scheduled |-> lane.scheduled], max)
  BY <1>3 DEF L!Delivered
<1>. HIDE DEF new
<1>5. /\ LaneKept(new, max) /\ new.queue = lane.queue
      /\ new.inFlight = lane.inFlight - 1
  BY <1>1, <1>2, <1>4, ScheduleLane
<1>. QED
  BY <1>5 DEF new

LEMMA PumpLane ==
    ASSUME NEW lane, NEW max \in Nat, LaneKept(lane, max), lane.scheduled
    PROVE  LET taken == L!Pumped(lane, max)  new == L!Pump(lane, max) IN
           /\ taken \in Seq(Entries) /\ taken # <<>>
           /\ LaneKept(new, max)
           /\ lane.queue = taken \o new.queue
           /\ new.inFlight = lane.inFlight + Len(taken) /\ new.inFlight <= max
<1>. DEFINE q == lane.queue  n == lane.inFlight  r == L!Room(lane, max)
            taken == L!Pumped(lane, max)  new == L!Pump(lane, max)
            rest == SubSeq(q, r + 1, Len(q))
<1>1. /\ q \in Seq(Entries) /\ n \in Nat /\ Len(q) \in Nat
      /\ q # <<>> /\ n < max
  BY DEF LaneKept, L!LaneState, L!Due
<1>2. r \in 1 .. Len(q) /\ r <= max - n /\ (r = Len(q) \/ r = max - n)
  <2>1. Len(q) > 0
    BY <1>1, EmptySeq
  <2>. QED
    BY <1>1, <2>1 DEF L!Room
<1>3. taken = SubSeq(q, 1, r)
      /\ new = [queue |-> rest, inFlight |-> n + r, scheduled |-> FALSE]
  BY DEF L!Pump, L!Pumped
<1>. HIDE DEF q, n, r, taken, new
<1>4. /\ taken \in Seq(Entries) /\ Len(taken) = r
  BY <1>1, <1>2, <1>3
<1>5. /\ rest \in Seq(Entries) /\ Len(rest) = Len(q) - r
  BY <1>1, <1>2
<1>6. q = taken \o rest
  <2>1. SubSeq(q, 1, Len(q)) = q
    BY <1>1, SubSeqFull
  <2>2. SubSeq(q, 1, r) \o SubSeq(q, r + 1, Len(q)) = SubSeq(q, 1, Len(q))
    <3>1. /\ 1 \in 1 .. Len(q) + 1 /\ r \in 1 - 1 .. Len(q)
          /\ Len(q) \in r .. Len(q)
      BY <1>1, <1>2
    <3>. QED
      BY <1>1, <3>1, ConcatAdjacentSubSeq
  <2>. QED
    BY <1>3, <2>1, <2>2
<1>. HIDE DEF rest
<1>7. new.queue = rest /\ new.inFlight = n + r /\ new.scheduled = FALSE
  BY <1>3
<1>8. new \in L!LaneState /\ new.inFlight <= max
  BY <1>1, <1>2, <1>3, <1>5 DEF L!LaneState
<1>9. ~L!Due(new, max)
  <2>1. CASE r = Len(q)
    <3>1. rest = <<>>
      BY <1>5, <1>1, <2>1, EmptySeq
    <3>. QED
      BY <1>7, <3>1 DEF L!Due
  <2>2. CASE r = max - n
    BY <1>1, <1>7, <2>2 DEF L!Due
  <2>. QED
    BY <1>2, <2>1, <2>2
<1>10. taken # <<>>
  BY <1>2, <1>4
<1>11. LaneKept(new, max)
  BY <1>7, <1>8, <1>9 DEF LaneKept, L!Due
<1>. QED
  BY <1>2, <1>4, <1>6, <1>7, <1>8, <1>10, <1>11 DEF q, n, r, taken, new

-----------------------------------------------------------------------------
(* The reply of a read: what is queued of a batch.                         *)

Fed1(p, lane, m) == IF Allows(p, m)
                    THEN L!Enqueue(lane, MaxInFlight[p[1]], <<p[2], m>>) ELSE lane
FedBy(p, ms, it, n) ==
    [d \in SUBSET (1 .. n) |->
        IF d = {} THEN lanes[p[1]] ELSE Fed1(p, it[d \ {Max(d)}], ms[Max(d)])]

LEMMA FoldExists ==
    ASSUME NEW p, NEW ms, NEW n \in Nat
    PROVE  \E it : it = FedBy(p, ms, it, n)
<1>. DEFINE S == {k \in Nat : \E it : it = FedBy(p, ms, it, k)}
<1>1. 0 \in S
  <2>1. \A d \in SUBSET (1 .. 0) : d = {}
    <3>1. 1 .. 0 = {}
      OBVIOUS
    <3>. QED
      BY <3>1
  <2>. DEFINE it == [d \in SUBSET (1 .. 0) |-> lanes[p[1]]]
  <2>2. it = FedBy(p, ms, it, 0)
    BY <2>1 DEF FedBy
  <2>. QED
    BY <2>2
<1>2. ASSUME NEW k \in Nat, k \in S PROVE k + 1 \in S
  <2>1. PICK old : old = FedBy(p, ms, old, k)
    BY <1>2
  <2>. DEFINE new == FedBy(p, ms, old, k + 1)
  <2>2. ASSUME NEW d \in SUBSET (1 .. k) PROVE new[d] = old[d]
    <3>1. d \in SUBSET (1 .. k + 1)
      OBVIOUS
    <3>2. /\ new[d] = IF d = {} THEN lanes[p[1]]
                      ELSE Fed1(p, old[d \ {Max(d)}], ms[Max(d)])
          /\ FedBy(p, ms, old, k)[d] = IF d = {} THEN lanes[p[1]]
                                       ELSE Fed1(p, old[d \ {Max(d)}], ms[Max(d)])
      BY <3>1 DEF FedBy
    <3>. QED
      BY <2>1, <3>2
  <2>. HIDE DEF new
  <2>3. ASSUME NEW d \in SUBSET (1 .. k + 1), d # {}
        PROVE  new[d \ {Max(d)}] = old[d \ {Max(d)}]
    BY <2>2, <2>3, WithoutLast
  <2>4. new = FedBy(p, ms, new, k + 1)
    <3>1. new = [d \in SUBSET (1 .. k + 1) |->
                    IF d = {} THEN lanes[p[1]]
                    ELSE Fed1(p, old[d \ {Max(d)}], ms[Max(d)])]
      BY DEF new, FedBy
    <3>2. \A d \in SUBSET (1 .. k + 1) :
             (IF d = {} THEN lanes[p[1]] ELSE Fed1(p, old[d \ {Max(d)}], ms[Max(d)]))
           = (IF d = {} THEN lanes[p[1]] ELSE Fed1(p, new[d \ {Max(d)}], ms[Max(d)]))
      BY <2>3
    <3>. QED
      BY <3>1, <3>2 DEF FedBy
  <2>. QED
    BY <2>4
<1>. HIDE DEF S
<1>3. n \in S
  BY <1>1, <1>2, NatSetInduction
<1>. QED
  BY <1>3 DEF S

(* The entries of a batch go to the lane one by one.                       *)
LEMMA EnqueueAllIs ==
    ASSUME NEW p, NEW ms \in Seq(Messages)
    PROVE  \E f : /\ f[0] = lanes[p[1]] /\ f[Len(ms)] = EnqueueAll(p, ms)
                  /\ \A k \in 0 .. Len(ms) - 1 : f[k + 1] = Fed1(p, f[k], ms[k + 1])
<1>. DEFINE n == Len(ms)  it == CHOOSE it : it = FedBy(p, ms, it, n)
<1>1. n \in Nat /\ DOMAIN ms = 1 .. n
  OBVIOUS
<1>2. EnqueueAll(p, ms) = it[1 .. n]
  BY <1>1 DEF EnqueueAll, FoldLeft, MapThenFoldSet, FedBy, Fed1
<1>. HIDE DEF n
<1>3. it = FedBy(p, ms, it, n)
  BY <1>1, FoldExists
<1>. HIDE DEF it
<1>. DEFINE f == [k \in 0 .. n |-> it[1 .. k]]
<1>4. \A d \in SUBSET (1 .. n) : it[d] =
          IF d = {} THEN lanes[p[1]] ELSE Fed1(p, it[d \ {Max(d)}], ms[Max(d)])
  BY <1>3 DEF FedBy
<1>5. f[0] = lanes[p[1]]
  <2>1. 1 .. 0 = {} /\ {} \in SUBSET (1 .. n) /\ 0 \in 0 .. n
    BY <1>1
  <2>. QED
    BY <1>4, <2>1
<1>6. ASSUME NEW k \in 0 .. n - 1 PROVE f[k + 1] = Fed1(p, f[k], ms[k + 1])
  <2>1. /\ 1 .. k + 1 \in SUBSET (1 .. n) /\ k \in Nat
        /\ k \in 0 .. n /\ k + 1 \in 0 .. n
    BY <1>1
  <2>2. /\ Max(1 .. k + 1) = k + 1 /\ (1 .. k + 1) \ {k + 1} = 1 .. k
        /\ 1 .. k + 1 # {}
    BY <2>1, LastPosition
  <2>3. it[1 .. k + 1] = Fed1(p, it[1 .. k], ms[k + 1])
    BY <1>4, <2>1, <2>2
  <2>. QED
    BY <2>1, <2>3
<1>7. f[n] = EnqueueAll(p, ms)
  BY <1>1, <1>2
<1>. QED
  BY <1>5, <1>6, <1>7 DEF n

LEMMA AppendAfter ==
    ASSUME NEW a \in Seq(Entries), NEW b \in Seq(Entries), NEW e \in Entries
    PROVE  Append(a \o b, e) = a \o Append(b, e)
<1>1. /\ a \o b \in Seq(Entries) /\ <<e>> \in Seq(Entries)
  OBVIOUS
<1>2. Append(a \o b, e) = (a \o b) \o <<e>> /\ Append(b, e) = b \o <<e>>
  BY <1>1, AppendIsConcat
<1>3. (a \o b) \o <<e>> = a \o (b \o <<e>>)
  BY <1>1, ConcatAssociative
<1>. QED
  BY <1>2, <1>3

(* Of the first n entries those that are allowed are queued, in order.     *)
FedFirst(p, ms, n, lane, new) ==
    /\ LaneKept(new, MaxInFlight[p[1]]) /\ new.inFlight = lane.inFlight
    /\ \E tail \in Seq(Entries) : \E rank \in [1 .. Len(tail) -> 1 .. n] :
          /\ new.queue = lane.queue \o tail
          /\ \A i, j \in 1 .. Len(tail) : i < j => rank[i] < rank[j]
          /\ \A i \in 1 .. Len(tail) : /\ tail[i] = <<p[2], ms[rank[i]]>>
                                       /\ Allows(p, ms[rank[i]])
          /\ \A k \in 1 .. n : Allows(p, ms[k]) => \E i \in 1 .. Len(tail) : rank[i] = k

LEMMA FedNext ==
    ASSUME NEW p \in Pairs, NEW ms \in Seq(Messages), NEW n \in 0 .. Len(ms) - 1,
           NEW lane, LaneKept(lane, MaxInFlight[p[1]]), NEW old,
           FedFirst(p, ms, n, lane, old)
    PROVE  FedFirst(p, ms, n + 1, lane, Fed1(p, old, ms[n + 1]))
<1>. DEFINE max == MaxInFlight[p[1]]  e == <<p[2], ms[n + 1]>>
            new == Fed1(p, old, ms[n + 1])
<1>1. /\ n \in Nat /\ n + 1 \in 1 .. Len(ms) /\ ms[n + 1] \in Messages
      /\ e \in Entries /\ max \in Nat
  BY DeploymentAssumption DEF Pairs, Entries
<1>0. PICK tail \in Seq(Entries) : \E rank \in [1 .. Len(tail) -> 1 .. n] :
          /\ old.queue = lane.queue \o tail
          /\ \A i, j \in 1 .. Len(tail) : i < j => rank[i] < rank[j]
          /\ \A i \in 1 .. Len(tail) : /\ tail[i] = <<p[2], ms[rank[i]]>>
                                       /\ Allows(p, ms[rank[i]])
          /\ \A k \in 1 .. n : Allows(p, ms[k]) => \E i \in 1 .. Len(tail) : rank[i] = k
  BY DEF FedFirst
<1>2. PICK rank \in [1 .. Len(tail) -> 1 .. n] :
          /\ old.queue = lane.queue \o tail
          /\ \A i, j \in 1 .. Len(tail) : i < j => rank[i] < rank[j]
          /\ \A i \in 1 .. Len(tail) : /\ tail[i] = <<p[2], ms[rank[i]]>>
                                       /\ Allows(p, ms[rank[i]])
          /\ \A k \in 1 .. n : Allows(p, ms[k]) => \E i \in 1 .. Len(tail) : rank[i] = k
  BY <1>0
<1>3. CASE ~Allows(p, ms[n + 1])
  <2>1. new = old
    BY <1>3 DEF Fed1
  <2>2. rank \in [1 .. Len(tail) -> 1 .. n + 1]
    BY <1>1
  <2>3. \A k \in 1 .. n + 1 : Allows(p, ms[k]) => k \in 1 .. n
    BY <1>1, <1>3
  <2>4. \A k \in 1 .. n + 1 : Allows(p, ms[k]) => \E i \in 1 .. Len(tail) : rank[i] = k
    BY <1>2, <2>3
  <2>5. LaneKept(old, max) /\ old.inFlight = lane.inFlight
    BY DEF FedFirst
  <2>. HIDE DEF new, max
  <2>6. \E tl \in Seq(Entries) : \E rk \in [1 .. Len(tl) -> 1 .. n + 1] :
          /\ new.queue = lane.queue \o tl
          /\ \A i, j \in 1 .. Len(tl) : i < j => rk[i] < rk[j]
          /\ \A i \in 1 .. Len(tl) : tl[i] = <<p[2], ms[rk[i]]>> /\ Allows(p, ms[rk[i]])
          /\ \A k \in 1 .. n + 1 :
                Allows(p, ms[k]) => \E i \in 1 .. Len(tl) : rk[i] = k
    BY <1>2, <2>1, <2>2, <2>4
  <2>. QED
    BY <2>1, <2>5, <2>6 DEF FedFirst, new, max
<1>4. CASE Allows(p, ms[n + 1])
  <2>. DEFINE more == Append(tail, e)
              rank1 == [i \in 1 .. Len(tail) + 1 |-> IF i = Len(tail) + 1 THEN n + 1
                                                                          ELSE rank[i]]
  <2>1. new = L!Enqueue(old, max, e)
    BY <1>4 DEF Fed1
  <2>2. LaneKept(old, max) /\ old.inFlight = lane.inFlight
    BY DEF FedFirst
  <2>. HIDE DEF new, max, e
  <2>3. /\ LaneKept(new, max) /\ new.queue = Append(old.queue, e)
        /\ new.inFlight = old.inFlight
    BY <1>1, <2>1, <2>2, EnqueueLane
  <2>4. lane.queue \in Seq(Entries)
    BY DEF LaneKept, L!LaneState
  <2>5. new.queue = lane.queue \o more
    <3>1. tail \in Seq(Entries) /\ e \in Entries
      BY <1>1
    <3>2. Append(lane.queue \o tail, e) = lane.queue \o Append(tail, e)
      BY <2>4, <3>1, AppendAfter
    <3>. HIDE DEF more
    <3>3. more = Append(tail, e)
      BY DEF more
    <3>. QED
      BY <1>2, <2>3, <3>2, <3>3
  <2>6. /\ more \in Seq(Entries) /\ Len(more) = Len(tail) + 1
        /\ more[Len(tail) + 1] = e /\ \A i \in 1 .. Len(tail) : more[i] = tail[i]
    BY <1>1
  <2>. HIDE DEF more
  <2>7. /\ rank1 \in [1 .. Len(more) -> 1 .. n + 1]
        /\ \A i \in 1 .. Len(tail) : rank1[i] = rank[i] /\ rank[i] \in 1 .. n
        /\ rank1[Len(tail) + 1] = n + 1 /\ Len(tail) \in Nat
    BY <1>1, <2>6
  <2>. HIDE DEF rank1
  <2>8. \A i, j \in 1 .. Len(more) : i < j => rank1[i] < rank1[j]
    <3>. SUFFICES ASSUME NEW i \in 1 .. Len(more), NEW j \in 1 .. Len(more), i < j
                  PROVE  rank1[i] < rank1[j]
      OBVIOUS
    <3>1. i \in 1 .. Len(tail) /\ rank1[i] = rank[i] /\ rank[i] \in 1 .. n
      BY <2>6, <2>7
    <3>2. CASE j = Len(tail) + 1
      BY <2>7, <3>1, <3>2, <1>1
    <3>3. CASE j # Len(tail) + 1
      <4>1. j \in 1 .. Len(tail)
        BY <2>6, <2>7, <3>3
      <4>. QED
        BY <1>2, <2>7, <3>1, <4>1
    <3>. QED
      BY <3>2, <3>3
  <2>9. \A i \in 1 .. Len(more) : /\ more[i] = <<p[2], ms[rank1[i]]>>
                                  /\ Allows(p, ms[rank1[i]])
    <3>. SUFFICES ASSUME NEW i \in 1 .. Len(more)
                  PROVE  more[i] = <<p[2], ms[rank1[i]]>> /\ Allows(p, ms[rank1[i]])
      OBVIOUS
    <3>1. CASE i = Len(tail) + 1
      BY <1>4, <2>6, <2>7, <3>1 DEF e
    <3>2. CASE i # Len(tail) + 1
      <4>1. i \in 1 .. Len(tail)
        BY <2>6, <2>7, <3>2
      <4>. QED
        BY <1>2, <2>6, <2>7, <4>1
    <3>. QED
      BY <3>1, <3>2
  <2>10. \A k \in 1 .. n + 1 : Allows(p, ms[k]) => \E i \in 1 .. Len(more) : rank1[i] = k
    <3>. SUFFICES ASSUME NEW k \in 1 .. n + 1, Allows(p, ms[k])
                  PROVE  \E i \in 1 .. Len(more) : rank1[i] = k
      OBVIOUS
    <3>1. CASE k = n + 1
      <4>1. Len(tail) + 1 \in 1 .. Len(more)
        BY <2>6, <2>7
      <4>. QED
        BY <2>7, <3>1, <4>1
    <3>2. CASE k # n + 1
      <4>1. k \in 1 .. n
        BY <1>1, <3>2
      <4>2. PICK i \in 1 .. Len(tail) : rank[i] = k
        BY <1>2, <4>1
      <4>3. i \in 1 .. Len(more)
        BY <2>6, <2>7
      <4>. QED
        BY <2>7, <4>2, <4>3
    <3>. QED
      BY <3>1, <3>2
  <2>. QED
    BY <2>2, <2>3, <2>5, <2>6, <2>7, <2>8, <2>9, <2>10 DEF FedFirst, max, new
<1>. QED
  BY <1>3, <1>4

LEMMA EnqueueAllQueues ==
    ASSUME NEW p \in Pairs, NEW ms \in Seq(Messages),
           LaneKept(lanes[p[1]], MaxInFlight[p[1]])
    PROVE  FedFirst(p, ms, Len(ms), lanes[p[1]], EnqueueAll(p, ms))
<1>. DEFINE lane == lanes[p[1]]
<1>1. PICK f : /\ f[0] = lane /\ f[Len(ms)] = EnqueueAll(p, ms)
               /\ \A k \in 0 .. Len(ms) - 1 : f[k + 1] = Fed1(p, f[k], ms[k + 1])
  BY EnqueueAllIs
<1>. HIDE DEF lane
<1>2. LaneKept(lane, MaxInFlight[p[1]]) /\ lane.queue \in Seq(Entries)
  BY DEF lane, LaneKept, L!LaneState
<1>. DEFINE S == {k \in Nat : k <= Len(ms) => FedFirst(p, ms, k, lane, f[k])}
<1>3. 0 \in S
  <2>1. /\ <<>> \in Seq(Entries) /\ Len(<<>>) = 0 /\ lane.queue = lane.queue \o <<>>
        /\ 1 .. 0 = {}
    BY <1>2, ConcatEmptySeq
  <2>. DEFINE none == [i \in 1 .. 0 |-> 1]
  <2>2. none \in [1 .. Len(<<>>) -> 1 .. 0]
    BY <2>1
  <2>. HIDE DEF none
  <2>3. FedFirst(p, ms, 0, lane, lane)
    BY <1>2, <2>1, <2>2 DEF FedFirst
  <2>. QED
    BY <1>1, <2>3
<1>4. ASSUME NEW k \in Nat, k \in S PROVE k + 1 \in S
  <2>. SUFFICES ASSUME k + 1 <= Len(ms) PROVE FedFirst(p, ms, k + 1, lane, f[k + 1])
    OBVIOUS
  <2>1. k \in 0 .. Len(ms) - 1 /\ FedFirst(p, ms, k, lane, f[k])
    BY <1>4
  <2>. HIDE DEF S
  <2>2. FedFirst(p, ms, k + 1, lane, Fed1(p, f[k], ms[k + 1]))
    BY <1>2, <2>1, FedNext
  <2>. QED
    BY <1>1, <2>1, <2>2
<1>. HIDE DEF S
<1>5. Len(ms) \in S
  BY <1>3, <1>4, NatSetInduction
<1>. QED
  BY <1>1, <1>5 DEF S, lane

LEMMA RInitially == Init => RInv
<1>. SUFFICES ASSUME Init PROVE RInv
  OBVIOUS
<1>1. WellDeployed
  BY Deploys DEF Init
<1>2. /\ L!NewLane \in L!LaneState /\ L!NewLane.queue = <<>>
      /\ L!NewLane.inFlight = 0 /\ L!NewLane.scheduled = FALSE
      /\ \A max : L!NewLane.scheduled = L!Due(L!NewLane, max)
  BY EmptySeq DEF L!NewLane, L!LaneState, L!Due
<1>3. \A p \in Pairs : group[p] = NoGroup \/ group[p] = [from |-> 0, cursor |-> 0]
  BY DEF Init
<1>4. \A r \in Routes : stream[r] = <<>> /\ Len(stream[r]) = 0 /\ DOMAIN stream[r] = {}
                        /\ ToSet(stream[r]) = {}
  BY DEF Init, ToSet
<1>5. Typed
  <2>1. group \in [Pairs -> [from : Int, cursor : Int]]
    BY DEF Init, NoGroup
  <2>2. lanes \in [Subscriptions -> L!LaneState]
    BY <1>2 DEF Init
  <2>3. /\ <<>> \in Seq(Messages) /\ <<>> \in Seq(Entries)
        /\ stream \in [Routes -> Seq(Messages)] /\ began \in [Subscriptions -> Seq(Entries)]
    BY DEF Init
  <2>4. starts \in 0 .. MaxStarts /\ faults \in 0 .. MaxFaults
    BY DeploymentAssumption DEF Init
  <2>. QED
    BY <2>1, <2>2, <2>3, <2>4 DEF Init, Typed
<1>6. StreamsOk /\ CausesOk /\ PhasesOk
  <2>1. StreamsOk
    BY <1>4 DEF StreamsOk, Published
  <2>2. CausesOk
    BY DEF Init, CausesOk
  <2>3. PhasesOk
    BY <1>1 DEF Init, PhasesOk, WellDeployed, HostsApart, Pairs
  <2>. QED
    BY <2>1, <2>2, <2>3
<1>7. ASSUME NEW p \in Pairs PROVE GroupOk(p) /\ BatchOk(p)
  <2>1. /\ pending[p] = {} /\ batch[p] = {} /\ refused[p] = {} /\ reader[p] = "off"
        /\ faults = 0 /\ p[1] \in Subscriptions /\ p[2] \in Routes
    BY DEF Init, Pairs
  <2>2. /\ lanes[p[1]] = L!NewLane /\ running[p[1]] = {} /\ retiring[p[1]] = {}
    BY <2>1 DEF Init
  <2>3. Given(p) = {}
    BY <1>3 DEF Given, NoGroup
  <2>4. IsFiniteSet({}) /\ Cardinality({}) = 0
    BY FS_EmptySet
  <2>5. GroupOk(p)
    BY <1>3, <1>4, <2>1, <2>3, <2>4 DEF GroupOk
  <2>6. {e \in ToSet(lanes[p[1]].queue) \cup AtWork(p[1]) : e[1] = p[2]} = {}
    BY <1>2, <2>2 DEF AtWork, ToSet
  <2>7. ReadCount[p[1]] \in Nat
    BY <2>1, DeploymentAssumption
  <2>8. BatchOk(p)
    BY <2>1, <2>4, <2>6, <2>7 DEF BatchOk
  <2>. QED
    BY <2>5, <2>8
<1>8. ASSUME NEW s \in Subscriptions PROVE LaneOk(s) /\ WorkOk(s)
  <2>1. /\ lanes[s] = L!NewLane /\ running[s] = {} /\ retiring[s] = {}
        /\ began[s] = <<>> /\ ended[s] = {} /\ MaxInFlight[s] \in Nat
    BY DeploymentAssumption DEF Init
  <2>2. IsFiniteSet(AtWork(s)) /\ Cardinality(AtWork(s)) = 0
    BY <2>1, FS_EmptySet DEF AtWork
  <2>3. LaneOk(s)
    BY <1>2, <2>1, <2>2 DEF LaneOk
  <2>4. Work(s) = <<>>
    BY <1>2, <2>1 DEF Work
  <2>5. ToSet(Work(s)) = {} /\ DOMAIN Work(s) = {}
    BY <2>4 DEF ToSet
  <2>. QED
    BY <2>3, <2>5 DEF WorkOk
<1>. QED
  BY <1>1, <1>5, <1>6, <1>7, <1>8 DEF RInv

-----------------------------------------------------------------------------
(* What the parts of the invariant depend on.                              *)

DeployedKept ==
    /\ WellDeployed' /\ Hosts' = Hosts /\ AllReaders' = AllReaders
    /\ \A h \in Hosts : /\ SubscriptionsOf(h)' = SubscriptionsOf(h)
                        /\ ReadersOf(h)' = ReadersOf(h)
    /\ \A p, m : Allows(p, m)' <=> Allows(p, m)

LEMMA DeployedFixed == ASSUME WellDeployed, deployed' = deployed PROVE DeployedKept
<1>1. /\ Hosts' = Hosts /\ AllReaders' = AllReaders
      /\ \A h : SubscriptionsOf(h)' = SubscriptionsOf(h) /\ ReadersOf(h)' = ReadersOf(h)
      /\ \A p, m : Allows(p, m)' <=> Allows(p, m)
  BY DEF Hosts, AllReaders, SubscriptionsOf, ReadersOf, Allows
<1>2. HostsApart'
  BY <1>1 DEF WellDeployed, HostsApart
<1>3. PathsKnown'
  BY <1>1 DEF WellDeployed, PathsKnown
<1>4. RoutesShared'
  BY <1>1 DEF WellDeployed, RoutesShared
<1>5. BoundRead'
  BY <1>1 DEF WellDeployed, BoundRead
<1>. QED
  BY <1>1, <1>2, <1>3, <1>4, <1>5 DEF WellDeployed, DeployedKept

(* A stream that only grows, under groups that keep what they gave out.    *)
StreamsGrow ==
    \A r \in Routes : /\ Len(stream'[r]) \in Nat /\ Len(stream[r]) <= Len(stream'[r])
                      /\ \A i \in 1 .. Len(stream[r]) : stream'[r][i] = stream[r][i]

LEMMA Grown ==
    ASSUME Typed, Typed', StreamsGrow
    PROVE  /\ \A r \in Routes : \A m, n : Before(r, m, n) => Before(r, m, n)'
           /\ \A r \in Routes : ToSet(stream[r]) \subseteq ToSet(stream[r])'
           /\ \A p \in Pairs : group'[p] = group[p] /\ GroupOk(p) => Given(p)' = Given(p)
<1>1. \A r \in Routes : /\ DOMAIN stream[r] = 1 .. Len(stream[r]) /\ Len(stream[r]) \in Nat
                        /\ DOMAIN stream'[r] = 1 .. Len(stream'[r])
  BY DEF Typed
<1>2. ASSUME NEW r \in Routes, NEW m, NEW n, Before(r, m, n) PROVE Before(r, m, n)'
  <2>1. PICK i, j \in DOMAIN stream[r] : i < j /\ stream[r][i] = m /\ stream[r][j] = n
    BY <1>2 DEF Before
  <2>2. /\ i \in DOMAIN stream'[r] /\ j \in DOMAIN stream'[r]
        /\ stream'[r][i] = m /\ stream'[r][j] = n
    BY <1>1, <2>1 DEF StreamsGrow
  <2>. QED
    BY <2>1, <2>2 DEF Before
<1>3. ASSUME NEW r \in Routes PROVE ToSet(stream[r]) \subseteq ToSet(stream[r])'
  <2>. SUFFICES ASSUME NEW i \in DOMAIN stream[r] PROVE stream[r][i] \in ToSet(stream'[r])
    BY DEF ToSet
  <2>1. i \in DOMAIN stream'[r] /\ stream'[r][i] = stream[r][i]
    BY <1>1 DEF StreamsGrow
  <2>. QED
    BY <2>1 DEF ToSet
<1>4. ASSUME NEW p \in Pairs, group'[p] = group[p], GroupOk(p) PROVE Given(p)' = Given(p)
  <2>1. p[2] \in Routes
    BY DEF Pairs
  <2>2. \A i \in group[p].from + 1 .. group[p].cursor : stream'[p[2]][i] = stream[p[2]][i]
    <3>1. CASE group[p] = NoGroup
      BY <3>1 DEF NoGroup
    <3>2. CASE group[p].from \in Nat /\ group[p].cursor \in group[p].from .. Len(stream[p[2]])
      BY <1>1, <2>1, <3>2 DEF StreamsGrow
    <3>. QED
      BY <1>4, <3>1, <3>2 DEF GroupOk
  <2>. QED
    BY <1>4, <2>2 DEF Given
<1>. QED
  BY <1>2, <1>3, <1>4

LEMMA StreamSame ==
    ASSUME Typed, stream' = stream
    PROVE  /\ StreamsGrow
           /\ \A r, m, n : Before(r, m, n)' <=> Before(r, m, n)
           /\ \A m : Published(m)' <=> Published(m)
           /\ \A p \in Pairs : group'[p] = group[p] => Given(p)' = Given(p)
<1>1. StreamsGrow
  BY DEF Typed, StreamsGrow
<1>. QED
  BY <1>1 DEF Before, Published, Given

LEMMA StreamsKept ==
    ASSUME Typed, StreamsOk, CausesOk, UNCHANGED <<deployed, stream, cause>>
    PROVE  StreamsOk' /\ CausesOk'
<1>1. /\ \A r, m, n : Before(r, m, n)' <=> Before(r, m, n)
      /\ \A m : Published(m)' <=> Published(m)
  BY StreamSame
<1>2. StreamsOk'
  BY <1>1 DEF StreamsOk
<1>3. CausesOk'
  BY <1>1 DEF CausesOk
<1>. QED
  BY <1>2, <1>3

(* A group keeps its place; what it need not hold any more it does not.    *)
LEMMA GroupKept ==
    ASSUME Typed, Typed', WellDeployed, NEW p \in Pairs, GroupOk(p), DeployedKept,
           StreamsGrow, group'[p] = group[p],
           reader'[p] # "off" => p \in AllReaders /\ group[p] # NoGroup,
           ended[p[1]] \subseteq ended'[p[1]], pending'[p] \subseteq pending[p],
           \A e \in pending[p] \ pending'[p] : e \in ended'[p[1]] \/ ~Allows(p, e[2])
    PROVE  GroupOk(p)' /\ Given(p)' = Given(p)
<1>1. Given(p)' = Given(p)
  BY Grown
<1>2. p[2] \in Routes
  BY DEF Pairs
<1>3. IsFiniteSet(pending'[p])
  BY FS_Subset DEF GroupOk
<1>4. \/ group'[p] = NoGroup
      \/ group'[p].from \in Nat /\ group'[p].cursor \in group'[p].from .. Len(stream'[p[2]])
  BY <1>2 DEF GroupOk, StreamsGrow, Typed
<1>5. reader'[p] # "off" => p \in AllReaders' /\ group'[p] # NoGroup
  BY DEF GroupOk, DeployedKept
<1>6. \A e \in Given(p)' \ pending'[p] : e \in ended'[p[1]] \/ ~Allows(p, e[2])'
  BY <1>1 DEF GroupOk, DeployedKept
<1>7. pending'[p] \subseteq Given(p)'
  BY <1>1 DEF GroupOk
<1>8. NoGroup' = NoGroup
  BY DEF NoGroup
<1>. QED
  BY <1>1, <1>3, <1>4, <1>5, <1>6, <1>7, <1>8 DEF GroupOk

FaultsGrow == faults' \in Nat /\ faults <= faults'

LEMMA Allowed ==
    ASSUME Typed, FaultsGrow, NEW n \in Nat
    PROVE  faults * n \in Nat /\ faults' * n \in Nat /\ faults * n <= faults' * n
<1>0. faults \in Nat
  BY DEF Typed
<1>1. faults' \in Nat /\ faults <= faults'
  BY DEF FaultsGrow
<1>2. PICK d \in Nat : faults' = faults + d
  <2>1. \A a, b \in Nat : a <= b => b - a \in Nat /\ b = a + (b - a)
    OBVIOUS
  <2>. QED
    BY <1>0, <1>1, <2>1
<1>3. faults * n \in Nat /\ d * n \in Nat
  BY <1>0
<1>4. (faults + d) * n = faults * n + d * n
  BY <1>0
<1>. QED
  BY <1>2, <1>3, <1>4

LEMMA BatchKept ==
    ASSUME Typed, NEW p \in Pairs, BatchOk(p), DeployedKept, FaultsGrow,
           reader'[p] = "holding" <=> reader[p] = "holding",
           batch'[p] = batch[p], pending'[p] = pending[p], refused'[p] = refused[p],
           IsFiniteSet(pending[p]),
           \A e : e[1] = p[2] =>
              (e \in ToSet(lanes'[p[1]].queue) \cup AtWork(p[1])'
                 <=> e \in ToSet(lanes[p[1]].queue) \cup AtWork(p[1]))
    PROVE  BatchOk(p)'
<1>1. ReadCount[p[1]] \in Nat
  BY DeploymentAssumption DEF Pairs
<1>2. Cardinality(pending'[p] \ batch'[p]) <= faults' * ReadCount[p[1]]
  <2>1. IsFiniteSet(pending[p] \ batch[p])
    BY FS_Subset
  <2>2. Cardinality(pending[p] \ batch[p]) \in Nat
    BY <2>1, FS_CardinalityType
  <2>3. Cardinality(pending[p] \ batch[p]) <= faults * ReadCount[p[1]]
    BY DEF BatchOk
  <2>. DEFINE n == ReadCount[p[1]]
  <2>4. faults * n \in Nat /\ faults' * n \in Nat /\ faults * n <= faults' * n
    BY <1>1, Allowed
  <2>. QED
    BY <2>2, <2>3, <2>4
<1>3. refused'[p] \subseteq {e \in batch'[p] : ~Allows(p, e[2])'}
  BY DEF BatchOk, DeployedKept
<1>4. batch'[p] \ refused'[p] =
          {e \in ToSet(lanes'[p[1]].queue) \cup AtWork(p[1])' : e[1] = p[2]}
  BY DEF BatchOk
<1>. QED
  BY <1>2, <1>3, <1>4 DEF BatchOk

LEMMA LaneSame ==
    ASSUME NEW s, LaneOk(s), lanes'[s] = lanes[s], running'[s] = running[s],
           retiring'[s] = retiring[s], began'[s] = began[s], ended'[s] = ended[s]
    PROVE  LaneOk(s)'
  BY DEF LaneOk, AtWork

LEMMA WorkKept ==
    ASSUME Typed, Typed', WellDeployed, NEW s \in Subscriptions, WorkOk(s), DeployedKept,
           Work(s)' = Work(s),
           \A p \in Pairs : Given(p) \subseteq Given(p)', StreamsGrow
    PROVE  WorkOk(s)'
<1>1. \A r \in Routes : \A m, n : Before(r, m, n) => Before(r, m, n)'
  BY Grown
<1>2. \A e \in ToSet(Work(s)) : <<s, e[1]>> \in Pairs /\ e[1] \in Routes
  BY DEF WorkOk, AllReaders, WellDeployed, HostsApart, Pairs
<1>3. \A i \in DOMAIN Work(s) : Work(s)[i] \in ToSet(Work(s))
  BY DEF ToSet
<1>4. \A e \in ToSet(Work(s)') :
          LET p == <<s, e[1]>> IN p \in AllReaders' /\ e \in Given(p)' /\ Allows(p, e[2])'
  BY <1>2 DEF WorkOk, DeployedKept
<1>5. (\A i, j \in DOMAIN Work(s) :
          i < j /\ Work(s)[i][1] = Work(s)[j][1]
            => Before(Work(s)[i][1], Work(s)[i][2], Work(s)[j][2]))'
  BY <1>1, <1>2, <1>3 DEF WorkOk
<1>. QED
  BY <1>4, <1>5 DEF WorkOk

-----------------------------------------------------------------------------
(* The steps.                                                              *)

LEMMA ReaderFacts ==
    ASSUME WellDeployed, NEW h \in Hosts, NEW p \in ReadersOf(h)
    PROVE  /\ p \in Pairs /\ p \in AllReaders /\ p = <<p[1], p[2]>> /\ h \in Roles
           /\ p[1] \in SubscriptionsOf(h) /\ p[1] \in Subscriptions /\ p[2] \in Routes
           /\ HostOf(p[1]) = h
           /\ \A g \in Hosts : p \in ReadersOf(g) => g = h
<1>1. /\ p \in SubscriptionsOf(h) \X Routes /\ h \in Roles
      /\ SubscriptionsOf(h) \subseteq Subscriptions
  BY DEF WellDeployed, HostsApart
<1>2. \A g \in Hosts : p[1] \in SubscriptionsOf(g) => g = h
  BY <1>1 DEF WellDeployed, HostsApart
<1>3. HostOf(p[1]) = h
  BY <1>1, <1>2 DEF HostOf
<1>4. \A g \in Hosts : p \in ReadersOf(g) => p[1] \in SubscriptionsOf(g)
  BY DEF WellDeployed, HostsApart
<1>. QED
  BY <1>1, <1>2, <1>3, <1>4 DEF Pairs, AllReaders

(* Only the loops begin or end.                                            *)
LEMMA Quiet ==
    ASSUME RInv, Typed', PhasesOk',
           UNCHANGED <<deployed, stream, group, pending, batch, lanes, running, retiring,
                       refused, began, ended, cause, faults>>,
           \A p \in Pairs : /\ reader'[p] = "holding" <=> reader[p] = "holding"
                            /\ reader'[p] # "off" => p \in AllReaders /\ group[p] # NoGroup
    PROVE  RInv'
<1>1. Typed /\ WellDeployed
  BY DEF RInv
<1>2. WellDeployed' /\ DeployedKept
  BY <1>1, DeployedFixed DEF DeployedKept
<1>3. StreamsOk' /\ CausesOk'
  BY StreamsKept DEF RInv
<1>4. StreamsGrow /\ \A p \in Pairs : Given(p)' = Given(p)
  BY <1>1, StreamSame
<1>5. FaultsGrow
  BY <1>1 DEF Typed, FaultsGrow
<1>6. ASSUME NEW p \in Pairs PROVE GroupOk(p)' /\ BatchOk(p)'
  <2>1. GroupOk(p) /\ BatchOk(p)
    BY DEF RInv
  <2>2. GroupOk(p)'
    BY <1>1, <1>2, <1>4, <2>1, GroupKept
  <2>3. IsFiniteSet(pending[p])
    BY <2>1 DEF GroupOk
  <2>4. BatchOk(p)'
    BY <1>1, <1>2, <1>5, <2>1, <2>3, BatchKept DEF AtWork
  <2>. QED
    BY <2>2, <2>4
<1>7. ASSUME NEW s \in Subscriptions PROVE LaneOk(s)' /\ WorkOk(s)'
  <2>1. LaneOk(s) /\ WorkOk(s)
    BY DEF RInv
  <2>2. LaneOk(s)'
    BY <2>1, LaneSame
  <2>3. Work(s)' = Work(s)
    BY DEF Work
  <2>. QED
    BY <1>1, <1>2, <1>4, <2>1, <2>2, <2>3, WorkKept
<1>. QED
  BY <1>2, <1>3, <1>6, <1>7 DEF RInv

LEMMA StartBeginsKeeps ==
    ASSUME RInv, NEW h \in Hosts, StartBegins(h) PROVE RInv'
<1>1. h \in Roles /\ WellDeployed /\ Typed
  BY DEF RInv, WellDeployed, HostsApart
<1>2. Typed'
  <2>1. starts' \in 0 .. MaxStarts
    BY <1>1, DeploymentAssumption DEF Typed, StartBegins
  <2>. QED
    BY <1>1, <2>1 DEF Typed, StartBegins, redis, history
<1>3. DeployedKept
  BY <1>1, DeployedFixed DEF StartBegins
<1>4. PhasesOk'
  <2>1. /\ \A g \in Hosts : g # h => phase'[g] = phase[g]
        /\ phase'[h] = "starting" /\ phase[h] = "down"
    BY <1>1 DEF StartBegins, Typed, WellDeployed, HostsApart
  <2>2. UNCHANGED <<ready, group, reader>> /\ NoGroup' = NoGroup
    BY DEF StartBegins, redis, NoGroup
  <2>. QED
    BY <1>3, <2>1, <2>2 DEF PhasesOk, RInv, DeployedKept
<1>5. \A p \in Pairs : /\ reader'[p] = reader[p]
                       /\ reader[p] # "off" => p \in AllReaders /\ group[p] # NoGroup
  BY DEF StartBegins, RInv, GroupOk
<1>. QED
  BY <1>2, <1>4, <1>5, Quiet DEF StartBegins, redis, history

LEMMA StartEndsKeeps ==
    ASSUME RInv, NEW h \in Hosts, StartEnds(h) PROVE RInv'
<1>1. h \in Roles /\ WellDeployed /\ Typed
  BY DEF RInv, WellDeployed, HostsApart
<1>2. Typed'
  BY <1>1 DEF Typed, StartEnds, redis, history
<1>3. DeployedKept
  BY <1>1, DeployedFixed DEF StartEnds
<1>4. \A p \in ReadersOf(h) :
          /\ p \in Pairs /\ p \in AllReaders /\ group[p] # NoGroup
          /\ reader[p] = "off" /\ reader'[p] = "reading"
          /\ \A g \in Hosts : p \in ReadersOf(g) => g = h
  BY <1>1, ReaderFacts DEF StartEnds, RInv, PhasesOk
<1>5. \A p \in Pairs \ ReadersOf(h) : reader'[p] = reader[p]
  BY DEF StartEnds
<1>6. PhasesOk'
  <2>1. /\ \A g \in Hosts : g # h => phase'[g] = phase[g]
        /\ phase'[h] = "running"
    BY <1>1 DEF StartEnds, Typed, WellDeployed, HostsApart
  <2>2. UNCHANGED <<ready, group>> /\ NoGroup' = NoGroup
    BY DEF StartEnds, redis, NoGroup
  <2>3. \A g \in Hosts : \A p \in ReadersOf(g) :
            /\ phase'[g] \in {"down", "starting"} => reader'[p] = "off"
            /\ phase'[g] = "running" => reader'[p] # "off"
    <3>. SUFFICES ASSUME NEW g \in Hosts, NEW p \in ReadersOf(g)
                  PROVE  /\ phase'[g] \in {"down", "starting"} => reader'[p] = "off"
                         /\ phase'[g] = "running" => reader'[p] # "off"
      OBVIOUS
    <3>1. CASE g = h
      BY <1>4, <2>1, <3>1
    <3>2. CASE g # h
      <4>1. p \in Pairs /\ p \notin ReadersOf(h)
        BY <1>1, <1>4, <3>2, ReaderFacts
      <4>. QED
        BY <1>5, <2>1, <3>2, <4>1 DEF RInv, PhasesOk
    <3>. QED
      BY <3>1, <3>2
  <2>. QED
    BY <1>3, <2>2, <2>3 DEF PhasesOk, RInv, DeployedKept
<1>7. \A p \in Pairs : /\ reader'[p] = "holding" <=> reader[p] = "holding"
                       /\ reader'[p] # "off" => p \in AllReaders /\ group[p] # NoGroup
  BY <1>4, <1>5 DEF RInv, GroupOk
<1>. QED
  BY <1>2, <1>6, <1>7, Quiet DEF StartEnds, redis, history

LEMMA StopBeginsKeeps ==
    ASSUME RInv, NEW h \in Hosts, StopBegins(h) PROVE RInv'
<1>1. h \in Roles /\ WellDeployed /\ Typed
  BY DEF RInv, WellDeployed, HostsApart
<1>2. Typed'
  BY <1>1 DEF Typed, StopBegins, redis, history
<1>3. DeployedKept
  BY <1>1, DeployedFixed DEF StopBegins
<1>4. PhasesOk'
  <2>1. /\ \A g \in Hosts : g # h => phase'[g] = phase[g]
        /\ phase'[h] = "stopping"
    BY <1>1 DEF StopBegins, Typed, WellDeployed, HostsApart
  <2>2. UNCHANGED <<ready, group, reader>> /\ NoGroup' = NoGroup
    BY DEF StopBegins, redis, NoGroup
  <2>. QED
    BY <1>3, <2>1, <2>2 DEF PhasesOk, RInv, DeployedKept
<1>5. \A p \in Pairs : /\ reader'[p] = reader[p]
                       /\ reader[p] # "off" => p \in AllReaders /\ group[p] # NoGroup
  BY DEF StopBegins, RInv, GroupOk
<1>. QED
  BY <1>2, <1>4, <1>5, Quiet DEF StopBegins, redis, history

LEMMA ReadTimesOutKeeps ==
    ASSUME RInv, NEW h \in Hosts, NEW p \in Pairs, ReadTimesOut(h, p) PROVE RInv'
<1>1. WellDeployed /\ Typed /\ p \in ReadersOf(h)
  BY DEF RInv, ReadTimesOut
<1>2. Typed'
  BY <1>1 DEF Typed, ReadTimesOut, redis, history
<1>3. DeployedKept
  BY <1>1, DeployedFixed DEF ReadTimesOut
<1>4. /\ reader[p] = "reading" /\ reader'[p] = "off" /\ phase[h] = "stopping"
      /\ \A q \in Pairs : q # p => reader'[q] = reader[q]
      /\ \A g \in Hosts : p \in ReadersOf(g) => g = h
  BY <1>1, ReaderFacts DEF ReadTimesOut, Typed
<1>5. PhasesOk'
  <2>1. UNCHANGED <<phase, ready, group>> /\ NoGroup' = NoGroup
    BY DEF ReadTimesOut, redis, NoGroup
  <2>2. \A g \in Hosts : \A q \in ReadersOf(g) : q \in Pairs
    BY <1>1, ReaderFacts
  <2>. QED
    BY <1>3, <1>4, <2>1, <2>2 DEF PhasesOk, RInv, DeployedKept
<1>6. \A q \in Pairs : /\ reader'[q] = "holding" <=> reader[q] = "holding"
                       /\ reader'[q] # "off" => q \in AllReaders /\ group[q] # NoGroup
  BY <1>4 DEF RInv, GroupOk
<1>. QED
  BY <1>2, <1>5, <1>6, Quiet DEF ReadTimesOut, redis, history

LEMMA StopEndsKeeps ==
    ASSUME RInv, NEW h \in Hosts, StopEnds(h) PROVE RInv'
<1>1. h \in Roles /\ WellDeployed /\ Typed
  BY DEF RInv, WellDeployed, HostsApart
<1>2. Typed'
  BY <1>1 DEF Typed, StopEnds, redis, history
<1>3. DeployedKept
  BY <1>1, DeployedFixed DEF StopEnds
<1>4. PhasesOk'
  <2>1. /\ \A g \in Hosts : g # h => phase'[g] = phase[g]
        /\ phase'[h] = "down" /\ ready' \subseteq ready
        /\ \A p \in ReadersOf(h) : reader[p] = "off"
    BY <1>1 DEF StopEnds, LoopsEnded, Typed, WellDeployed, HostsApart
  <2>2. UNCHANGED <<group, reader>> /\ NoGroup' = NoGroup
    BY DEF StopEnds, redis, NoGroup
  <2>. QED
    BY <1>3, <2>1, <2>2 DEF PhasesOk, RInv, DeployedKept
<1>5. \A p \in Pairs : /\ reader'[p] = reader[p]
                       /\ reader[p] # "off" => p \in AllReaders /\ group[p] # NoGroup
  BY DEF StopEnds, RInv, GroupOk
<1>. QED
  BY <1>2, <1>4, <1>5, Quiet DEF StopEnds, redis, history

LEMMA StutterKeeps == ASSUME RInv, UNCHANGED vars PROVE RInv'
<1>1. WellDeployed /\ Typed
  BY DEF RInv
<1>2. Typed'
  BY <1>1 DEF Typed, vars, redis, process, history
<1>3. DeployedKept
  BY <1>1, DeployedFixed DEF vars
<1>4. PhasesOk'
  <2>1. UNCHANGED <<phase, ready, group, reader>> /\ NoGroup' = NoGroup
    BY DEF vars, redis, process, NoGroup
  <2>. QED
    BY <1>3, <2>1 DEF PhasesOk, RInv, DeployedKept
<1>5. \A p \in Pairs : /\ reader'[p] = reader[p]
                       /\ reader[p] # "off" => p \in AllReaders /\ group[p] # NoGroup
  BY DEF vars, process, RInv, GroupOk
<1>. QED
  BY <1>2, <1>4, <1>5, Quiet DEF vars, redis, process, history

LEMMA Concat ==
    ASSUME NEW a \in Seq(Entries), NEW c \in Seq(Entries)
    PROVE  /\ a \o c \in Seq(Entries) /\ Len(a \o c) = Len(a) + Len(c)
           /\ Len(a) \in Nat /\ Len(c) \in Nat
           /\ DOMAIN a = 1 .. Len(a) /\ DOMAIN c = 1 .. Len(c)
           /\ DOMAIN (a \o c) = 1 .. Len(a) + Len(c)
           /\ \A i \in 1 .. Len(a) : (a \o c)[i] = a[i] /\ a[i] \in Entries
           /\ \A i \in 1 .. Len(c) : (a \o c)[Len(a) + i] = c[i] /\ c[i] \in Entries
           /\ ToSet(a \o c) = ToSet(a) \cup ToSet(c)
<1>. DEFINE ac == a \o c
<1>1. /\ ac \in Seq(Entries) /\ Len(ac) = Len(a) + Len(c)
      /\ Len(a) \in Nat /\ Len(c) \in Nat
      /\ DOMAIN a = 1 .. Len(a) /\ DOMAIN c = 1 .. Len(c)
      /\ DOMAIN ac = 1 .. Len(a) + Len(c)
      /\ \A i \in 1 .. Len(a) : ac[i] = a[i] /\ a[i] \in Entries
      /\ \A i \in 1 .. Len(c) : ac[Len(a) + i] = c[i] /\ c[i] \in Entries
  OBVIOUS
<1>. HIDE DEF ac
<1>2. ASSUME NEW i \in DOMAIN ac PROVE ac[i] \in ToSet(a) \cup ToSet(c)
  <2>1. CASE i \in 1 .. Len(a)
    BY <1>1, <2>1 DEF ToSet
  <2>2. CASE i \notin 1 .. Len(a)
    <3>1. i - Len(a) \in 1 .. Len(c) /\ Len(a) + (i - Len(a)) = i
      BY <1>1, <2>2
    <3>. QED
      BY <1>1, <3>1 DEF ToSet
  <2>. QED
    BY <2>1, <2>2
<1>3. ASSUME NEW i \in 1 .. Len(a) PROVE a[i] \in ToSet(ac)
  <2>1. i \in DOMAIN ac
    BY <1>1
  <2>. QED
    BY <1>1, <2>1 DEF ToSet
<1>4. ASSUME NEW i \in 1 .. Len(c) PROVE c[i] \in ToSet(ac)
  <2>1. Len(a) + i \in DOMAIN ac
    BY <1>1
  <2>. QED
    BY <1>1, <2>1 DEF ToSet
<1>5. ToSet(ac) = ToSet(a) \cup ToSet(c)
  <2>1. ToSet(ac) \subseteq ToSet(a) \cup ToSet(c)
    BY <1>2 DEF ToSet
  <2>2. ToSet(a) \subseteq ToSet(ac)
    BY <1>1, <1>3 DEF ToSet
  <2>3. ToSet(c) \subseteq ToSet(ac)
    BY <1>1, <1>4 DEF ToSet
  <2>. QED
    BY <2>1, <2>2, <2>3
<1>. QED
  BY <1>1, <1>5 DEF ac

LEMMA ConcatTwice ==
    ASSUME NEW a \in Seq(Entries), NEW c \in Seq(Entries), NEW d \in Seq(Entries)
    PROVE  (a \o c) \o d = a \o (c \o d)
  BY ConcatAssociative

LEMMA ReadersArePairs == ASSUME WellDeployed PROVE AllReaders \subseteq Pairs
<1>1. \A h \in Hosts : ReadersOf(h) \subseteq Pairs
  BY ReaderFacts
<1>. QED
  BY <1>1 DEF AllReaders

(* What a subscription has begun and what it has queued are all different. *)
LEMMA WorkDistinct ==
    ASSUME WellDeployed, Typed, StreamsOk, NEW s \in Subscriptions, LaneOk(s), WorkOk(s)
    PROVE  /\ Work(s) \in Seq(Entries)
           /\ began[s] \in Seq(Entries) /\ lanes[s].queue \in Seq(Entries)
           /\ \A i, j \in DOMAIN Work(s) : Work(s)[i] = Work(s)[j] => i = j
           /\ ToSet(Work(s)) = ToSet(began[s]) \cup ToSet(lanes[s].queue)
           /\ ToSet(began[s]) \cap ToSet(lanes[s].queue) = {}
           /\ AtWork(s) \subseteq ToSet(began[s])
<1>1. began[s] \in Seq(Entries) /\ lanes[s].queue \in Seq(Entries)
  BY DEF Typed, L!LaneState
<1>. DEFINE b == began[s]  q == lanes[s].queue
<1>. HIDE DEF b, q
<1>2. /\ Work(s) = b \o q /\ Work(s) \in Seq(Entries) /\ Len(Work(s)) = Len(b) + Len(q)
      /\ Len(b) \in Nat /\ Len(q) \in Nat
      /\ DOMAIN b = 1 .. Len(b) /\ DOMAIN q = 1 .. Len(q)
      /\ DOMAIN Work(s) = 1 .. Len(b) + Len(q)
      /\ \A i \in 1 .. Len(b) : Work(s)[i] = b[i]
      /\ \A i \in 1 .. Len(q) : Work(s)[Len(b) + i] = q[i]
      /\ ToSet(Work(s)) = ToSet(b) \cup ToSet(q)
  <2>1. b \in Seq(Entries) /\ q \in Seq(Entries) /\ Work(s) = b \o q
    BY <1>1 DEF b, q, Work
  <2>. QED
    BY <2>1, Concat
<1>3. \A e \in ToSet(Work(s)) : e[1] \in Routes
  <2>1. \A e \in ToSet(Work(s)) : <<s, e[1]>> \in Pairs
    BY ReadersArePairs DEF WorkOk
  <2>. QED
    BY <2>1 DEF Pairs
<1>4. ASSUME NEW i \in DOMAIN Work(s), NEW j \in DOMAIN Work(s),
             Work(s)[i] = Work(s)[j], i < j
      PROVE  FALSE
  <2>. DEFINE e == Work(s)[i]
  <2>1. e[1] \in Routes
    BY <1>3 DEF ToSet
  <2>2. Before(e[1], e[2], e[2])
    BY <1>4 DEF WorkOk
  <2>3. PICK k, l \in DOMAIN stream[e[1]] :
            k < l /\ stream[e[1]][k] = e[2] /\ stream[e[1]][l] = e[2]
    BY <2>2 DEF Before
  <2>4. DOMAIN stream[e[1]] \subseteq Nat
    BY <2>1 DEF Typed
  <2>5. k = l
    BY <2>1, <2>3 DEF StreamsOk
  <2>. QED
    BY <2>3, <2>4, <2>5
<1>5. \A i, j \in DOMAIN Work(s) : Work(s)[i] = Work(s)[j] => i = j
  <2>1. \A i, j \in DOMAIN Work(s) : i < j \/ j < i \/ i = j
    BY <1>2
  <2>. QED
    BY <1>4, <2>1
<1>7. ToSet(b) \cap ToSet(q) = {}
  <2>. SUFFICES ASSUME NEW i \in 1 .. Len(b), NEW j \in 1 .. Len(q), b[i] = q[j]
                PROVE  FALSE
    BY <1>2 DEF ToSet
  <2>1. i \in DOMAIN Work(s) /\ Len(b) + j \in DOMAIN Work(s) /\ i # Len(b) + j
    BY <1>2
  <2>. QED
    BY <1>2, <1>5, <2>1
<1>8. AtWork(s) \subseteq ToSet(b)
  BY DEF LaneOk, AtWork, b
<1>. QED
  BY <1>1, <1>2, <1>5, <1>7, <1>8 DEF b, q

(* A sequence of different things is as long as they are many.             *)
LEMMA DistinctCount ==
    ASSUME NEW q, NEW n \in Nat, DOMAIN q = 1 .. n,
           \A i, j \in DOMAIN q : q[i] = q[j] => i = j
    PROVE  IsFiniteSet(ToSet(q)) /\ Cardinality(ToSet(q)) = n
<1>. DEFINE f == [i \in 1 .. n |-> q[i]]
<1>1. f \in Bijection(1 .. n, ToSet(q))
  BY DEF Bijection, Injection, Surjection, IsInjective, ToSet
<1>2. ExistsBijection(1 .. n, ToSet(q))
  BY <1>1 DEF ExistsBijection
<1>3. IsFiniteSet(1 .. n) /\ Cardinality(1 .. n) = n
  BY FS_Interval
<1>. QED
  BY <1>2, <1>3, FS_Bijection

LEMMA ApartCount ==
    ASSUME NEW A, NEW B, IsFiniteSet(A), IsFiniteSet(B)
    PROVE  /\ IsFiniteSet(A \cup B) /\ Cardinality(A \cup B) \in Nat
           /\ Cardinality(A) \in Nat /\ Cardinality(B) \in Nat
           /\ Cardinality(A \cup B) <= Cardinality(A) + Cardinality(B)
           /\ A \cap B = {} => Cardinality(A \cup B) = Cardinality(A) + Cardinality(B)
<1>1. /\ IsFiniteSet(A \cap B) /\ Cardinality(A \cap B) \in Nat
      /\ Cardinality(A) \in Nat /\ Cardinality(B) \in Nat
  BY FS_Subset, FS_CardinalityType
<1>2. /\ IsFiniteSet(A \cup B)
      /\ Cardinality(A \cup B) = Cardinality(A) + Cardinality(B) - Cardinality(A \cap B)
  BY FS_Union
<1>3. A \cap B = {} => Cardinality(A \cap B) = 0
  BY FS_EmptySet
<1>. QED
  BY <1>1, <1>2, <1>3, FS_CardinalityType

LEMMA PumpKeeps ==
    ASSUME RInv, NEW s \in Subscriptions, PumpRuns(s) PROVE RInv'
<1>. DEFINE max == MaxInFlight[s]  es == L!Pumped(lanes[s], max)  b == began[s]
            q == lanes[s].queue  new == L!Pump(lanes[s], max)
<1>1. /\ WellDeployed /\ Typed /\ LaneOk(s) /\ WorkOk(s) /\ StreamsOk
      /\ max \in Nat /\ max # 0
  BY DeploymentAssumption DEF RInv
<1>2. /\ lanes' = [lanes EXCEPT ![s] = new] /\ began' = [began EXCEPT ![s] = b \o es]
      /\ running' = [running EXCEPT ![s] = @ \cup ToSet(es)] /\ lanes[s].scheduled
      /\ UNCHANGED <<deployed, stream, group, pending, phase, ready, reader, batch,
                     retiring, refused, ended, cause, starts, faults>>
  BY DEF PumpRuns, redis
<1>3. LaneKept(lanes[s], max)
  BY <1>1 DEF LaneKept, LaneOk, Typed
<1>. HIDE DEF max, new, es
<1>4. /\ es \in Seq(Entries) /\ es # <<>> /\ LaneKept(new, max) /\ q = es \o new.queue
      /\ new.inFlight = lanes[s].inFlight + Len(es) /\ new.inFlight <= max
  BY <1>1, <1>2, <1>3, PumpLane DEF es, new
<1>5. new \in L!LaneState /\ new.queue \in Seq(Entries)
  BY <1>4 DEF LaneKept, L!LaneState
<1>6. /\ b \in Seq(Entries) /\ lanes'[s] = new /\ began'[s] = b \o es
      /\ running'[s] = running[s] \cup ToSet(es)
      /\ \A t \in Subscriptions : t # s =>
            lanes'[t] = lanes[t] /\ began'[t] = began[t] /\ running'[t] = running[t]
  BY <1>1, <1>2 DEF Typed
<1>7. /\ Len(es) \in Nat /\ Len(b) \in Nat /\ DOMAIN es = 1 .. Len(es)
      /\ \A i \in 1 .. Len(es) : es[i] \in Entries
      /\ b \o es \in Seq(Entries) /\ Len(b \o es) = Len(b) + Len(es)
      /\ DOMAIN (b \o es) = 1 .. Len(b) + Len(es)
      /\ \A i \in 1 .. Len(es) : (b \o es)[Len(b) + i] = es[i]
      /\ ToSet(b \o es) = ToSet(b) \cup ToSet(es)
  BY <1>4, <1>6, Concat
<1>8. Typed'
  <2>1. running' \in [Subscriptions -> SUBSET Entries]
    <3>1. ToSet(es) \subseteq Entries
      BY <1>7 DEF ToSet
    <3>. QED
      BY <1>1, <1>2, <3>1 DEF Typed
  <2>2. /\ lanes' \in [Subscriptions -> L!LaneState]
        /\ began' \in [Subscriptions -> Seq(Entries)]
    BY <1>1, <1>2, <1>5, <1>7 DEF Typed
  <2>. QED
    BY <1>1, <1>2, <2>1, <2>2 DEF Typed
<1>9. Work(s)' = Work(s) /\ Work(s) = (b \o es) \o new.queue
  <2>1. (b \o es) \o new.queue = b \o (es \o new.queue)
    BY <1>4, <1>5, <1>6, ConcatTwice
  <2>2. Work(s)' = (b \o es) \o new.queue
    BY <1>6 DEF Work
  <2>3. Work(s) = b \o q
    BY DEF Work
  <2>. HIDE DEF b, q
  <2>. QED
    BY <1>4, <2>1, <2>2, <2>3
<1>10. ToSet(q) = ToSet(es) \cup ToSet(new.queue)
  BY <1>4, <1>5, Concat
<1>11. /\ ToSet(es) \cap ToSet(b) = {} /\ AtWork(s) \subseteq ToSet(b)
       /\ AtWork(s)' = AtWork(s) \cup ToSet(es)
       /\ \A t \in Subscriptions : t # s => AtWork(t)' = AtWork(t)
  BY <1>1, <1>2, <1>6, <1>10, WorkDistinct DEF AtWork
<1>12. IsFiniteSet(ToSet(es)) /\ Cardinality(ToSet(es)) = Len(es)
  <2>1. ASSUME NEW i \in DOMAIN es, NEW j \in DOMAIN es, es[i] = es[j] PROVE i = j
    <3>1. /\ Len(b) + i \in DOMAIN Work(s) /\ Len(b) + j \in DOMAIN Work(s)
          /\ Work(s)[Len(b) + i] = es[i] /\ Work(s)[Len(b) + j] = es[j]
      <4>. DEFINE be == b \o es  nq == new.queue
      <4>0. i \in 1 .. Len(es) /\ j \in 1 .. Len(es)
        BY <1>7
      <4>a. be \in Seq(Entries) /\ nq \in Seq(Entries) /\ Work(s) = be \o nq
        BY <1>5, <1>7, <1>9
      <4>b. Len(be) = Len(b) + Len(es) /\ be[Len(b) + i] = es[i] /\ be[Len(b) + j] = es[j]
        BY <1>7, <4>0
      <4>. HIDE DEF b
      <4>1. /\ be \in Seq(Entries) /\ nq \in Seq(Entries) /\ Work(s) = be \o nq
            /\ Len(b) + i \in 1 .. Len(be) /\ be[Len(b) + i] = es[i]
            /\ Len(b) + j \in 1 .. Len(be) /\ be[Len(b) + j] = es[j]
        BY <1>7, <4>0, <4>a, <4>b
      <4>. HIDE DEF be, nq
      <4>2. /\ DOMAIN Work(s) = 1 .. Len(be) + Len(nq)
            /\ Len(be) \in Nat /\ Len(nq) \in Nat
            /\ \A k \in 1 .. Len(be) : Work(s)[k] = be[k]
        BY <4>1, Concat
      <4>. QED
        BY <4>1, <4>2
    <3>2. Len(b) + i = Len(b) + j
      BY <1>1, <2>1, <3>1, WorkDistinct
    <3>. QED
      BY <1>7, <2>1, <3>2
  <2>. QED
    BY <1>7, <2>1, DistinctCount
<1>13. LaneOk(s)'
  <2>1. IsFiniteSet(AtWork(s)) /\ lanes[s].inFlight = Cardinality(AtWork(s))
    BY <1>1 DEF LaneOk
  <2>2. /\ IsFiniteSet(AtWork(s)')
        /\ Cardinality(AtWork(s)') = Cardinality(AtWork(s)) + Len(es)
    BY <1>11, <1>12, <2>1, ApartCount
  <2>3. new.inFlight = Cardinality(AtWork(s)')
    BY <1>4, <2>1, <2>2
  <2>5. /\ running'[s] \cap ended'[s] = {} /\ retiring'[s] \subseteq ended'[s]
        /\ running'[s] \cup ended'[s] \subseteq ToSet(began'[s])
    BY <1>1, <1>2, <1>6, <1>7, <1>11 DEF LaneOk
  <2>6. max = 1 => \A e \in running'[s] : e = began'[s][Len(began'[s])]
    <3>. SUFFICES ASSUME max = 1, NEW e \in running'[s]
                  PROVE  e = began'[s][Len(began'[s])]
      OBVIOUS
    <3>1. Len(es) > 0
      BY <1>4, <1>7, EmptySeq
    <3>2. Cardinality(AtWork(s)) \in Nat
      BY <2>1, FS_CardinalityType
    <3>3. Len(es) = 1 /\ Cardinality(AtWork(s)) = 0
      BY <1>4, <1>7, <2>1, <3>1, <3>2
    <3>4. AtWork(s) = {}
      BY <2>1, <3>3, FS_EmptySet
    <3>5. e \in ToSet(es)
      BY <1>6, <3>4 DEF AtWork
    <3>6. e = es[1]
      BY <1>7, <3>3, <3>5 DEF ToSet
    <3>7. (b \o es)[Len(b) + 1] = es[1] /\ Len(b \o es) = Len(b) + 1
      BY <1>7, <3>3
    <3>. QED
      BY <1>6, <3>6, <3>7
  <2>7. lanes'[s].scheduled = L!Due(lanes'[s], max)
    BY <1>4, <1>6 DEF LaneKept
  <2>. QED
    BY <1>4, <1>6, <2>2, <2>3, <2>5, <2>6, <2>7 DEF LaneOk, max
<1>14. WellDeployed' /\ DeployedKept
  BY <1>1, <1>2, DeployedFixed DEF DeployedKept
<1>15. StreamsGrow /\ \A p \in Pairs : Given(p)' = Given(p)
  BY <1>1, <1>2, StreamSame
<1>16. ASSUME NEW t \in Subscriptions PROVE LaneOk(t)' /\ WorkOk(t)'
  <2>1. LaneOk(t) /\ WorkOk(t)
    BY DEF RInv
  <2>2. LaneOk(t)'
    BY <1>2, <1>6, <1>13, <2>1, LaneSame
  <2>3. Work(t)' = Work(t)
    BY <1>6, <1>9 DEF Work
  <2>. QED
    BY <1>1, <1>8, <1>14, <1>15, <2>1, <2>2, <2>3, WorkKept
<1>17. ASSUME NEW p \in Pairs PROVE GroupOk(p)' /\ BatchOk(p)'
  <2>1. GroupOk(p) /\ BatchOk(p) /\ p[1] \in Subscriptions
    BY DEF RInv, Pairs
  <2>2. GroupOk(p)'
    <3>1. reader'[p] # "off" => p \in AllReaders /\ group[p] # NoGroup
      BY <1>2, <2>1 DEF GroupOk
    <3>. QED
      BY <1>1, <1>2, <1>8, <1>14, <1>15, <2>1, <3>1, GroupKept
  <2>3. ToSet(lanes'[p[1]].queue) \cup AtWork(p[1])' = ToSet(lanes[p[1]].queue) \cup AtWork(p[1])
    <3>1. CASE p[1] = s
      <4>1. ToSet(new.queue) \cup (AtWork(s) \cup ToSet(es)) = ToSet(q) \cup AtWork(s)
        BY <1>10
      <4>. QED
        BY <1>6, <1>11, <3>1, <4>1
    <3>2. CASE p[1] # s
      BY <1>6, <1>11, <2>1, <3>2
    <3>. QED
      BY <3>1, <3>2
  <2>4. FaultsGrow /\ IsFiniteSet(pending[p])
    BY <1>1, <1>2, <2>1 DEF Typed, FaultsGrow, GroupOk
  <2>5. BatchOk(p)'
    BY <1>1, <1>2, <1>14, <2>1, <2>3, <2>4, BatchKept
  <2>. QED
    BY <2>2, <2>5
<1>18. StreamsOk' /\ CausesOk'
  BY <1>2, StreamsKept DEF RInv
<1>19. PhasesOk'
  <2>1. NoGroup' = NoGroup
    BY DEF NoGroup
  <2>. QED
    BY <1>2, <1>14, <2>1 DEF PhasesOk, RInv, DeployedKept
<1>. QED
  BY <1>8, <1>14, <1>16, <1>17, <1>18, <1>19 DEF RInv

LEMMA HandlerEndsKeeps ==
    ASSUME RInv, NEW s \in Subscriptions, NEW e \in Entries, HandlerEnds(s, e) PROVE RInv'
<1>1. WellDeployed /\ Typed /\ LaneOk(s)
  BY DEF RInv
<1>2. /\ e \in running[s] /\ running' = [running EXCEPT ![s] = @ \ {e}]
      /\ retiring' = [retiring EXCEPT ![s] = @ \cup {e}]
      /\ ended' = [ended EXCEPT ![s] = @ \cup {e}]
      /\ UNCHANGED <<deployed, stream, group, pending, phase, ready, reader, batch, lanes,
                     refused, began, cause, starts, faults>>
  BY DEF HandlerEnds, redis
<1>3. /\ running'[s] = running[s] \ {e} /\ retiring'[s] = retiring[s] \cup {e}
      /\ ended'[s] = ended[s] \cup {e}
      /\ \A t \in Subscriptions : t # s =>
            running'[t] = running[t] /\ retiring'[t] = retiring[t] /\ ended'[t] = ended[t]
  BY <1>1, <1>2 DEF Typed
<1>4. Typed'
  BY <1>1, <1>2 DEF Typed
<1>5. \A t \in Subscriptions : AtWork(t)' = AtWork(t)
  BY <1>2, <1>3 DEF AtWork
<1>6. WellDeployed' /\ DeployedKept
  BY <1>1, <1>2, DeployedFixed DEF DeployedKept
<1>7. StreamsGrow /\ \A p \in Pairs : Given(p)' = Given(p)
  BY <1>1, <1>2, StreamSame
<1>8. ASSUME NEW t \in Subscriptions PROVE LaneOk(t)' /\ WorkOk(t)'
  <2>1. LaneOk(t) /\ WorkOk(t)
    BY DEF RInv
  <2>2. LaneOk(t)'
    <3>1. CASE t = s
      BY <1>1, <1>2, <1>3, <1>5, <3>1 DEF LaneOk
    <3>2. CASE t # s
      BY <1>2, <1>3, <2>1, <3>2, LaneSame
    <3>. QED
      BY <3>1, <3>2
  <2>3. Work(t)' = Work(t)
    BY <1>2 DEF Work
  <2>. QED
    BY <1>1, <1>4, <1>6, <1>7, <2>1, <2>2, <2>3, WorkKept
<1>9. ASSUME NEW p \in Pairs PROVE GroupOk(p)' /\ BatchOk(p)'
  <2>1. GroupOk(p) /\ BatchOk(p) /\ p[1] \in Subscriptions
    BY DEF RInv, Pairs
  <2>2. GroupOk(p)'
    <3>1. reader'[p] # "off" => p \in AllReaders /\ group[p] # NoGroup
      BY <1>2, <2>1 DEF GroupOk
    <3>2. ended[p[1]] \subseteq ended'[p[1]]
      BY <1>3, <2>1
    <3>. QED
      BY <1>1, <1>2, <1>4, <1>6, <1>7, <2>1, <3>1, <3>2, GroupKept
  <2>3. FaultsGrow /\ IsFiniteSet(pending[p])
    BY <1>1, <1>2, <2>1 DEF Typed, FaultsGrow, GroupOk
  <2>4. BatchOk(p)'
    BY <1>1, <1>2, <1>5, <1>6, <2>1, <2>3, BatchKept
  <2>. QED
    BY <2>2, <2>4
<1>10. StreamsOk' /\ CausesOk'
  BY <1>2, StreamsKept DEF RInv
<1>11. PhasesOk'
  <2>1. NoGroup' = NoGroup
    BY DEF NoGroup
  <2>. QED
    BY <1>2, <1>6, <2>1 DEF PhasesOk, RInv, DeployedKept
<1>. QED
  BY <1>4, <1>6, <1>8, <1>9, <1>10, <1>11 DEF RInv

LEMMA AcknowledgeTyped ==
    ASSUME Typed, NEW p \in Pairs, NEW e, Acknowledge(p, e)
    PROVE  pending' \in [Pairs -> SUBSET Entries] /\ faults' \in 0 .. MaxFaults
<1>1. MaxFaults \in Nat /\ faults \in 0 .. MaxFaults /\ pending \in [Pairs -> SUBSET Entries]
  BY DeploymentAssumption DEF Typed
<1>2. CASE pending' = [pending EXCEPT ![p] = @ \ {e}] /\ UNCHANGED faults
  BY <1>1, <1>2
<1>3. CASE faults < MaxFaults /\ faults' = faults + 1 /\ UNCHANGED pending
  <2>1. \A k, n \in Nat : k < n => k + 1 \in 0 .. n
    OBVIOUS
  <2>. QED
    BY <1>1, <1>3, <2>1
<1>. QED
  BY <1>2, <1>3 DEF Acknowledge

(* A reader lets an entry of its batch go.                                 *)
LEMMA LetGo ==
    ASSUME RInv, Typed', NEW p \in Pairs, NEW e \in batch[p],
           e \in ended[p[1]] \/ ~Allows(p, e[2]),
           Acknowledge(p, e), BatchWithout(p, e),
           UNCHANGED <<deployed, stream, group, phase, ready, began, ended, cause>>,
           refused'[p] \subseteq {x \in batch[p] \ {e} : ~Allows(p, x[2])},
           (batch[p] \ {e}) \ refused'[p] =
               {x \in ToSet(lanes'[p[1]].queue) \cup AtWork(p[1])' : x[1] = p[2]},
           \A q \in Pairs \ {p} :
               /\ refused'[q] = refused[q]
               /\ \A x : x[1] = q[2] =>
                    (x \in ToSet(lanes'[q[1]].queue) \cup AtWork(q[1])'
                       <=> x \in ToSet(lanes[q[1]].queue) \cup AtWork(q[1]))
    PROVE  /\ WellDeployed' /\ DeployedKept /\ StreamsOk' /\ CausesOk' /\ PhasesOk'
           /\ StreamsGrow /\ \A q \in Pairs : Given(q)' = Given(q)
           /\ \A q \in Pairs : GroupOk(q)' /\ BatchOk(q)'
<1>1. WellDeployed /\ Typed /\ GroupOk(p) /\ BatchOk(p) /\ faults \in Nat
  BY DEF RInv, Typed
<1>2. WellDeployed' /\ DeployedKept
  BY <1>1, DeployedFixed DEF DeployedKept
<1>3. StreamsOk' /\ CausesOk'
  BY StreamsKept DEF RInv
<1>4. StreamsGrow /\ \A q \in Pairs : Given(q)' = Given(q)
  BY <1>1, StreamSame
<1>5. /\ batch' = [batch EXCEPT ![p] = batch[p] \ {e}]
      /\ batch'[p] = batch[p] \ {e} /\ \A q \in Pairs \ {p} : batch'[q] = batch[q]
  BY <1>1 DEF BatchWithout, Typed
<1>6. /\ reader[p] = "holding" /\ \A q \in Pairs \ {p} : reader'[q] = reader[q]
      /\ reader'[p] = IF batch'[p] # {} THEN "holding"
                      ELSE IF phase[HostOf(p[1])] = "running" THEN "reading" ELSE "off"
  BY <1>1 DEF BatchWithout, Typed, BatchOk
<1>7. /\ \A q \in Pairs \ {p} : pending'[q] = pending[q]
      /\ \/ pending'[p] = pending[p] \ {e} /\ faults' = faults
         \/ pending'[p] = pending[p] /\ faults' = faults + 1
  BY <1>1 DEF Acknowledge, Typed
<1>8. FaultsGrow
  BY <1>1, <1>7 DEF FaultsGrow
<1>9. PhasesOk'
  <2>1. PICK h \in Hosts : p \in ReadersOf(h)
    BY <1>1, <1>6 DEF GroupOk, AllReaders
  <2>2. /\ HostOf(p[1]) = h /\ \A g \in Hosts : p \in ReadersOf(g) => g = h
        /\ \A g \in Hosts : \A q \in ReadersOf(g) : q \in Pairs
    BY <1>1, <2>1, ReaderFacts
  <2>3. /\ phase[h] \notin {"down", "starting"}
        /\ phase[h] = "running" => reader'[p] # "off"
    BY <1>6, <2>1, <2>2 DEF RInv, PhasesOk
  <2>4. NoGroup' = NoGroup
    BY DEF NoGroup
  <2>. QED
    BY <1>2, <1>6, <2>2, <2>3, <2>4 DEF PhasesOk, RInv, DeployedKept
<1>10. ASSUME NEW q \in Pairs, q # p PROVE GroupOk(q)' /\ BatchOk(q)'
  <2>1. GroupOk(q) /\ BatchOk(q)
    BY DEF RInv
  <2>2. reader'[q] # "off" => q \in AllReaders /\ group[q] # NoGroup
    BY <1>6, <1>10, <2>1 DEF GroupOk
  <2>3. GroupOk(q)'
    BY <1>1, <1>2, <1>4, <1>7, <1>10, <2>1, <2>2, GroupKept
  <2>4. IsFiniteSet(pending[q])
    BY <2>1 DEF GroupOk
  <2>5. BatchOk(q)'
    BY <1>1, <1>2, <1>5, <1>6, <1>7, <1>8, <1>10, <2>1, <2>4, BatchKept
  <2>. QED
    BY <2>3, <2>5
<1>11. GroupOk(p)'
  <2>1. reader'[p] # "off" => p \in AllReaders /\ group[p] # NoGroup
    BY <1>1, <1>6 DEF GroupOk
  <2>2. /\ pending'[p] \subseteq pending[p]
        /\ \A x \in pending[p] \ pending'[p] : x \in ended'[p[1]] \/ ~Allows(p, x[2])
    BY <1>7
  <2>. QED
    BY <1>1, <1>2, <1>4, <2>1, <2>2, GroupKept
<1>12. BatchOk(p)'
  <2>. DEFINE n == ReadCount[p[1]]  left == pending[p] \ batch[p]
  <2>1. n \in Nat /\ n >= 1
    BY DeploymentAssumption DEF Pairs
  <2>2. IsFiniteSet(pending[p]) /\ IsFiniteSet(left) /\ IsFiniteSet(batch[p])
    BY <1>1, FS_Subset DEF GroupOk, BatchOk
  <2>3. /\ Cardinality(batch'[p]) <= Cardinality(batch[p])
        /\ Cardinality(batch'[p]) \in Nat /\ Cardinality(batch[p]) \in Nat
        /\ Cardinality(left) \in Nat
    <3>1. batch'[p] \in SUBSET batch[p]
      BY <1>5
    <3>. QED
      BY <2>2, <3>1, FS_Subset, FS_CardinalityType
  <2>4. Cardinality(batch'[p]) <= n /\ Cardinality(left) <= faults * n
    BY <1>1, <2>1, <2>3 DEF BatchOk
  <2>5. Cardinality(pending'[p] \ batch'[p]) <= faults' * n
    <3>1. CASE pending'[p] = pending[p] \ {e} /\ faults' = faults
      <4>1. pending'[p] \ batch'[p] = left
        BY <1>1, <1>5, <3>1 DEF BatchOk
      <4>. QED
        BY <2>4, <3>1, <4>1
    <3>2. CASE pending'[p] = pending[p] /\ faults' = faults + 1
      <4>1. pending'[p] \ batch'[p] = left \cup {e}
        BY <1>1, <1>5, <3>2 DEF BatchOk
      <4>. DEFINE more == Cardinality(left \cup {e})
      <4>2. more <= Cardinality(left) + 1 /\ more \in Nat
        <5>. HIDE DEF left
        <5>1. more = (IF e \in left THEN Cardinality(left) ELSE Cardinality(left) + 1)
          BY <2>2, FS_AddElement
        <5>. HIDE DEF more
        <5>. QED
          BY <2>3, <5>1
      <4>3. (faults + 1) * n = faults * n + n /\ faults * n \in Nat
        BY <1>1, <2>1
      <4>4. Cardinality(pending'[p] \ batch'[p]) = more
        BY <4>1
      <4>. HIDE DEF n, left, more
      <4>5. more <= (faults + 1) * n
        BY <2>1, <2>3, <2>4, <4>2, <4>3
      <4>. QED
        BY <3>2, <4>4, <4>5
    <3>. QED
      BY <1>7, <3>1, <3>2
  <2>6. /\ reader'[p] = "holding" <=> batch'[p] # {}
        /\ batch'[p] \subseteq pending'[p]
    BY <1>1, <1>5, <1>6, <1>7 DEF BatchOk
  <2>7. /\ refused'[p] \subseteq {x \in batch'[p] : ~Allows(p, x[2])'}
        /\ batch'[p] \ refused'[p] =
              {x \in ToSet(lanes'[p[1]].queue) \cup AtWork(p[1])' : x[1] = p[2]}
    BY <1>2, <1>5 DEF DeployedKept
  <2>. QED
    BY <2>4, <2>5, <2>6, <2>7 DEF BatchOk
<1>. QED
  BY <1>2, <1>3, <1>4, <1>9, <1>10, <1>11, <1>12

LEMMA RefuseKeeps ==
    ASSUME RInv, NEW p \in Pairs, NEW e \in Entries, Refuse(p, e) PROVE RInv'
<1>1. WellDeployed /\ Typed /\ BatchOk(p)
  BY DEF RInv
<1>2. /\ e \in refused[p] /\ Acknowledge(p, e) /\ BatchWithout(p, e)
      /\ refused' = [refused EXCEPT ![p] = @ \ {e}]
      /\ UNCHANGED <<deployed, stream, group, phase, ready, lanes, running, retiring,
                     began, ended, cause, starts>>
  BY DEF Refuse, history
<1>3. e \in batch[p] /\ ~Allows(p, e[2])
  BY <1>1, <1>2 DEF BatchOk
<1>4. /\ refused'[p] = refused[p] \ {e}
      /\ \A q \in Pairs \ {p} : refused'[q] = refused[q]
  BY <1>1, <1>2 DEF Typed
<1>5. Typed'
  <2>1. pending' \in [Pairs -> SUBSET Entries] /\ faults' \in 0 .. MaxFaults
    BY <1>1, <1>2, AcknowledgeTyped
  <2>2. /\ batch' \in [Pairs -> SUBSET Entries]
        /\ reader' \in [Pairs -> {"off", "reading", "holding"}]
    BY <1>1, <1>2 DEF BatchWithout, Typed
  <2>3. refused' \in [Pairs -> SUBSET Entries]
    BY <1>1, <1>2 DEF Typed
  <2>. QED
    BY <1>1, <1>2, <2>1, <2>2, <2>3 DEF Typed
<1>6. /\ refused'[p] \subseteq {x \in batch[p] \ {e} : ~Allows(p, x[2])}
      /\ (batch[p] \ {e}) \ refused'[p] = batch[p] \ refused[p]
  BY <1>1, <1>2, <1>4 DEF BatchOk
<1>7. \A s : /\ AtWork(s)' = AtWork(s) /\ Work(s)' = Work(s)
             /\ ToSet(lanes'[s].queue) = ToSet(lanes[s].queue)
  BY <1>2 DEF AtWork, Work
<1>8. (batch[p] \ {e}) \ refused'[p] =
          {x \in ToSet(lanes'[p[1]].queue) \cup AtWork(p[1])' : x[1] = p[2]}
  BY <1>1, <1>6, <1>7 DEF BatchOk
<1>9. /\ WellDeployed' /\ DeployedKept /\ StreamsOk' /\ CausesOk' /\ PhasesOk'
      /\ StreamsGrow /\ \A q \in Pairs : Given(q)' = Given(q)
      /\ \A q \in Pairs : GroupOk(q)' /\ BatchOk(q)'
  BY <1>2, <1>3, <1>4, <1>5, <1>6, <1>7, <1>8, LetGo
<1>10. ASSUME NEW s \in Subscriptions PROVE LaneOk(s)' /\ WorkOk(s)'
  <2>1. LaneOk(s) /\ WorkOk(s)
    BY DEF RInv
  <2>2. LaneOk(s)'
    BY <1>2, <2>1, LaneSame
  <2>. QED
    BY <1>1, <1>5, <1>7, <1>9, <2>1, <2>2, WorkKept
<1>. QED
  BY <1>5, <1>9, <1>10 DEF RInv

LEMMA RetireKeeps ==
    ASSUME RInv, NEW s \in Subscriptions, NEW e \in Entries, Retire(s, e) PROVE RInv'
<1>. DEFINE p == <<s, e[1]>>  max == MaxInFlight[s]  new == L!Delivered(lanes[s], max)
<1>1. /\ WellDeployed /\ Typed /\ StreamsOk /\ LaneOk(s) /\ WorkOk(s) /\ max \in Nat
      /\ p \in Pairs /\ BatchOk(p) /\ p[1] = s /\ p[2] = e[1]
  BY DeploymentAssumption DEF RInv, Pairs, Entries
<1>2. /\ e \in retiring[s] /\ Acknowledge(p, e) /\ BatchWithout(p, e)
      /\ retiring' = [retiring EXCEPT ![s] = @ \ {e}]
      /\ lanes' = [lanes EXCEPT ![s] = new]
      /\ UNCHANGED <<deployed, stream, group, phase, ready, running, refused, began,
                     ended, cause, starts>>
  BY DEF Retire, history
<1>. HIDE DEF p, max, new
<1>3. /\ LaneKept(lanes[s], max) /\ IsFiniteSet(AtWork(s))
      /\ lanes[s].inFlight = Cardinality(AtWork(s))
      /\ lanes[s].inFlight \in Nat /\ lanes[s].inFlight <= max
  BY <1>1 DEF LaneKept, LaneOk, Typed, L!LaneState, max
<1>4. /\ IsFiniteSet(AtWork(s) \ {e}) /\ e \in AtWork(s)
      /\ Cardinality(AtWork(s) \ {e}) = lanes[s].inFlight - 1 /\ lanes[s].inFlight > 0
  <2>1. e \in AtWork(s)
    BY <1>2 DEF AtWork
  <2>2. /\ IsFiniteSet(AtWork(s) \ {e})
        /\ Cardinality(AtWork(s) \ {e}) = Cardinality(AtWork(s)) - 1
    BY <1>3, <2>1, FS_RemoveElement
  <2>3. Cardinality(AtWork(s)) # 0
    BY <1>3, <2>1, FS_EmptySet
  <2>. QED
    BY <1>3, <2>1, <2>2, <2>3
<1>5. /\ LaneKept(new, max) /\ new.queue = lanes[s].queue
      /\ new.inFlight = lanes[s].inFlight - 1
  BY <1>1, <1>3, <1>4, DeliveredLane DEF new
<1>6. new \in L!LaneState
  BY <1>5 DEF LaneKept
<1>7. /\ lanes'[s] = new /\ retiring'[s] = retiring[s] \ {e}
      /\ \A t \in Subscriptions : t # s => lanes'[t] = lanes[t] /\ retiring'[t] = retiring[t]
  BY <1>1, <1>2 DEF Typed
<1>8. Typed'
  <2>1. pending' \in [Pairs -> SUBSET Entries] /\ faults' \in 0 .. MaxFaults
    BY <1>1, <1>2, AcknowledgeTyped
  <2>2. /\ batch' \in [Pairs -> SUBSET Entries]
        /\ reader' \in [Pairs -> {"off", "reading", "holding"}]
    BY <1>1, <1>2 DEF BatchWithout, Typed
  <2>3. /\ retiring' \in [Subscriptions -> SUBSET Entries]
        /\ lanes' \in [Subscriptions -> L!LaneState]
    BY <1>1, <1>2, <1>6 DEF Typed
  <2>. QED
    BY <1>1, <1>2, <2>1, <2>2, <2>3 DEF Typed
<1>9. /\ e \in ended[s] /\ e \notin running[s] /\ e \notin ToSet(lanes[s].queue)
      /\ AtWork(s)' = AtWork(s) \ {e}
      /\ \A t \in Subscriptions : t # s => AtWork(t)' = AtWork(t)
  <2>1. e \in ended[s] /\ e \notin running[s] /\ e \in ToSet(began[s])
    BY <1>1, <1>2 DEF LaneOk
  <2>2. e \notin ToSet(lanes[s].queue)
    BY <1>1, <2>1, WorkDistinct
  <2>. QED
    BY <1>2, <1>7, <2>1, <2>2 DEF AtWork
<1>10. \A t \in Subscriptions : Work(t)' = Work(t)
  BY <1>2, <1>5, <1>7 DEF Work
<1>11. e \in batch[p] /\ e \notin refused[p]
  BY <1>1, <1>4 DEF BatchOk
<1>12. /\ refused'[p] \subseteq {x \in batch[p] \ {e} : ~Allows(p, x[2])}
       /\ (batch[p] \ {e}) \ refused'[p] =
              {x \in ToSet(lanes'[p[1]].queue) \cup AtWork(p[1])' : x[1] = p[2]}
  <2>1. batch[p] \ refused[p] = {x \in ToSet(lanes[s].queue) \cup AtWork(s) : x[1] = e[1]}
    BY <1>1 DEF BatchOk
  <2>2. (batch[p] \ {e}) \ refused[p] =
            {x \in ToSet(lanes[s].queue) \cup (AtWork(s) \ {e}) : x[1] = e[1]}
    BY <1>9, <2>1
  <2>3. /\ ToSet(lanes'[p[1]].queue) = ToSet(lanes[s].queue)
        /\ AtWork(p[1])' = AtWork(s) \ {e}
    BY <1>1, <1>5, <1>7, <1>9
  <2>4. refused[p] \subseteq {x \in batch[p] : ~Allows(p, x[2])} /\ refused'[p] = refused[p]
    BY <1>1, <1>2 DEF BatchOk
  <2>. QED
    BY <1>1, <1>11, <2>2, <2>3, <2>4
<1>13. ASSUME NEW q \in Pairs \ {p}
       PROVE  /\ refused'[q] = refused[q]
              /\ \A x : x[1] = q[2] =>
                    (x \in ToSet(lanes'[q[1]].queue) \cup AtWork(q[1])'
                       <=> x \in ToSet(lanes[q[1]].queue) \cup AtWork(q[1]))
  <2>1. q = <<q[1], q[2]>> /\ q[1] \in Subscriptions
    BY DEF Pairs
  <2>2. CASE q[1] = s
    <3>1. q[2] # e[1]
      BY <2>1, <2>2 DEF p
    <3>2. /\ ToSet(lanes'[q[1]].queue) = ToSet(lanes[q[1]].queue)
          /\ AtWork(q[1])' = AtWork(q[1]) \ {e}
      BY <1>5, <1>7, <1>9, <2>2
    <3>. QED
      BY <1>2, <3>1, <3>2
  <2>3. CASE q[1] # s
    BY <1>2, <1>7, <1>9, <2>1, <2>3
  <2>. QED
    BY <2>2, <2>3
<1>14. /\ WellDeployed' /\ DeployedKept /\ StreamsOk' /\ CausesOk' /\ PhasesOk'
       /\ StreamsGrow /\ \A q \in Pairs : Given(q)' = Given(q)
       /\ \A q \in Pairs : GroupOk(q)' /\ BatchOk(q)'
  BY <1>1, <1>2, <1>8, <1>9, <1>11, <1>12, <1>13, LetGo
<1>15. ASSUME NEW t \in Subscriptions PROVE LaneOk(t)' /\ WorkOk(t)'
  <2>1. LaneOk(t) /\ WorkOk(t)
    BY DEF RInv
  <2>2. LaneOk(t)'
    <3>1. CASE t = s
      <4>1. lanes'[s].scheduled = L!Due(lanes'[s], max)
        BY <1>5, <1>7 DEF LaneKept
      <4>2. lanes'[s].inFlight = Cardinality(AtWork(s)') /\ lanes'[s].inFlight <= max
        BY <1>1, <1>3, <1>4, <1>5, <1>7, <1>9
      <4>. QED
        BY <1>1, <1>2, <1>4, <1>7, <1>9, <3>1, <4>1, <4>2 DEF LaneOk, max
    <3>2. CASE t # s
      BY <1>2, <1>7, <2>1, <3>2, LaneSame
    <3>. QED
      BY <3>1, <3>2
  <2>. QED
    BY <1>1, <1>8, <1>10, <1>14, <2>1, <2>2, WorkKept
<1>. QED
  BY <1>8, <1>14, <1>15 DEF RInv

LEMMA CrashKeeps == ASSUME RInv, NEW h \in Hosts, Crash(h) PROVE RInv'
<1>. DEFINE Dies(s) == s \in SubscriptionsOf(h)
<1>1. WellDeployed /\ Typed /\ h \in Roles /\ faults \in Nat
  BY DEF RInv, WellDeployed, HostsApart, Typed
<1>2. /\ faults < MaxFaults /\ faults' = faults + 1
      /\ phase' = [phase EXCEPT ![h] = "down"] /\ ready' = ready \ ReadersOf(h)
      /\ reader' = [p \in Pairs |-> IF Dies(p[1]) THEN "off" ELSE reader[p]]
      /\ batch' = [p \in Pairs |-> IF Dies(p[1]) THEN {} ELSE batch[p]]
      /\ refused' = [p \in Pairs |-> IF Dies(p[1]) THEN {} ELSE refused[p]]
      /\ lanes' = [s \in Subscriptions |-> IF Dies(s) THEN L!NewLane ELSE lanes[s]]
      /\ running' = [s \in Subscriptions |-> IF Dies(s) THEN {} ELSE running[s]]
      /\ retiring' = [s \in Subscriptions |-> IF Dies(s) THEN {} ELSE retiring[s]]
      /\ UNCHANGED <<deployed, stream, group, pending, began, ended, cause, starts>>
  BY DEF Crash, redis, history
<1>. HIDE DEF Dies
<1>3. /\ L!NewLane \in L!LaneState /\ L!NewLane.queue = <<>> /\ L!NewLane.inFlight = 0
      /\ \A max : L!NewLane.scheduled = L!Due(L!NewLane, max)
  BY EmptySeq DEF L!NewLane, L!LaneState, L!Due
<1>4. Typed'
  <2>1. faults' \in 0 .. MaxFaults
    <3>1. MaxFaults \in Nat
      BY DeploymentAssumption
    <3>. QED
      BY <1>1, <1>2, <3>1
  <2>2. lanes' \in [Subscriptions -> L!LaneState]
    BY <1>1, <1>2, <1>3 DEF Typed
  <2>3. /\ reader' \in [Pairs -> {"off", "reading", "holding"}]
        /\ batch' \in [Pairs -> SUBSET Entries] /\ refused' \in [Pairs -> SUBSET Entries]
        /\ running' \in [Subscriptions -> SUBSET Entries]
        /\ retiring' \in [Subscriptions -> SUBSET Entries]
    BY <1>1, <1>2 DEF Typed
  <2>4. phase' \in [Roles -> {"down", "starting", "running", "stopping"}]
    BY <1>1, <1>2 DEF Typed
  <2>. QED
    BY <1>1, <1>2, <2>1, <2>2, <2>3, <2>4 DEF Typed
<1>5. WellDeployed' /\ DeployedKept
  BY <1>1, <1>2, DeployedFixed DEF DeployedKept
<1>6. StreamsGrow /\ \A p \in Pairs : Given(p)' = Given(p)
  BY <1>1, <1>2, StreamSame
<1>7. StreamsOk' /\ CausesOk'
  BY <1>2, StreamsKept DEF RInv
<1>8. \A g \in Hosts : \A p \in ReadersOf(g) :
          p \in Pairs /\ (Dies(p[1]) <=> g = h)
  BY <1>1, ReaderFacts DEF Dies, WellDeployed, HostsApart
<1>9. PhasesOk'
  <2>1. phase'[h] = "down" /\ \A g \in Hosts : g # h => phase'[g] = phase[g]
    BY <1>1, <1>2 DEF Typed, WellDeployed, HostsApart
  <2>2. \A g \in Hosts : \A p \in ReadersOf(g) :
            reader'[p] = IF g = h THEN "off" ELSE reader[p]
    BY <1>2, <1>8
  <2>3. NoGroup' = NoGroup /\ ready' \subseteq ready /\ group' = group
    BY <1>2 DEF NoGroup
  <2>. QED
    BY <1>5, <2>1, <2>2, <2>3 DEF PhasesOk, RInv, DeployedKept
<1>10. FaultsGrow
  BY <1>1, <1>2 DEF FaultsGrow
<1>11. ASSUME NEW p \in Pairs PROVE GroupOk(p)' /\ BatchOk(p)'
  <2>1. GroupOk(p) /\ BatchOk(p) /\ p[1] \in Subscriptions
    BY DEF RInv, Pairs
  <2>2. GroupOk(p)'
    <3>1. reader'[p] # "off" => p \in AllReaders /\ group[p] # NoGroup
      BY <1>2, <2>1 DEF GroupOk
    <3>. QED
      BY <1>1, <1>2, <1>4, <1>5, <1>6, <2>1, <3>1, GroupKept
  <2>3. IsFiniteSet(pending[p])
    BY <2>1 DEF GroupOk
  <2>4. CASE ~Dies(p[1])
    BY <1>1, <1>2, <1>5, <1>10, <2>1, <2>2, <2>3, <2>4, BatchKept DEF AtWork
  <2>5. CASE Dies(p[1])
    <3>. DEFINE n == ReadCount[p[1]]
    <3>1. /\ reader'[p] = "off" /\ batch'[p] = {} /\ refused'[p] = {}
          /\ pending'[p] = pending[p]
          /\ lanes'[p[1]] = L!NewLane /\ running'[p[1]] = {} /\ retiring'[p[1]] = {}
      BY <1>2, <2>1, <2>5
    <3>2. n \in Nat
      BY <2>1, DeploymentAssumption
    <3>3. Cardinality(pending[p]) <= (faults + 1) * n
      <4>. DEFINE left == pending[p] \ batch[p]
      <4>1. pending[p] = batch[p] \cup left /\ batch[p] \in SUBSET pending[p]
        BY <2>1 DEF BatchOk
      <4>2. IsFiniteSet(left) /\ IsFiniteSet(batch[p])
        BY <2>3, <4>1, FS_Subset
      <4>3. /\ Cardinality(left) <= faults * n /\ Cardinality(batch[p]) <= n
        BY <2>1 DEF BatchOk
      <4>. HIDE DEF left, n
      <4>4. /\ Cardinality(pending[p]) <= Cardinality(batch[p]) + Cardinality(left)
            /\ Cardinality(pending[p]) \in Nat /\ Cardinality(left) \in Nat
            /\ Cardinality(batch[p]) \in Nat
        BY <4>1, <4>2, ApartCount
      <4>5. (faults + 1) * n = faults * n + n /\ faults * n \in Nat
        BY <1>1, <3>2
      <4>. QED
        BY <3>2, <4>3, <4>4, <4>5
    <3>4. Cardinality(pending'[p] \ batch'[p]) <= faults' * n
      BY <1>2, <3>1, <3>3
    <3>5. Cardinality({}) = 0
      BY FS_EmptySet
    <3>6. ToSet(lanes'[p[1]].queue) \cup AtWork(p[1])' = {}
      BY <1>3, <3>1 DEF AtWork, ToSet
    <3>. QED
      BY <2>2, <3>1, <3>2, <3>4, <3>5, <3>6 DEF BatchOk
  <2>. QED
    BY <2>2, <2>4, <2>5
<1>12. ASSUME NEW s \in Subscriptions PROVE LaneOk(s)' /\ WorkOk(s)'
  <2>1. LaneOk(s) /\ WorkOk(s) /\ began'[s] = began[s] /\ ended'[s] = ended[s]
    BY <1>2 DEF RInv
  <2>2. CASE ~Dies(s)
    <3>1. lanes'[s] = lanes[s] /\ running'[s] = running[s] /\ retiring'[s] = retiring[s]
      BY <1>2, <2>2
    <3>2. Work(s)' = Work(s)
      BY <2>1, <3>1 DEF Work
    <3>. QED
      BY <1>1, <1>4, <1>5, <1>6, <2>1, <3>1, <3>2, LaneSame, WorkKept
  <2>3. CASE Dies(s)
    <3>1. lanes'[s] = L!NewLane /\ running'[s] = {} /\ retiring'[s] = {}
      BY <1>2, <2>3
    <3>2. IsFiniteSet({}) /\ Cardinality({}) = 0 /\ AtWork(s)' = {}
      BY <3>1, FS_EmptySet DEF AtWork
    <3>3. MaxInFlight[s] \in Nat
      BY DeploymentAssumption
    <3>4. LaneOk(s)'
      BY <1>3, <2>1, <3>1, <3>2, <3>3 DEF LaneOk
    <3>5. /\ began[s] \in Seq(Entries) /\ Work(s)' = began[s]
          /\ lanes[s].queue \in Seq(Entries)
      <4>1. began[s] \in Seq(Entries)
        BY <1>1 DEF Typed
      <4>2. began[s] \o <<>> = began[s]
        BY <4>1, ConcatEmptySeq
      <4>. QED
        BY <1>1, <1>3, <2>1, <3>1, <4>1, <4>2 DEF Work, Typed, L!LaneState
    <3>. DEFINE b == began[s]  q == lanes[s].queue  w == Work(s)
    <3>6. b \in Seq(Entries) /\ q \in Seq(Entries) /\ w = b \o q /\ Work(s)' = b
      BY <3>5 DEF Work
    <3>. HIDE DEF b, q
    <3>7. DOMAIN b \subseteq DOMAIN w /\ \A i \in DOMAIN b : b[i] = w[i]
      <4>. HIDE DEF w
      <4>1. /\ DOMAIN w = 1 .. Len(b) + Len(q) /\ DOMAIN b = 1 .. Len(b)
            /\ Len(b) \in Nat /\ Len(q) \in Nat /\ \A i \in 1 .. Len(b) : w[i] = b[i]
        BY <3>6, Concat
      <4>. QED
        BY <4>1
    <3>8. \A e \in ToSet(b) : LET p == <<s, e[1]>> IN
              p \in AllReaders' /\ e \in Given(p)' /\ Allows(p, e[2])'
      <4>1. \A e \in ToSet(b) : e \in ToSet(w)
        BY <3>7 DEF ToSet
      <4>2. \A e \in ToSet(b) : LET p == <<s, e[1]>> IN
                p \in AllReaders /\ e \in Given(p) /\ Allows(p, e[2]) /\ p \in Pairs
        BY <1>1, <2>1, <4>1, ReadersArePairs DEF WorkOk
      <4>. QED
        BY <1>5, <1>6, <4>2 DEF DeployedKept
    <3>9. \A r, m, n : Before(r, m, n)' <=> Before(r, m, n)
      BY <1>1, <1>2, StreamSame
    <3>10. (\A i, j \in DOMAIN Work(s) :
               i < j /\ Work(s)[i][1] = Work(s)[j][1]
                 => Before(Work(s)[i][1], Work(s)[i][2], Work(s)[j][2]))'
      BY <2>1, <3>6, <3>7, <3>9 DEF WorkOk
    <3>11. WorkOk(s)'
      BY <3>6, <3>8, <3>10 DEF WorkOk
    <3>. QED
      BY <3>4, <3>11
  <2>. QED
    BY <2>2, <2>3
<1>. QED
  BY <1>4, <1>5, <1>7, <1>9, <1>11, <1>12 DEF RInv

(* A message is appended, at once, to all of one of its paths.             *)
LEMMA AppendKeeps ==
    ASSUME RInv, Typed', NEW m \in Messages, ~Published(m),
           NEW path \in deployed.paths[m], AppendAll(path, m),
           NEW by, by # Nobody => Published(by), cause' = [cause EXCEPT ![m] = by],
           UNCHANGED <<deployed, group, pending, process, began, ended, starts, faults>>
    PROVE  RInv'
<1>1. WellDeployed /\ Typed /\ path \subseteq Routes
  BY DEF RInv, WellDeployed, PathsKnown
<1>2. \A r \in Routes :
          /\ DOMAIN stream[r] = 1 .. Len(stream[r]) /\ Len(stream[r]) \in Nat
          /\ DOMAIN stream'[r] = 1 .. Len(stream'[r]) /\ Len(stream'[r]) \in Nat
          /\ \A i \in 1 .. Len(stream[r]) : stream'[r][i] = stream[r][i]
          /\ r \in path => /\ Len(stream'[r]) = Len(stream[r]) + 1
                           /\ stream'[r][Len(stream[r]) + 1] = m
          /\ r \notin path => Len(stream'[r]) = Len(stream[r])
  <2>. SUFFICES ASSUME NEW r \in Routes
                PROVE  /\ DOMAIN stream[r] = 1 .. Len(stream[r]) /\ Len(stream[r]) \in Nat
                       /\ DOMAIN stream'[r] = 1 .. Len(stream'[r]) /\ Len(stream'[r]) \in Nat
                       /\ \A i \in 1 .. Len(stream[r]) : stream'[r][i] = stream[r][i]
                       /\ r \in path => /\ Len(stream'[r]) = Len(stream[r]) + 1
                                        /\ stream'[r][Len(stream[r]) + 1] = m
                       /\ r \notin path => Len(stream'[r]) = Len(stream[r])
    OBVIOUS
  <2>1. /\ stream[r] \in Seq(Messages)
        /\ stream'[r] = IF r \in path THEN Append(stream[r], m) ELSE stream[r]
    BY <1>1 DEF Typed, AppendAll
  <2>. QED
    BY <2>1
<1>3. StreamsGrow
  BY <1>2 DEF StreamsGrow
<1>4. \A r \in Routes : ToSet(stream[r])' = IF r \in path THEN ToSet(stream[r]) \cup {m}
                                                          ELSE ToSet(stream[r])
  <2>. SUFFICES ASSUME NEW r \in Routes
                PROVE  ToSet(stream[r])' = IF r \in path THEN ToSet(stream[r]) \cup {m}
                                                         ELSE ToSet(stream[r])
    OBVIOUS
  <2>1. CASE r \in path
    <3>1. DOMAIN stream'[r] = DOMAIN stream[r] \cup {Len(stream[r]) + 1}
      BY <1>2, <2>1
    <3>. QED
      BY <1>2, <2>1, <3>1 DEF ToSet
  <2>2. CASE r \notin path
    <3>1. DOMAIN stream'[r] = DOMAIN stream[r]
      BY <1>2, <2>2
    <3>. QED
      BY <1>2, <2>2, <3>1 DEF ToSet
  <2>. QED
    BY <2>1, <2>2
<1>5. /\ \A r \in Routes : m \notin ToSet(stream[r])
      /\ \A n : Published(n) => Published(n)'
  BY <1>4 DEF Published
<1>6. WellDeployed' /\ DeployedKept
  BY <1>1, DeployedFixed DEF DeployedKept
<1>7. StreamsOk'
  <2>1. ASSUME NEW r \in Routes, NEW i \in DOMAIN stream'[r], NEW j \in DOMAIN stream'[r],
               stream'[r][i] = stream'[r][j]
        PROVE  i = j
    <3>1. \A k \in DOMAIN stream[r] : stream[r][k] # m
      BY <1>5 DEF ToSet
    <3>2. \A k \in DOMAIN stream'[r] :
              \/ k \in DOMAIN stream[r] /\ stream'[r][k] = stream[r][k]
              \/ k = Len(stream[r]) + 1 /\ stream'[r][k] = m
      BY <1>2
    <3>. QED
      BY <2>1, <3>1, <3>2 DEF RInv, StreamsOk
  <2>2. ASSUME NEW n \in Messages, Published(n)'
        PROVE  {r \in Routes : n \in ToSet(stream'[r])} \in deployed.paths[n]
    <3>1. CASE n = m
      <4>1. {r \in Routes : n \in ToSet(stream'[r])} = path
        BY <1>1, <1>4, <1>5, <3>1
      <4>. QED
        BY <3>1, <4>1
    <3>2. CASE n # m
      <4>1. {r \in Routes : n \in ToSet(stream'[r])} = {r \in Routes : n \in ToSet(stream[r])}
        BY <1>4, <3>2
      <4>2. Published(n)
        BY <1>4, <2>2, <3>2 DEF Published
      <4>. QED
        BY <4>1, <4>2 DEF RInv, StreamsOk
    <3>. QED
      BY <3>1, <3>2
  <2>. QED
    BY <2>1, <2>2 DEF StreamsOk
<1>8. CausesOk'
  <2>1. ASSUME NEW n \in Messages, NEW c, c = cause'[n], c # Nobody
        PROVE  /\ c = (IF n = m THEN by ELSE cause[n]) /\ Published(c)
               /\ c # m /\ Published(c)'
    <3>1. c = (IF n = m THEN by ELSE cause[n]) /\ Published(c)
      BY <1>1, <2>1 DEF Typed, RInv, CausesOk
    <3>. QED
      BY <1>5, <3>1
  <2>2. ASSUME NEW n \in Messages, NEW c, c = cause'[n], c # Nobody, NEW r \in Routes,
               n \in ToSet(stream'[r]), c \in ToSet(stream'[r])
        PROVE  Before(r, c, n)'
    <3>0. /\ c = (IF n = m THEN by ELSE cause[n]) /\ c # m
      BY <2>1, <2>2
    <3>1. c \in ToSet(stream[r])
      BY <1>4, <2>2, <3>0
    <3>2. CASE n = m
      <4>1. r \in path
        BY <1>4, <1>5, <2>2, <3>2
      <4>2. PICK i \in DOMAIN stream[r] : stream[r][i] = c
        BY <3>1 DEF ToSet
      <4>3. /\ i \in DOMAIN stream'[r] /\ Len(stream[r]) + 1 \in DOMAIN stream'[r]
            /\ i < Len(stream[r]) + 1 /\ stream'[r][i] = c
            /\ stream'[r][Len(stream[r]) + 1] = m
        BY <1>2, <4>1, <4>2
      <4>. QED
        BY <3>2, <4>3 DEF Before
    <3>3. CASE n # m
      <4>1. n \in ToSet(stream[r]) /\ c = cause[n] /\ cause[n] # Nobody
        BY <1>4, <2>2, <3>0, <3>3
      <4>2. Before(r, c, n)
        BY <3>1, <4>1 DEF RInv, CausesOk
      <4>. QED
        BY <1>1, <1>3, <4>2, Grown
    <3>. QED
      BY <3>2, <3>3
  <2>. QED
    BY <2>1, <2>2 DEF CausesOk
<1>9. /\ UNCHANGED <<phase, ready, reader, batch, lanes, running, retiring, refused>>
      /\ FaultsGrow
  BY <1>1 DEF process, Typed, FaultsGrow
<1>10. ASSUME NEW p \in Pairs PROVE Given(p)' = Given(p) /\ GroupOk(p)' /\ BatchOk(p)'
  <2>1. GroupOk(p) /\ BatchOk(p)
    BY DEF RInv
  <2>2. (reader'[p] # "off" => p \in AllReaders /\ group[p] # NoGroup)
        /\ IsFiniteSet(pending[p])
    BY <1>9, <2>1 DEF GroupOk
  <2>3. GroupOk(p)' /\ Given(p)' = Given(p)
    BY <1>1, <1>3, <1>6, <1>9, <2>1, <2>2, GroupKept
  <2>4. BatchOk(p)'
    BY <1>1, <1>6, <1>9, <2>1, <2>2, BatchKept DEF AtWork
  <2>. QED
    BY <2>3, <2>4
<1>11. ASSUME NEW s \in Subscriptions PROVE LaneOk(s)' /\ WorkOk(s)'
  <2>1. LaneOk(s) /\ WorkOk(s)
    BY DEF RInv
  <2>2. LaneOk(s)'
    BY <1>9, <2>1, LaneSame
  <2>3. Work(s)' = Work(s)
    BY <1>9 DEF Work
  <2>. QED
    BY <1>1, <1>3, <1>6, <1>10, <2>1, <2>2, <2>3, WorkKept
<1>12. PhasesOk'
  <2>1. NoGroup' = NoGroup
    BY DEF NoGroup
  <2>. QED
    BY <1>6, <1>9, <2>1 DEF PhasesOk, RInv, DeployedKept
<1>. QED
  BY <1>6, <1>7, <1>8, <1>10, <1>11, <1>12 DEF RInv

LEMMA PublishKeeps ==
    ASSUME RInv, NEW h \in Hosts, NEW m \in Messages, NEW by \in Messages \cup {Nobody},
           Publish(h, m, by)
    PROVE  RInv'
<1>1. /\ WellDeployed /\ Typed /\ m \notin DOMAIN StrayTo /\ ~Published(m)
      /\ TopicOf[m] \in DOMAIN deployed.publishes[h]
      /\ AppendAll(deployed.publishes[h][TopicOf[m]], m)
      /\ cause' = [cause EXCEPT ![m] = by]
      /\ UNCHANGED <<deployed, group, pending, process, began, ended, starts, faults>>
  BY DEF Publish, RInv
<1>2. deployed.publishes[h][TopicOf[m]] \in deployed.paths[m]
  BY <1>1 DEF WellDeployed, PathsKnown
<1>3. by # Nobody => Published(by)
  <2>. SUFFICES ASSUME by # Nobody PROVE Published(by)
    OBVIOUS
  <2>1. PICK s \in SubscriptionsOf(h) : \E r \in Routes : <<r, by>> \in running[s]
    BY DEF Publish
  <2>2. PICK r \in Routes : <<r, by>> \in running[s]
    BY <2>1
  <2>3. s \in Subscriptions
    BY <1>1 DEF WellDeployed, HostsApart
  <2>4. <<r, by>> \in ToSet(Work(s))
    <3>1. LaneOk(s) /\ WorkOk(s) /\ StreamsOk
      BY <2>3 DEF RInv
    <3>. QED
      BY <1>1, <2>2, <2>3, <3>1, WorkDistinct DEF AtWork
  <2>. DEFINE p == <<s, r>>
  <2>5. <<r, by>> \in Given(p) /\ GroupOk(p) /\ p[2] = r
    <3>1. p \in AllReaders /\ <<r, by>> \in Given(p)
      BY <2>3, <2>4 DEF RInv, WorkOk
    <3>2. p \in Pairs
      BY <2>3 DEF Pairs
    <3>. QED
      BY <3>1, <3>2 DEF RInv
  <2>6. PICK i \in group[p].from + 1 .. group[p].cursor : by = stream[r][i]
    BY <2>5 DEF Given
  <2>7. i \in DOMAIN stream[r]
    <3>1. DOMAIN stream[r] = 1 .. Len(stream[r]) /\ Len(stream[r]) \in Nat
      BY <1>1 DEF Typed
    <3>2. group[p] # NoGroup
      BY <2>6 DEF NoGroup
    <3>. QED
      BY <2>5, <2>6, <3>1, <3>2 DEF GroupOk
  <2>. QED
    BY <2>6, <2>7 DEF Published, ToSet
<1>4. Typed'
  <2>1. stream' \in [Routes -> Seq(Messages)]
    BY <1>1 DEF AppendAll, Typed
  <2>2. cause' \in [Messages -> Messages \cup {Nobody}]
    BY <1>1 DEF Typed
  <2>. QED
    BY <1>1, <2>1, <2>2 DEF Typed, process
<1>. QED
  BY <1>1, <1>2, <1>3, <1>4, AppendKeeps

LEMMA StrayKeeps == ASSUME RInv, NEW m \in DOMAIN StrayTo, Stray(m) PROVE RInv'
<1>1. /\ WellDeployed /\ Typed /\ ~Published(m) /\ AppendAll({StrayTo[m]}, m)
      /\ UNCHANGED <<deployed, group, pending, process, began, ended, cause, starts, faults>>
      /\ m \in Messages
  BY DeploymentAssumption DEF Stray, RInv, history
<1>2. {StrayTo[m]} \in deployed.paths[m]
  BY <1>1 DEF WellDeployed, PathsKnown
<1>3. cause' = [cause EXCEPT ![m] = cause[m]] /\ (cause[m] # Nobody => Published(cause[m]))
  BY <1>1 DEF Typed, RInv, CausesOk
<1>4. Typed'
  <2>1. stream' \in [Routes -> Seq(Messages)]
    BY <1>1 DEF AppendAll, Typed
  <2>. QED
    BY <1>1, <2>1 DEF Typed, process
<1>. QED
  BY <1>1, <1>2, <1>3, <1>4, AppendKeeps

LEMMA EnsureGroupKeeps ==
    ASSUME RInv, NEW h \in Hosts, NEW p \in Pairs, EnsureGroup(h, p) PROVE RInv'
<1>1. /\ WellDeployed /\ Typed /\ p \in ReadersOf(h) /\ p[2] \in Routes
      /\ group' = [group EXCEPT ![p] = EnsuredGroup(p)] /\ ready' = ready \cup {p}
      /\ UNCHANGED <<deployed, stream, pending, phase, reader, batch, lanes, running,
                     retiring, refused, began, ended, cause, starts, faults>>
  BY DEF RInv, EnsureGroup, history, Pairs
<1>2. /\ Len(stream[p[2]]) \in Nat /\ group'[p] = EnsuredGroup(p)
      /\ \A q \in Pairs \ {p} : group'[q] = group[q]
  BY <1>1 DEF Typed
<1>3. EnsuredGroup(p) \in [from : Int, cursor : Int] /\ EnsuredGroup(p) # NoGroup
  <2>1. CASE group[p] = NoGroup
    <3>1. EnsuredGroup(p) = [from |-> Len(stream[p[2]]), cursor |-> Len(stream[p[2]])]
      BY <2>1 DEF EnsuredGroup
    <3>2. EnsuredGroup(p).from # NoGroup.from
      BY <1>2, <3>1 DEF NoGroup
    <3>. QED
      BY <1>2, <3>1, <3>2
  <2>2. CASE group[p] # NoGroup
    BY <1>1, <2>2 DEF EnsuredGroup, Typed
  <2>. QED
    BY <2>1, <2>2
<1>4. Typed'
  BY <1>1, <1>3 DEF Typed
<1>5. WellDeployed' /\ DeployedKept
  BY <1>1, DeployedFixed DEF DeployedKept
<1>6. StreamsGrow /\ \A q \in Pairs : group'[q] = group[q] => Given(q)' = Given(q)
  BY <1>1, StreamSame
<1>7. StreamsOk' /\ CausesOk'
  BY <1>1, StreamsKept DEF RInv
<1>8. NoGroup' = NoGroup
  BY DEF NoGroup
<1>9. PhasesOk'
  BY <1>1, <1>2, <1>3, <1>5, <1>8 DEF PhasesOk, RInv, DeployedKept
<1>10. FaultsGrow
  BY <1>1 DEF Typed, FaultsGrow
<1>11. ASSUME NEW q \in Pairs
       PROVE  Given(q) \subseteq Given(q)' /\ GroupOk(q)' /\ BatchOk(q)'
  <2>1. GroupOk(q) /\ BatchOk(q) /\ IsFiniteSet(pending[q])
    BY DEF RInv, GroupOk
  <2>2. BatchOk(q)'
    BY <1>1, <1>5, <1>10, <2>1, BatchKept DEF AtWork
  <2>3. CASE group'[q] = group[q]
    <3>1. reader'[q] # "off" => q \in AllReaders /\ group[q] # NoGroup
      BY <1>1, <2>1 DEF GroupOk
    <3>. QED
      BY <1>1, <1>4, <1>5, <1>6, <2>1, <2>2, <2>3, <3>1, GroupKept
  <2>4. CASE group'[q] # group[q]
    <3>1. q = p /\ group[p] = NoGroup
      BY <1>2, <2>4 DEF EnsuredGroup
    <3>2. /\ group'[p] = [from |-> Len(stream[p[2]]), cursor |-> Len(stream[p[2]])]
          /\ group'[p].from = Len(stream[p[2]]) /\ group'[p].cursor = Len(stream[p[2]])
      BY <1>2, <3>1 DEF EnsuredGroup
    <3>3. Given(p) = {}
      BY <3>1 DEF Given, NoGroup
    <3>4. Given(p)' = {}
      BY <1>2, <3>2 DEF Given
    <3>5. reader'[p] = "off" /\ pending'[p] = {} /\ IsFiniteSet(pending'[p])
      BY <1>1, <2>1, <3>1, <3>3 DEF GroupOk
    <3>6. GroupOk(p)'
      BY <1>1, <1>2, <3>2, <3>4, <3>5 DEF GroupOk
    <3>. QED
      BY <2>2, <3>1, <3>3, <3>4, <3>6
  <2>. QED
    BY <2>3, <2>4
<1>12. ASSUME NEW s \in Subscriptions PROVE LaneOk(s)' /\ WorkOk(s)'
  <2>1. LaneOk(s) /\ WorkOk(s)
    BY DEF RInv
  <2>2. LaneOk(s)'
    BY <1>1, <2>1, LaneSame
  <2>3. Work(s)' = Work(s)
    BY <1>1 DEF Work
  <2>. QED
    BY <1>1, <1>4, <1>5, <1>6, <1>11, <2>1, <2>2, <2>3, WorkKept
<1>. QED
  BY <1>4, <1>5, <1>7, <1>9, <1>11, <1>12 DEF RInv

(* What a group gives out next: entries that come after all it gave.       *)
EntriesOf(p, ms) == {<<p[2], m>> : m \in ToSet(ms)}

LEMMA NextIs ==
    ASSUME RInv, NEW p \in Pairs, reader[p] = "reading",
           NEW ms, ms = NextBatch(p), ms # <<>>
    PROVE  /\ p \in AllReaders /\ group[p] # NoGroup
           /\ group[p].from \in Nat /\ group[p].cursor \in Nat
           /\ group[p].from <= group[p].cursor
           /\ ms \in Seq(Messages) /\ Len(ms) \in 1 .. ReadCount[p[1]]
           /\ group[p].cursor + Len(ms) <= Len(stream[p[2]])
           /\ Len(stream[p[2]]) \in Nat /\ DOMAIN stream[p[2]] = 1 .. Len(stream[p[2]])
           /\ \A i \in 1 .. Len(ms) : ms[i] = stream[p[2]][group[p].cursor + i]
           /\ EntriesOf(p, ms) \subseteq Entries
           /\ EntriesOf(p, ms) = {<<p[2], ms[i]>> : i \in 1 .. Len(ms)}
           /\ IsFiniteSet(EntriesOf(p, ms)) /\ Cardinality(EntriesOf(p, ms)) = Len(ms)
<1>1. /\ GroupOk(p) /\ Typed /\ StreamsOk /\ p[1] \in Subscriptions /\ p[2] \in Routes
  BY DEF RInv, Pairs
<1>. DEFINE c == group[p].cursor  st == stream[p[2]]  max == ReadCount[p[1]]
            n == IF Len(st) - c < max THEN Len(st) - c ELSE max
<1>2. /\ p \in AllReaders /\ group[p] # NoGroup
      /\ group[p].from \in Nat /\ c \in group[p].from .. Len(st)
  BY <1>1 DEF GroupOk
<1>3. st \in Seq(Messages) /\ Len(st) \in Nat /\ DOMAIN st = 1 .. Len(st)
  BY <1>1 DEF Typed
<1>4. max \in Nat /\ max >= 1
  BY <1>1, DeploymentAssumption
<1>5. ms = SubSeq(st, c + 1, c + n)
  BY DEF NextBatch
<1>. HIDE DEF st, max, c
<1>6. c \in Nat /\ n \in 0 .. max /\ c + n <= Len(st)
  BY <1>2, <1>3, <1>4
<1>. HIDE DEF n
<1>7. /\ ms \in Seq(Messages) /\ Len(ms) = n
      /\ \A i \in 1 .. n : ms[i] = st[c + i]
  BY <1>3, <1>5, <1>6
<1>8. n >= 1
  <2>1. Len(ms) # 0
    BY <1>7, EmptySeq
  <2>. QED
    BY <1>6, <1>7, <2>1
<1>9. DOMAIN ms = 1 .. n /\ n \in Nat /\ \A i \in 1 .. n : ms[i] \in Messages
  BY <1>6, <1>7
<1>10. /\ EntriesOf(p, ms) = {<<p[2], ms[i]>> : i \in 1 .. n}
       /\ EntriesOf(p, ms) \subseteq Entries
  BY <1>1, <1>9 DEF EntriesOf, ToSet, Entries
<1>11. \A i, j \in 1 .. n : ms[i] = ms[j] => i = j
  <2>. SUFFICES ASSUME NEW i \in 1 .. n, NEW j \in 1 .. n, ms[i] = ms[j] PROVE i = j
    OBVIOUS
  <2>1. c + i \in DOMAIN st /\ c + j \in DOMAIN st /\ st[c + i] = st[c + j]
    BY <1>3, <1>6, <1>7
  <2>2. c + i = c + j
    BY <1>1, <2>1 DEF StreamsOk, st
  <2>. QED
    BY <1>6, <2>2
<1>12. IsFiniteSet(EntriesOf(p, ms)) /\ Cardinality(EntriesOf(p, ms)) = n
  <2>. DEFINE q == [i \in 1 .. n |-> <<p[2], ms[i]>>]
  <2>1. DOMAIN q = 1 .. n /\ \A i, j \in DOMAIN q : q[i] = q[j] => i = j
    BY <1>11
  <2>2. ToSet(q) = EntriesOf(p, ms)
    BY <1>10 DEF ToSet
  <2>. HIDE DEF q
  <2>. QED
    BY <1>9, <2>1, <2>2, DistinctCount
<1>13. c \in Nat /\ group[p].from <= c
  BY <1>2, <1>3, <1>6
<1>14. /\ Len(ms) \in 1 .. max /\ c + Len(ms) <= Len(st)
       /\ \A i \in 1 .. Len(ms) : ms[i] = st[c + i]
  BY <1>4, <1>6, <1>7, <1>8
<1>15. /\ EntriesOf(p, ms) = {<<p[2], ms[i]>> : i \in 1 .. Len(ms)}
       /\ Cardinality(EntriesOf(p, ms)) = Len(ms)
  BY <1>7, <1>10, <1>12
<1>. QED
  BY <1>2, <1>3, <1>7, <1>10, <1>12, <1>13, <1>14, <1>15 DEF c, st, max

(* After it the group has given out so much more.                          *)
LEMMA GiveOutKeeps ==
    ASSUME RInv, NEW p \in Pairs, reader[p] = "reading",
           NEW ms, ms = NextBatch(p), ms # <<>>, GiveOut(p, EntriesOf(p, ms)),
           UNCHANGED <<deployed, stream, ended>>
    PROVE  /\ group' \in [Pairs -> [from : Int, cursor : Int]]
           /\ pending' \in [Pairs -> SUBSET Entries]
           /\ \A q \in Pairs \ {p} : group'[q] = group[q] /\ pending'[q] = pending[q]
           /\ group'[p] # NoGroup
           /\ Given(p)' = Given(p) \cup EntriesOf(p, ms)
           /\ pending'[p] = pending[p] \cup EntriesOf(p, ms)
           /\ GroupOk(p)'
<1>. DEFINE es == EntriesOf(p, ms)  n == Len(ms)  c == group[p].cursor
            new == [from |-> group[p].from, cursor |-> c + n]
<1>1. /\ GroupOk(p) /\ Typed /\ WellDeployed /\ p[2] \in Routes
  BY DEF RInv, Pairs
<1>2. /\ p \in AllReaders /\ group[p] # NoGroup
      /\ group[p].from \in Nat /\ c \in Nat /\ group[p].from <= c
      /\ n \in Nat /\ c + n <= Len(stream[p[2]]) /\ Len(stream[p[2]]) \in Nat
      /\ \A i \in 1 .. n : ms[i] = stream[p[2]][c + i]
      /\ es \subseteq Entries /\ es = {<<p[2], ms[i]>> : i \in 1 .. n}
      /\ IsFiniteSet(es) /\ Cardinality(es) = n
  BY NextIs
<1>. HIDE DEF es, n
<1>3. /\ group' = [group EXCEPT ![p].cursor = c + n]
      /\ pending' = [pending EXCEPT ![p] = pending[p] \cup es]
  BY <1>2 DEF GiveOut, es
<1>4. group[p] = [from |-> group[p].from, cursor |-> c]
  BY <1>1 DEF Typed
<1>5. group' = [group EXCEPT ![p] = new]
  <2>1. [group[p] EXCEPT !.cursor = c + n] = new
    BY <1>4
  <2>. QED
    BY <1>3, <2>1
<1>6. /\ group'[p] = new /\ new.from = group[p].from /\ new.cursor = c + n
      /\ pending'[p] = pending[p] \cup es
      /\ \A q \in Pairs \ {p} : group'[q] = group[q] /\ pending'[q] = pending[q]
      /\ group' \in [Pairs -> [from : Int, cursor : Int]]
      /\ pending' \in [Pairs -> SUBSET Entries]
  <2>1. /\ new.from = group[p].from /\ new.cursor = c + n
        /\ new \in [from : Int, cursor : Int]
    BY <1>2
  <2>2. /\ group \in [Pairs -> [from : Int, cursor : Int]]
        /\ pending \in [Pairs -> SUBSET Entries]
    BY <1>1 DEF Typed
  <2>. HIDE DEF new
  <2>3. /\ group'[p] = new /\ \A q \in Pairs \ {p} : group'[q] = group[q]
        /\ group' \in [Pairs -> [from : Int, cursor : Int]]
    BY <1>5, <2>1, <2>2
  <2>4. /\ pending'[p] = pending[p] \cup es
        /\ \A q \in Pairs \ {p} : pending'[q] = pending[q]
        /\ pending' \in [Pairs -> SUBSET Entries]
    BY <1>2, <1>3, <2>2
  <2>. QED
    BY <2>1, <2>3, <2>4
<1>7. new # NoGroup
  <2>1. new.from # NoGroup.from
    BY <1>2, <1>6 DEF NoGroup
  <2>. QED
    BY <2>1
<1>. HIDE DEF new
<1>8. Given(p)' = Given(p) \cup es
  <2>. DEFINE st == stream[p[2]]  f == group[p].from
  <2>1. Given(p) = {<<p[2], st[i]>> : i \in f + 1 .. c}
    BY DEF Given
  <2>2. Given(p)' = {<<p[2], st[i]>> : i \in f + 1 .. c + n}
    BY <1>6 DEF Given
  <2>3. /\ \A i \in f + 1 .. c : i \in f + 1 .. c + n
        /\ \A i \in 1 .. n : c + i \in f + 1 .. c + n /\ ms[i] = st[c + i]
        /\ \A i \in f + 1 .. c + n :
              i \notin f + 1 .. c => i - c \in 1 .. n /\ c + (i - c) = i
    <3>1. f \in Nat /\ c \in Nat /\ n \in Nat /\ f <= c
      BY <1>2
    <3>2. \A i \in 1 .. n : ms[i] = st[c + i]
      BY <1>2
    <3>. HIDE DEF st, f, c
    <3>. QED
      BY <3>1, <3>2
  <2>. HIDE DEF st, f
  <2>4. es \subseteq Given(p)' /\ Given(p) \subseteq Given(p)'
    <3>1. es = {<<p[2], ms[i]>> : i \in 1 .. n}
      BY <1>2
    <3>2. \A i \in 1 .. n : c + i \in f + 1 .. c + n /\ ms[i] = st[c + i]
      BY <2>3
    <3>3. \A i \in 1 .. n : <<p[2], ms[i]>> \in Given(p)'
      BY <2>2, <3>2
    <3>4. \A i \in f + 1 .. c : <<p[2], st[i]>> \in Given(p)'
      BY <2>2, <2>3
    <3>. QED
      BY <2>1, <3>1, <3>3, <3>4
  <2>5. ASSUME NEW i \in f + 1 .. c + n PROVE <<p[2], st[i]>> \in Given(p) \cup es
    <3>1. CASE i \in f + 1 .. c
      BY <2>1, <3>1
    <3>2. CASE i \notin f + 1 .. c
      <4>1. i - c \in 1 .. n /\ ms[i - c] = st[i]
        BY <2>3, <3>2
      <4>. QED
        BY <1>2, <4>1
    <3>. QED
      BY <3>1, <3>2
  <2>. QED
    BY <2>2, <2>4, <2>5
<1>9. GroupOk(p)'
  <2>1. /\ group'[p].from \in Nat
        /\ group'[p].cursor \in group'[p].from .. Len(stream'[p[2]])
    BY <1>2, <1>6
  <2>2. IsFiniteSet(pending'[p]) /\ pending'[p] \subseteq Given(p)'
    <3>1. IsFiniteSet(pending[p]) /\ pending[p] \subseteq Given(p)
      BY <1>1 DEF GroupOk
    <3>2. IsFiniteSet(pending[p] \cup es)
      BY <1>2, <3>1, ApartCount
    <3>. QED
      BY <1>6, <1>8, <3>1, <3>2
  <2>3. DeployedKept
    BY <1>1, DeployedFixed
  <2>4. \A e \in Given(p)' \ pending'[p] : e \in ended'[p[1]] \/ ~Allows(p, e[2])'
    BY <1>1, <1>6, <1>8, <2>3 DEF GroupOk, DeployedKept
  <2>5. p \in AllReaders' /\ group'[p] # NoGroup /\ NoGroup' = NoGroup
    BY <1>2, <1>6, <1>7, <2>3 DEF DeployedKept, NoGroup
  <2>. QED
    BY <2>1, <2>2, <2>4, <2>5 DEF GroupOk
<1>. QED
  BY <1>6, <1>7, <1>8, <1>9 DEF es

LEMMA ReadLostKeeps ==
    ASSUME RInv, NEW h \in Hosts, NEW p \in Pairs, ReadLost(h, p) PROVE RInv'
<1>. DEFINE ms == NextBatch(p)  es == EntriesOf(p, ms)  n == ReadCount[p[1]]
<1>1. /\ WellDeployed /\ Typed /\ p \in ReadersOf(h) /\ reader[p] = "reading"
      /\ ms # <<>> /\ GiveOut(p, es)
      /\ reader' = IF phase[h] = "running" THEN reader ELSE [reader EXCEPT ![p] = "off"]
      /\ faults < MaxFaults /\ faults' = faults + 1 /\ faults \in Nat
      /\ UNCHANGED <<deployed, stream, phase, ready, batch, lanes, running, retiring,
                     refused, began, ended, cause, starts>>
  BY DEF RInv, ReadLost, history, EntriesOf, Typed
<1>. HIDE DEF ms, n
<1>2. /\ group' \in [Pairs -> [from : Int, cursor : Int]]
      /\ pending' \in [Pairs -> SUBSET Entries]
      /\ \A q \in Pairs \ {p} : group'[q] = group[q] /\ pending'[q] = pending[q]
      /\ group'[p] # NoGroup
      /\ Given(p)' = Given(p) \cup es /\ pending'[p] = pending[p] \cup es /\ GroupOk(p)'
  BY <1>1, GiveOutKeeps DEF ms
<1>3. IsFiniteSet(es) /\ Cardinality(es) \in 1 .. n /\ n \in Nat
  <2>1. IsFiniteSet(es) /\ Cardinality(es) = Len(ms) /\ Len(ms) \in 1 .. n
    BY <1>1, NextIs DEF ms, n
  <2>2. n \in Nat
    BY DeploymentAssumption DEF n, Pairs
  <2>. QED
    BY <2>1, <2>2
<1>. HIDE DEF es
<1>4. Typed'
  <2>1. faults' \in 0 .. MaxFaults
    <3>1. MaxFaults \in Nat
      BY DeploymentAssumption
    <3>. QED
      BY <1>1, <3>1
  <2>2. reader' \in [Pairs -> {"off", "reading", "holding"}]
    BY <1>1 DEF Typed
  <2>. QED
    BY <1>1, <1>2, <2>1, <2>2 DEF Typed
<1>5. WellDeployed' /\ DeployedKept
  BY <1>1, DeployedFixed DEF DeployedKept
<1>6. StreamsGrow /\ \A q \in Pairs : group'[q] = group[q] => Given(q)' = Given(q)
  BY <1>1, StreamSame
<1>7. StreamsOk' /\ CausesOk'
  BY <1>1, StreamsKept DEF RInv
<1>8. /\ \A q \in Pairs \ {p} : reader'[q] = reader[q]
      /\ reader'[p] = IF phase[h] = "running" THEN "reading" ELSE "off"
  BY <1>1 DEF Typed
<1>9. NoGroup' = NoGroup
  BY DEF NoGroup
<1>10. PhasesOk'
  <2>1. \A q \in ready' : group'[q] # NoGroup
    BY <1>1, <1>2 DEF RInv, PhasesOk, Typed
  <2>2. \A g \in Hosts : \A q \in ReadersOf(g) : q \in Pairs /\ (q = p => g = h)
    BY <1>1, ReaderFacts
  <2>3. phase[h] \notin {"down", "starting"}
    BY <1>1 DEF RInv, PhasesOk
  <2>. QED
    BY <1>1, <1>5, <1>8, <1>9, <2>1, <2>2, <2>3 DEF PhasesOk, RInv, DeployedKept
<1>11. FaultsGrow
  BY <1>1 DEF FaultsGrow
<1>12. ASSUME NEW q \in Pairs, q # p
       PROVE  Given(q)' = Given(q) /\ GroupOk(q)' /\ BatchOk(q)'
  <2>1. GroupOk(q) /\ BatchOk(q) /\ IsFiniteSet(pending[q])
    BY DEF RInv, GroupOk
  <2>2. BatchOk(q)'
    BY <1>1, <1>2, <1>5, <1>8, <1>11, <1>12, <2>1, BatchKept DEF AtWork
  <2>3. reader'[q] # "off" => q \in AllReaders /\ group[q] # NoGroup
    BY <1>8, <1>12, <2>1 DEF GroupOk
  <2>. QED
    BY <1>1, <1>2, <1>4, <1>5, <1>6, <1>12, <2>1, <2>2, <2>3, GroupKept
<1>13. BatchOk(p)'
  <2>. DEFINE left == pending[p] \ batch[p]
  <2>1. GroupOk(p) /\ BatchOk(p)
    BY DEF RInv
  <2>2. batch[p] = {} /\ batch'[p] = {} /\ refused'[p] = refused[p]
    BY <1>1, <2>1 DEF BatchOk
  <2>3. Cardinality(pending[p]) <= faults * n /\ IsFiniteSet(pending[p])
    <3>1. pending[p] \ batch[p] = pending[p]
      BY <2>2
    <3>. QED
      BY <2>1, <3>1 DEF BatchOk, GroupOk, n
  <2>4. /\ Cardinality(pending[p] \cup es) <= Cardinality(pending[p]) + Cardinality(es)
        /\ Cardinality(pending[p] \cup es) \in Nat /\ Cardinality(pending[p]) \in Nat
    BY <1>3, <2>3, ApartCount
  <2>5. (faults + 1) * n = faults * n + n /\ faults * n \in Nat
    BY <1>1, <1>3
  <2>6. Cardinality(pending[p] \cup es) <= (faults + 1) * n
    BY <1>3, <2>3, <2>4, <2>5
  <2>7. Cardinality(pending'[p] \ batch'[p]) <= faults' * n
    <3>1. pending'[p] \ batch'[p] = pending[p] \cup es
      BY <1>2, <2>2
    <3>. QED
      BY <1>1, <2>6, <3>1
  <2>8. Cardinality({}) <= n
    BY <1>3, FS_EmptySet
  <2>9. /\ ToSet(lanes'[p[1]].queue) \cup AtWork(p[1])'
             = ToSet(lanes[p[1]].queue) \cup AtWork(p[1])
        /\ \A e : Allows(p, e[2])' <=> Allows(p, e[2])
    BY <1>1, <1>5 DEF AtWork, DeployedKept
  <2>10. reader'[p] # "holding"
    BY <1>8
  <2>. QED
    BY <2>1, <2>2, <2>7, <2>8, <2>9, <2>10 DEF BatchOk, n
<1>14. ASSUME NEW s \in Subscriptions PROVE LaneOk(s)' /\ WorkOk(s)'
  <2>1. LaneOk(s) /\ WorkOk(s)
    BY DEF RInv
  <2>2. LaneOk(s)'
    BY <1>1, <2>1, LaneSame
  <2>3. Work(s)' = Work(s)
    BY <1>1 DEF Work
  <2>4. \A q \in Pairs : Given(q) \subseteq Given(q)'
    BY <1>2, <1>12
  <2>. QED
    BY <1>1, <1>4, <1>5, <1>6, <2>1, <2>2, <2>3, <2>4, WorkKept
<1>. QED
  BY <1>2, <1>4, <1>5, <1>7, <1>10, <1>12, <1>13, <1>14 DEF RInv

LEMMA ReadKeeps ==
    ASSUME RInv, NEW h \in Hosts, NEW p \in Pairs, Read(h, p) PROVE RInv'
<1>. DEFINE ms == NextBatch(p)  es == EntriesOf(p, ms)  n == ReadCount[p[1]]
            s == p[1]  r == p[2]  max == MaxInFlight[s]  q == lanes[s].queue
            new == EnqueueAll(p, ms)  c == group[p].cursor
<1>1. /\ WellDeployed /\ Typed /\ StreamsOk /\ p \in ReadersOf(h) /\ reader[p] = "reading"
      /\ ms # <<>> /\ GiveOut(p, es)
      /\ reader' = [reader EXCEPT ![p] = "holding"] /\ batch' = [batch EXCEPT ![p] = es]
      /\ lanes' = [lanes EXCEPT ![s] = new]
      /\ refused' = [refused EXCEPT ![p] = {e \in es : ~Allows(p, e[2])}]
      /\ faults \in Nat
      /\ UNCHANGED <<deployed, stream, phase, ready, running, retiring,
                     began, ended, cause, starts, faults>>
  BY DEF RInv, Read, history, EntriesOf, Typed
<1>2. /\ s \in Subscriptions /\ r \in Routes /\ GroupOk(p) /\ BatchOk(p)
      /\ LaneOk(s) /\ WorkOk(s)
  BY DEF RInv, Pairs
<1>. HIDE DEF ms, n, new
<1>3. /\ group' \in [Pairs -> [from : Int, cursor : Int]]
      /\ pending' \in [Pairs -> SUBSET Entries]
      /\ \A o \in Pairs \ {p} : group'[o] = group[o] /\ pending'[o] = pending[o]
      /\ group'[p] # NoGroup
      /\ Given(p)' = Given(p) \cup es /\ pending'[p] = pending[p] \cup es /\ GroupOk(p)'
  BY <1>1, GiveOutKeeps DEF ms
<1>4. /\ p \in AllReaders /\ group[p].from \in Nat /\ c \in Nat
      /\ ms \in Seq(Messages) /\ Len(ms) \in 1 .. n /\ c + Len(ms) <= Len(stream[r])
      /\ Len(stream[r]) \in Nat /\ DOMAIN stream[r] = 1 .. Len(stream[r])
      /\ \A i \in 1 .. Len(ms) : ms[i] = stream[r][c + i]
      /\ es \subseteq Entries /\ es = {<<r, ms[i]>> : i \in 1 .. Len(ms)}
      /\ IsFiniteSet(es) /\ Cardinality(es) = Len(ms)
  BY <1>1, NextIs DEF ms, n
<1>. HIDE DEF es, c
<1>4a. \A e : e \in es <=> \E i \in 1 .. Len(ms) : e = <<r, ms[i]>>
  <2>1. es = {<<r, ms[i]>> : i \in 1 .. Len(ms)}
    BY <1>4
  <2>. QED
    BY <2>1
<1>4b. \A e \in es : e[1] = r
  BY <1>4a
<1>4c. n \in Nat /\ Len(ms) \in Nat /\ Len(ms) >= 1 /\ Len(ms) <= n
  <2>1. n \in Nat
    BY <1>2, DeploymentAssumption DEF n
  <2>2. Len(ms) \in 1 .. n
    BY <1>4
  <2>. QED
    BY <2>1, <2>2
<1>4d. \A i \in 1 .. Len(ms) : c + i \in DOMAIN stream[r] /\ stream[r][c + i] = ms[i]
  <2>1. /\ c \in Nat /\ c + Len(ms) <= Len(stream[r]) /\ Len(stream[r]) \in Nat
        /\ DOMAIN stream[r] = 1 .. Len(stream[r])
    BY <1>4
  <2>2. \A i \in 1 .. Len(ms) : ms[i] = stream[r][c + i]
    BY <1>4
  <2>. HIDE DEF r
  <2>. QED
    BY <1>4c, <2>1, <2>2
<1>5. n \in Nat /\ es # {}
  <2>1. 1 \in 1 .. Len(ms)
    BY <1>4c
  <2>2. <<r, ms[1]>> \in es
    BY <1>4a, <2>1
  <2>. QED
    BY <1>4c, <2>2
<1>6. LaneKept(lanes[s], max)
  BY <1>1, <1>2 DEF LaneKept, LaneOk, Typed
<1>7. FedFirst(p, ms, Len(ms), lanes[s], new)
  BY <1>4, <1>6, EnqueueAllQueues DEF new
<1>8. PICK tail \in Seq(Entries) : \E rank \in [1 .. Len(tail) -> 1 .. Len(ms)] :
          /\ new.queue = q \o tail
          /\ \A i, j \in 1 .. Len(tail) : i < j => rank[i] < rank[j]
          /\ \A i \in 1 .. Len(tail) : tail[i] = <<r, ms[rank[i]]>> /\ Allows(p, ms[rank[i]])
          /\ \A k \in 1 .. Len(ms) : Allows(p, ms[k]) => \E i \in 1 .. Len(tail) : rank[i] = k
  BY <1>7 DEF FedFirst
<1>9. PICK rank \in [1 .. Len(tail) -> 1 .. Len(ms)] :
          /\ new.queue = q \o tail
          /\ \A i, j \in 1 .. Len(tail) : i < j => rank[i] < rank[j]
          /\ \A i \in 1 .. Len(tail) : tail[i] = <<r, ms[rank[i]]>> /\ Allows(p, ms[rank[i]])
          /\ \A k \in 1 .. Len(ms) : Allows(p, ms[k]) => \E i \in 1 .. Len(tail) : rank[i] = k
  BY <1>8
<1>10. /\ LaneKept(new, max) /\ new.inFlight = lanes[s].inFlight
       /\ new \in L!LaneState
  BY <1>7 DEF FedFirst, LaneKept
<1>11. /\ q \in Seq(Entries) /\ began[s] \in Seq(Entries)
       /\ lanes'[s] = new /\ \A t \in Subscriptions : t # s => lanes'[t] = lanes[t]
       /\ batch'[p] = es /\ \A o \in Pairs \ {p} : batch'[o] = batch[o]
       /\ refused'[p] = {e \in es : ~Allows(p, e[2])}
       /\ \A o \in Pairs \ {p} : refused'[o] = refused[o]
       /\ reader'[p] = "holding" /\ \A o \in Pairs \ {p} : reader'[o] = reader[o]
  BY <1>1, <1>2 DEF Typed, L!LaneState
<1>12. Typed'
  <2>1. lanes' \in [Subscriptions -> L!LaneState]
    BY <1>1, <1>10 DEF Typed
  <2>2. /\ reader' \in [Pairs -> {"off", "reading", "holding"}]
        /\ batch' \in [Pairs -> SUBSET Entries] /\ refused' \in [Pairs -> SUBSET Entries]
    BY <1>1, <1>4 DEF Typed
  <2>. QED
    BY <1>1, <1>3, <2>1, <2>2 DEF Typed
<1>13. WellDeployed' /\ DeployedKept
  BY <1>1, DeployedFixed DEF DeployedKept
<1>14. StreamsGrow /\ \A o \in Pairs : group'[o] = group[o] => Given(o)' = Given(o)
  BY <1>1, StreamSame
<1>15. StreamsOk' /\ CausesOk'
  BY <1>1, StreamsKept DEF RInv
<1>16. NoGroup' = NoGroup /\ FaultsGrow
  BY <1>1 DEF NoGroup, FaultsGrow
<1>17. PhasesOk'
  <2>1. \A o \in ready' : group'[o] # NoGroup
    BY <1>1, <1>3 DEF RInv, PhasesOk, Typed
  <2>2. \A g \in Hosts : \A o \in ReadersOf(g) : o \in Pairs /\ (o = p => g = h)
    BY <1>1, ReaderFacts
  <2>3. phase[h] \notin {"down", "starting"}
    BY <1>1 DEF RInv, PhasesOk
  <2>. QED
    BY <1>1, <1>11, <1>13, <1>16, <2>1, <2>2, <2>3 DEF PhasesOk, RInv, DeployedKept
(* What is queued of the batch is what is allowed of it.                   *)
<1>18. ToSet(tail) = {e \in es : Allows(p, e[2])}
  <2>1. ASSUME NEW i \in 1 .. Len(tail) PROVE tail[i] \in es /\ Allows(p, tail[i][2])
    <3>1. rank[i] \in 1 .. Len(ms) /\ tail[i] = <<r, ms[rank[i]]>> /\ Allows(p, ms[rank[i]])
      BY <1>9
    <3>. QED
      BY <1>4a, <3>1
  <2>2. ASSUME NEW e \in es, Allows(p, e[2]) PROVE e \in ToSet(tail)
    <3>1. PICK k \in 1 .. Len(ms) : e = <<r, ms[k]>>
      BY <1>4a
    <3>2. PICK i \in 1 .. Len(tail) : rank[i] = k
      BY <1>9, <2>2, <3>1
    <3>3. tail[i] = e /\ i \in DOMAIN tail
      BY <1>9, <3>1, <3>2
    <3>. QED
      BY <3>3 DEF ToSet
  <2>3. DOMAIN tail = 1 .. Len(tail)
    OBVIOUS
  <2>. QED
    BY <2>1, <2>2, <2>3 DEF ToSet
<1>19. ToSet(new.queue) = ToSet(q) \cup ToSet(tail)
  BY <1>9, <1>11, Concat
<1>20. ASSUME NEW o \in Pairs, o # p
       PROVE  Given(o)' = Given(o) /\ GroupOk(o)' /\ BatchOk(o)'
  <2>1. GroupOk(o) /\ BatchOk(o) /\ IsFiniteSet(pending[o]) /\ o[1] \in Subscriptions
    BY DEF RInv, GroupOk, Pairs
  <2>2. \A e : e[1] = o[2] =>
           (e \in ToSet(lanes'[o[1]].queue) \cup AtWork(o[1])'
              <=> e \in ToSet(lanes[o[1]].queue) \cup AtWork(o[1]))
    <3>1. AtWork(o[1])' = AtWork(o[1])
      BY <1>1 DEF AtWork
    <3>2. CASE o[1] # s
      BY <1>11, <2>1, <3>1, <3>2
    <3>3. CASE o[1] = s
      <4>1. o[2] # r
        BY <1>20, <3>3 DEF Pairs
      <4>2. \A e \in ToSet(tail) : e[1] = r
        BY <1>4b, <1>18
      <4>3. ToSet(lanes'[o[1]].queue) = ToSet(lanes[o[1]].queue) \cup ToSet(tail)
        BY <1>11, <1>19, <3>3
      <4>. QED
        BY <3>1, <4>1, <4>2, <4>3
    <3>. QED
      BY <3>2, <3>3
  <2>3. reader'[o] # "off" => o \in AllReaders /\ group[o] # NoGroup
    BY <1>11, <1>20, <2>1 DEF GroupOk
  <2>4. Given(o)' = Given(o) /\ GroupOk(o)'
    BY <1>1, <1>3, <1>12, <1>13, <1>14, <1>20, <2>1, <2>3, GroupKept
  <2>5. BatchOk(o)'
    <3>1. /\ reader'[o] = reader[o] /\ batch'[o] = batch[o] /\ refused'[o] = refused[o]
          /\ pending'[o] = pending[o]
      BY <1>3, <1>11, <1>20
    <3>. QED
      BY <1>1, <1>13, <1>16, <2>1, <2>2, <3>1, BatchKept
  <2>. QED
    BY <2>4, <2>5
<1>21. BatchOk(p)'
  <2>1. batch[p] = {} /\ refused[p] = {}
    BY <1>1, <1>2 DEF BatchOk
  <2>2. {e \in ToSet(q) \cup AtWork(s) : e[1] = r} = {}
    BY <1>2, <2>1 DEF BatchOk
  <2>3. Cardinality(pending'[p] \ batch'[p]) <= faults' * n
    <3>1. pending'[p] \ batch'[p] \in SUBSET pending[p]
      BY <1>3, <1>11
    <3>2. IsFiniteSet(pending[p]) /\ Cardinality(pending[p]) <= faults * n
      <4>1. pending[p] \ batch[p] = pending[p]
        BY <2>1
      <4>. QED
        BY <1>2, <4>1 DEF BatchOk, GroupOk, n
    <3>3. /\ Cardinality(pending'[p] \ batch'[p]) <= Cardinality(pending[p])
          /\ Cardinality(pending'[p] \ batch'[p]) \in Nat /\ Cardinality(pending[p]) \in Nat
      BY <3>1, <3>2, FS_Subset, FS_CardinalityType
    <3>4. faults * n \in Nat /\ faults' = faults
      BY <1>1, <1>5
    <3>. QED
      BY <3>2, <3>3, <3>4
  <2>4. es \ {e \in es : ~Allows(p, e[2])} = ToSet(tail)
    BY <1>18
  <2>5. {e \in ToSet(new.queue) \cup AtWork(s) : e[1] = r} = ToSet(tail)
    <3>1. \A e \in ToSet(tail) : e[1] = r
      BY <1>4b, <1>18
    <3>. QED
      BY <1>19, <2>2, <3>1
  <2>6. lanes'[p[1]].queue = new.queue /\ AtWork(p[1])' = AtWork(s)
    BY <1>1, <1>11 DEF AtWork
  <2>7. Cardinality(es) <= n
    <3>1. Cardinality(es) = Len(ms)
      BY <1>4
    <3>. QED
      BY <1>4c, <3>1
  <2>8. es \subseteq pending'[p]
    BY <1>3
  <2>9. \A e : Allows(p, e[2])' <=> Allows(p, e[2])
    BY <1>13 DEF DeployedKept
  <2>. QED
    BY <1>5, <1>11, <2>3, <2>4, <2>5, <2>6, <2>7, <2>8, <2>9 DEF BatchOk, n
<1>22. LaneOk(s)'
  <2>1. AtWork(s)' = AtWork(s) /\ lanes'[s].scheduled = L!Due(lanes'[s], max)
    BY <1>1, <1>10, <1>11 DEF AtWork, LaneKept
  <2>. QED
    BY <1>1, <1>2, <1>10, <1>11, <2>1 DEF LaneOk
(* The new entries come after whatever of the stream was given before.     *)
<1>23. WorkOk(s)'
  <2>. DEFINE w == Work(s)  b == began[s]
  <2>1. Work(s) \in Seq(Entries) /\ Work(s)' = Work(s) \o tail
    <3>1. b \o (q \o tail) = (b \o q) \o tail /\ b \o q \in Seq(Entries)
      <4>1. b \in Seq(Entries) /\ q \in Seq(Entries)
        BY <1>11
      <4>. HIDE DEF b, q
      <4>. QED
        BY <4>1, ConcatTwice, Concat
    <3>2. Work(s)' = b \o (q \o tail)
      BY <1>1, <1>9, <1>11 DEF Work
    <3>3. Work(s) = b \o q
      BY DEF Work
    <3>. HIDE DEF b, q
    <3>. QED
      BY <3>1, <3>2, <3>3
  <2>. HIDE DEF w
  <2>2. /\ Len(w) \in Nat /\ Len(tail) \in Nat /\ DOMAIN w = 1 .. Len(w)
        /\ DOMAIN Work(s)' = 1 .. Len(w) + Len(tail)
        /\ \A i \in 1 .. Len(w) : Work(s)'[i] = w[i]
        /\ \A i \in 1 .. Len(tail) : Work(s)'[Len(w) + i] = tail[i]
        /\ ToSet(Work(s)') = ToSet(w) \cup ToSet(tail)
    BY <2>1, Concat DEF w
  <2>3. \A e \in ToSet(w) : LET o == <<s, e[1]>> IN
            o \in AllReaders /\ o \in Pairs /\ e \in Given(o) /\ Allows(o, e[2])
    BY <1>1, <1>2, ReadersArePairs DEF WorkOk, w
  <2>4. \A e \in ToSet(tail) : <<s, e[1]>> = p /\ e \in es /\ Allows(p, e[2])
    <3>1. p = <<s, r>>
      BY DEF Pairs
    <3>. QED
      BY <1>4b, <1>18, <3>1
  <2>5. \A e \in ToSet(Work(s)') : LET o == <<s, e[1]>> IN
            o \in AllReaders' /\ e \in Given(o)' /\ Allows(o, e[2])'
    <3>1. \A o \in Pairs : Given(o) \subseteq Given(o)'
      BY <1>3, <1>20
    <3>2. p \in AllReaders /\ es \subseteq Given(p)'
      BY <1>3, <1>4
    <3>3. AllReaders' = AllReaders /\ \A o, m : Allows(o, m)' <=> Allows(o, m)
      BY <1>13 DEF DeployedKept
    <3>. QED
      BY <2>2, <2>3, <2>4, <3>1, <3>2, <3>3
  <2>6. ASSUME NEW x, NEW y, NEW i \in 1 .. Len(w) + Len(tail),
               NEW j \in 1 .. Len(w) + Len(tail), i < j,
               x = Work(s)'[i], y = Work(s)'[j], x[1] = y[1]
        PROVE  Before(x[1], x[2], y[2])
    <3>1. CASE j \in 1 .. Len(w)
      <4>1. i \in 1 .. Len(w) /\ x = w[i] /\ y = w[j]
        BY <2>2, <2>6, <3>1
      <4>2. i \in DOMAIN w /\ j \in DOMAIN w /\ w[i][1] = w[j][1]
        BY <2>2, <2>6, <3>1, <4>1
      <4>3. \A k, l \in DOMAIN w :
                k < l /\ w[k][1] = w[l][1] => Before(w[k][1], w[k][2], w[l][2])
        BY <1>2 DEF WorkOk, w
      <4>. QED
        BY <2>6, <4>1, <4>2, <4>3
    <3>2. CASE j \notin 1 .. Len(w)
      <4>1. PICK k \in 1 .. Len(tail) : j = Len(w) + k /\ y = tail[k]
        <5>1. j - Len(w) \in 1 .. Len(tail) /\ j = Len(w) + (j - Len(w))
          BY <2>2, <3>2
        <5>. QED
          BY <2>2, <2>6, <5>1
      <4>2. y = <<r, ms[rank[k]]>> /\ rank[k] \in 1 .. Len(ms)
        BY <1>9, <4>1
      <4>3. /\ c + rank[k] \in DOMAIN stream[r] /\ stream[r][c + rank[k]] = y[2]
            /\ y[1] = r /\ rank[k] \in Nat /\ rank[k] >= 1 /\ c \in Nat
        <5>1. c \in Nat
          BY <1>4
        <5>2. rank[k] \in Nat /\ rank[k] >= 1
          BY <1>4c, <4>2
        <5>. QED
          BY <1>4d, <4>2, <5>1, <5>2
      <4>4. CASE i \in 1 .. Len(w)
        <5>1. x \in ToSet(w) /\ x[1] = r
          BY <2>2, <2>6, <4>3, <4>4 DEF ToSet
        <5>2. x \in Given(p)
          BY <2>3, <5>1 DEF Pairs
        <5>3. PICK l \in group[p].from + 1 .. c : x = <<r, stream[r][l]>>
          BY <5>2 DEF Given, c
        <5>4. l \in DOMAIN stream[r] /\ l < c + rank[k] /\ stream[r][l] = x[2]
          <6>1. /\ group[p].from \in Nat /\ c \in Nat /\ c + Len(ms) <= Len(stream[r])
                /\ Len(stream[r]) \in Nat /\ DOMAIN stream[r] = 1 .. Len(stream[r])
            BY <1>4
          <6>2. l \in Nat /\ l >= 1 /\ l <= c
            BY <5>3, <6>1
          <6>3. rank[k] \in Nat /\ rank[k] >= 1 /\ Len(ms) \in Nat
            BY <1>4c, <4>3
          <6>4. l \in 1 .. Len(stream[r]) /\ l < c + rank[k]
            BY <6>1, <6>2, <6>3
          <6>. QED
            BY <5>3, <6>1, <6>4
        <5>. QED
          BY <4>3, <5>1, <5>4 DEF Before
      <4>5. CASE i \notin 1 .. Len(w)
        <5>1. PICK l \in 1 .. Len(tail) : i = Len(w) + l /\ x = tail[l]
          <6>1. i - Len(w) \in 1 .. Len(tail) /\ i = Len(w) + (i - Len(w))
            BY <2>2, <4>5
          <6>. QED
            BY <2>2, <2>6, <6>1
        <5>2. l < k
          BY <2>2, <2>6, <4>1, <5>1
        <5>3. x = <<r, ms[rank[l]]>> /\ rank[l] \in 1 .. Len(ms) /\ rank[l] < rank[k]
          BY <1>9, <5>1, <5>2
        <5>4. /\ c + rank[l] \in DOMAIN stream[r] /\ stream[r][c + rank[l]] = x[2]
              /\ x[1] = r /\ c + rank[l] < c + rank[k]
          <6>1. rank[l] \in Nat
            BY <1>4c, <5>3
          <6>2. c + rank[l] < c + rank[k]
            BY <4>3, <5>3, <6>1
          <6>. QED
            BY <1>4d, <5>3, <6>2
        <5>. QED
          BY <4>3, <5>4 DEF Before
      <4>. QED
        BY <4>4, <4>5
    <3>. QED
      BY <3>1, <3>2
  <2>7. \A a, m, k : Before(a, m, k)' <=> Before(a, m, k)
    BY <1>1, StreamSame
  <2>8. (\A i, j \in DOMAIN Work(s) :
             i < j /\ Work(s)[i][1] = Work(s)[j][1]
               => Before(Work(s)[i][1], Work(s)[i][2], Work(s)[j][2]))'
    BY <2>2, <2>6, <2>7
  <2>. QED
    BY <2>5, <2>8 DEF WorkOk
<1>24. ASSUME NEW t \in Subscriptions, t # s PROVE LaneOk(t)' /\ WorkOk(t)'
  <2>1. LaneOk(t) /\ WorkOk(t)
    BY DEF RInv
  <2>2. LaneOk(t)'
    BY <1>1, <1>11, <1>24, <2>1, LaneSame
  <2>3. Work(t)' = Work(t)
    BY <1>1, <1>11, <1>24 DEF Work
  <2>4. \A o \in Pairs : Given(o) \subseteq Given(o)'
    BY <1>3, <1>20
  <2>. QED
    BY <1>1, <1>12, <1>13, <1>14, <2>1, <2>2, <2>3, <2>4, WorkKept
<1>. QED
  BY <1>3, <1>12, <1>13, <1>15, <1>17, <1>20, <1>21, <1>22, <1>23, <1>24 DEF RInv

-----------------------------------------------------------------------------
(* The invariant, by actions.                                              *)
LEMMA RStep == RInv /\ [Next]_vars => RInv'
<1>. SUFFICES ASSUME RInv, [Next]_vars PROVE RInv'
  OBVIOUS
<1>1. ASSUME NEW h \in Hosts, StartBegins(h) PROVE RInv'
  BY <1>1, StartBeginsKeeps
<1>2. ASSUME NEW h \in Hosts, StartEnds(h) PROVE RInv'
  BY <1>2, StartEndsKeeps
<1>3. ASSUME NEW h \in Hosts, StopBegins(h) PROVE RInv'
  BY <1>3, StopBeginsKeeps
<1>4. ASSUME NEW h \in Hosts, StopEnds(h) PROVE RInv'
  BY <1>4, StopEndsKeeps
<1>5. ASSUME NEW h \in Hosts, Crash(h) PROVE RInv'
  BY <1>5, CrashKeeps
<1>6. ASSUME NEW h \in Hosts, NEW p \in Pairs, EnsureGroup(h, p) PROVE RInv'
  BY <1>6, EnsureGroupKeeps
<1>7. ASSUME NEW h \in Hosts, NEW p \in Pairs, ReadTimesOut(h, p) PROVE RInv'
  BY <1>7, ReadTimesOutKeeps
<1>8. ASSUME NEW h \in Hosts, NEW p \in Pairs, Read(h, p) PROVE RInv'
  BY <1>8, ReadKeeps
<1>9. ASSUME NEW h \in Hosts, NEW p \in Pairs, ReadLost(h, p) PROVE RInv'
  BY <1>9, ReadLostKeeps
<1>10. ASSUME NEW h \in Hosts, NEW m \in Messages, NEW by \in Messages \cup {Nobody},
              Publish(h, m, by)
       PROVE  RInv'
  BY <1>10, PublishKeeps
<1>11. ASSUME NEW m \in DOMAIN StrayTo, Stray(m) PROVE RInv'
  BY <1>11, StrayKeeps
<1>12. ASSUME NEW s \in Subscriptions, PumpRuns(s) PROVE RInv'
  BY <1>12, PumpKeeps
<1>13. ASSUME NEW s \in Subscriptions, NEW e \in Entries, HandlerEnds(s, e) PROVE RInv'
  BY <1>13, HandlerEndsKeeps
<1>14. ASSUME NEW s \in Subscriptions, NEW e \in Entries, Retire(s, e) PROVE RInv'
  BY <1>14, RetireKeeps
<1>15. ASSUME NEW p \in Pairs, NEW e \in Entries, Refuse(p, e) PROVE RInv'
  BY <1>15, RefuseKeeps
<1>16. ASSUME UNCHANGED vars PROVE RInv'
  BY <1>16, StutterKeeps
<1>. QED
  BY <1>1, <1>2, <1>3, <1>4, <1>5, <1>6, <1>7, <1>8, <1>9, <1>10, <1>11, <1>12, <1>13,
     <1>14, <1>15, <1>16 DEF Next

LEMMA RAlways == Spec => []RInv
  BY RInitially, RStep, PTL DEF Spec

-----------------------------------------------------------------------------
(* What follows from the invariant.                                        *)

LEMMA TypesHold == RInv => TypeOK
<1>. SUFFICES ASSUME RInv PROVE TypeOK
  OBVIOUS
<1>1. Typed
  BY DEF RInv
<1>2. ASSUME NEW p \in Pairs
      PROVE  /\ \/ group[p] = NoGroup
                \/ /\ group[p].from \in Nat
                   /\ group[p].cursor \in group[p].from .. Len(stream[p[2]])
             /\ pending[p] \subseteq Entries
             /\ reader[p] \in {"off", "reading", "holding"}
             /\ batch[p] \subseteq Entries /\ Cardinality(batch[p]) <= ReadCount[p[1]]
             /\ refused[p] \subseteq batch[p]
  <2>1. GroupOk(p) /\ BatchOk(p)
    BY DEF RInv
  <2>. QED
    BY <1>1, <2>1 DEF Typed, GroupOk, BatchOk
<1>3. ASSUME NEW s \in Subscriptions
      PROVE  /\ lanes[s] \in L!LaneState
             /\ lanes[s].inFlight = Cardinality(running[s] \cup retiring[s])
             /\ lanes[s].inFlight <= MaxInFlight[s]
             /\ began[s] \in Seq(Entries) /\ ended[s] \subseteq ToSet(began[s])
  <2>1. LaneOk(s)
    BY DEF RInv
  <2>. QED
    BY <1>1, <2>1 DEF Typed, LaneOk, AtWork
<1>. QED
  BY <1>1, <1>2, <1>3 DEF Typed, TypeOK

(* What a group gave out is in its stream.                                 *)
LEMMA GivenListed ==
    ASSUME Typed, NEW p \in Pairs, GroupOk(p), NEW e \in Given(p)
    PROVE  e[1] = p[2] /\ e[2] \in ToSet(stream[p[2]])
<1>1. stream[p[2]] \in Seq(Messages)
  BY DEF Typed, Pairs
<1>2. PICK i \in group[p].from + 1 .. group[p].cursor : e = <<p[2], stream[p[2]][i]>>
  BY DEF Given
<1>3. group[p] # NoGroup
  <2>. SUFFICES ASSUME group[p] = NoGroup PROVE FALSE
    OBVIOUS
  <2>1. group[p].from = -1 /\ group[p].cursor = -1
    BY DEF NoGroup
  <2>. QED
    BY <1>2, <2>1
<1>4. /\ group[p].from \in Nat /\ group[p].cursor \in Nat
      /\ group[p].cursor <= Len(stream[p[2]])
  BY <1>1, <1>3 DEF GroupOk
<1>5. i \in 1 .. Len(stream[p[2]])
  BY <1>1, <1>2, <1>4
<1>. QED
  BY <1>1, <1>2, <1>5 DEF ToSet

LEMMA AllowsStrays == RInv => OnlyStraysRefused
<1>. SUFFICES ASSUME RInv, NEW p \in AllReaders, NEW e \in refused[p],
                     e[2] \notin DOMAIN StrayTo
              PROVE  FALSE
  BY DEF OnlyStraysRefused
<1>1. Typed /\ StreamsOk /\ WellDeployed
  BY DEF RInv
<1>2. p \in Pairs /\ p[2] \in Routes /\ GroupOk(p) /\ BatchOk(p)
  BY <1>1, ReadersArePairs DEF RInv, Pairs
<1>3. e \in Given(p) /\ ~Allows(p, e[2]) /\ e \in Entries
  BY <1>1, <1>2 DEF BatchOk, GroupOk, Typed
<1>5. e[2] \in ToSet(stream[p[2]])
  BY <1>1, <1>2, <1>3, GivenListed
<1>6. e[2] \in Messages /\ Published(e[2])
  BY <1>2, <1>3, <1>5 DEF Entries, Published
<1>. DEFINE path == {r \in Routes : e[2] \in ToSet(stream[r])}
<1>7. path \in deployed.paths[e[2]]
  BY <1>1, <1>6 DEF StreamsOk
<1>8. p[2] \in path
  BY <1>2, <1>5
<1>. HIDE DEF path
<1>9. \A other \in deployed.paths[e[2]] : p[2] \in other => Allows(p, e[2])
  BY <1>1, <1>6 DEF WellDeployed, RoutesShared
<1>. QED
  BY <1>3, <1>7, <1>8, <1>9

LEMMA OneRoute == RInv => ReachesOnce
<1>. SUFFICES ASSUME RInv, NEW h \in Hosts, NEW s \in SubscriptionsOf(h),
                     NEW m \in Messages \ DOMAIN StrayTo,
                     Published(m), TopicOf[m] \in Selected(Catalog, s)
              PROVE  Cardinality({r \in Routes : /\ m \in ToSet(stream[r])
                                                 /\ <<s, r>> \in AllReaders}) = 1
  BY DEF ReachesOnce
<1>. DEFINE path == {r \in Routes : m \in ToSet(stream[r])}
<1>1. path \in deployed.paths[m]
  BY DEF RInv, StreamsOk
<1>2. PICK r \in path : /\ <<s, r>> \in AllReaders
                        /\ \A q \in path : <<s, q>> \in AllReaders => q = r
  BY <1>1 DEF RInv, WellDeployed, RoutesShared
<1>3. {q \in Routes : m \in ToSet(stream[q]) /\ <<s, q>> \in AllReaders} = {r}
  BY <1>2
<1>. QED
  BY <1>3, FS_Singleton

LEMMA Accounted == RInv => AllIsAccounted
<1>. SUFFICES ASSUME RInv PROVE AllIsAccounted
  OBVIOUS
<1>1. AllReaders \subseteq Pairs
  BY ReadersArePairs DEF RInv
<1>2. AckedIsHandled
  BY <1>1 DEF RInv, GroupOk, AckedIsHandled
<1>3. PendingIsHeld
  BY <1>1 DEF RInv, BatchOk, PendingIsHeld
<1>. QED
  BY <1>2, <1>3, TypesHold, AllowsStrays, OneRoute DEF AllIsAccounted

(* Whatever the manifest, the limits and the faults: a publication reaches *)
(* each subscription on one route, an entry leaves Redis only when it is   *)
(* handled, and a fault leaves at most a batch of them behind.             *)
THEOREM EveryEntryAccounted == Spec => []AllIsAccounted
  BY RAlways, Accounted, PTL

(* What a lane holds is in the batch of the reader of its route.           *)
LEMMA HeldIsBatched ==
    ASSUME RInv, NEW h \in Hosts, NEW s \in SubscriptionsOf(h),
           NEW e \in ToSet(lanes[s].queue) \cup AtWork(s)
    PROVE  LET p == <<s, e[1]>> IN
           p \in ReadersOf(h) /\ p \in Pairs /\ e \in batch[p] \ refused[p]
<1>. DEFINE p == <<s, e[1]>>
<1>1. WellDeployed /\ Typed /\ StreamsOk /\ s \in Subscriptions
  BY DEF RInv, WellDeployed, HostsApart
<1>2. LaneOk(s) /\ WorkOk(s)
  BY <1>1 DEF RInv
<1>3. e \in ToSet(Work(s))
  BY <1>1, <1>2, WorkDistinct
<1>4. p \in AllReaders
  BY <1>2, <1>3 DEF WorkOk
<1>5. PICK g \in Hosts : p \in ReadersOf(g)
  BY <1>4 DEF AllReaders
<1>6. s \in SubscriptionsOf(g) /\ p \in Pairs /\ p[1] = s /\ p[2] = e[1]
  BY <1>1, <1>5, ReaderFacts
<1>7. g = h
  BY <1>1, <1>6 DEF WellDeployed, HostsApart
<1>8. BatchOk(p)
  BY <1>6 DEF RInv
<1>. QED
  BY <1>5, <1>6, <1>7, <1>8 DEF BatchOk

LEMMA DownIsClean == RInv => StopIsClean
<1>. SUFFICES ASSUME RInv, NEW h \in Hosts, phase[h] = "down", NEW s \in SubscriptionsOf(h)
              PROVE  /\ lanes[s] = L!NewLane /\ running[s] = {} /\ retiring[s] = {}
                     /\ \A p \in ReadersOf(h) : reader[p] = "off" /\ batch[p] = {}
  BY DEF StopIsClean
<1>1. WellDeployed /\ Typed /\ PhasesOk /\ s \in Subscriptions
  BY DEF RInv, WellDeployed, HostsApart
<1>2. \A p \in ReadersOf(h) : reader[p] = "off" /\ batch[p] = {}
  <2>1. \A p \in ReadersOf(h) : reader[p] = "off" /\ p \in Pairs
    BY <1>1, ReaderFacts DEF PhasesOk
  <2>. QED
    BY <2>1 DEF RInv, BatchOk
<1>3. ToSet(lanes[s].queue) = {} /\ AtWork(s) = {}
  BY <1>2, HeldIsBatched
<1>4. /\ lanes[s] \in L!LaneState /\ lanes[s].scheduled = L!Due(lanes[s], MaxInFlight[s])
      /\ lanes[s].inFlight = Cardinality(AtWork(s)) /\ lanes[s].queue \in Seq(Entries)
  BY <1>1 DEF RInv, Typed, LaneOk, L!LaneState
<1>5. lanes[s].queue = <<>> /\ lanes[s].inFlight = 0
  <2>1. lanes[s].queue = <<>>
    <3>. DEFINE q == lanes[s].queue
    <3>1. q \in Seq(Entries) /\ DOMAIN q = {}
      BY <1>3, <1>4 DEF ToSet
    <3>. HIDE DEF q
    <3>2. DOMAIN q = 1 .. Len(q) /\ Len(q) \in Nat
      BY <3>1
    <3>3. Len(q) = 0
      <4>. SUFFICES ASSUME Len(q) # 0 PROVE FALSE
        OBVIOUS
      <4>1. 1 \in 1 .. Len(q)
        BY <3>2
      <4>. QED
        BY <3>1, <3>2, <4>1
    <3>4. q = <<>>
      BY <3>1, <3>3, EmptySeq
    <3>. QED
      BY <3>4 DEF q
  <2>. QED
    BY <1>3, <1>4, <2>1, FS_EmptySet
<1>6. lanes[s] = L!NewLane
  <2>1. lanes[s].scheduled = FALSE
    BY <1>4, <1>5 DEF L!Due
  <2>. QED
    BY <1>4, <1>5, <2>1 DEF L!LaneState, L!NewLane
<1>. QED
  BY <1>2, <1>3, <1>6 DEF AtWork

(* A host that is down has nothing queued, at work or held.                *)
THEOREM StoppedIsClean == Spec => []StopIsClean
  BY RAlways, DownIsClean, PTL

-----------------------------------------------------------------------------
(* One route, one order.                                                   *)

LEMMA NotBothBefore ==
    ASSUME StreamsOk, Typed, NEW r \in Routes, NEW m, NEW n,
           Before(r, m, n), Before(r, n, m)
    PROVE  FALSE
<1>1. PICK i, j \in DOMAIN stream[r] : i < j /\ stream[r][i] = m /\ stream[r][j] = n
  BY DEF Before
<1>2. PICK k, l \in DOMAIN stream[r] : k < l /\ stream[r][k] = n /\ stream[r][l] = m
  BY DEF Before
<1>3. i = l /\ j = k
  BY <1>1, <1>2 DEF StreamsOk
<1>4. DOMAIN stream[r] = 1 .. Len(stream[r]) /\ Len(stream[r]) \in Nat
  BY DEF Typed
<1>. QED
  BY <1>1, <1>2, <1>3, <1>4

(* What begins or is queued after an entry is not its cause.               *)
LEMMA CauseIsNotAfter ==
    ASSUME RInv, NEW s \in Subscriptions, NEW i \in DOMAIN Work(s), NEW j \in DOMAIN Work(s),
           i < j
    PROVE  Work(s)[j] # <<Work(s)[i][1], cause[Work(s)[i][2]]>>
<1>. DEFINE w == Work(s)  r == w[i][1]  m == w[i][2]
<1>. SUFFICES ASSUME w[j] = <<r, cause[m]>> PROVE FALSE
  OBVIOUS
<1>1. WellDeployed /\ Typed /\ StreamsOk /\ CausesOk /\ LaneOk(s) /\ WorkOk(s)
  BY DEF RInv
<1>2. w \in Seq(Entries)
  BY <1>1, WorkDistinct
<1>3. w[i] \in Entries /\ w[j] \in Entries
  BY <1>2
<1>4. r \in Routes /\ m \in Messages /\ cause[m] \in Messages /\ w[j][1] = r /\ w[j][2] = cause[m]
  BY <1>3 DEF Entries
<1>5. Before(r, m, cause[m])
  BY <1>1, <1>4 DEF WorkOk
<1>6. cause[m] # Nobody
  BY <1>4, DeploymentAssumption
<1>7. m \in ToSet(stream[r]) /\ cause[m] \in ToSet(stream[r])
  BY <1>5 DEF Before, ToSet
<1>8. Before(r, cause[m], m)
  BY <1>1, <1>4, <1>6, <1>7 DEF CausesOk
<1>. QED
  BY <1>1, <1>4, <1>5, <1>8, NotBothBefore

LEMMA CauseFirstHolds == RInv => CauseFirst
<1>. SUFFICES ASSUME RInv, NEW s \in Subscriptions, NEW i \in DOMAIN began[s],
                     MaxInFlight[s] = 1
              PROVE  <<began[s][i][1], cause[began[s][i][2]]>>
                        \notin ToSet(lanes[s].queue) \cup (running[s] \ {began[s][i]})
                                 \cup {began[s][j] : j \in i + 1 .. Len(began[s])}
  BY DEF CauseFirst
<1>. DEFINE b == began[s]  q == lanes[s].queue  w == Work(s)
            before == <<b[i][1], cause[b[i][2]]>>
<1>1. WellDeployed /\ Typed /\ StreamsOk /\ LaneOk(s) /\ WorkOk(s)
  BY DEF RInv
<1>2. b \in Seq(Entries) /\ q \in Seq(Entries)
  BY <1>1, WorkDistinct
<1>3. w = b \o q
  BY DEF Work
<1>4. \A k, l \in DOMAIN w : k < l => w[l] # <<w[k][1], cause[w[k][2]]>>
  BY CauseIsNotAfter
<1>5. \A e \in running[s] : e = b[Len(b)]
  BY <1>1 DEF LaneOk
<1>6. i \in DOMAIN b
  OBVIOUS
<1>. HIDE DEF b, q, w
<1>7. /\ Len(b) \in Nat /\ Len(q) \in Nat /\ DOMAIN b = 1 .. Len(b) /\ DOMAIN q = 1 .. Len(q)
      /\ DOMAIN w = 1 .. Len(b) + Len(q)
      /\ \A k \in 1 .. Len(b) : w[k] = b[k]
      /\ \A k \in 1 .. Len(q) : w[Len(b) + k] = q[k]
  BY <1>2, <1>3, Concat
<1>8. \A j \in i + 1 .. Len(b) : b[j] # before
  <2>1. \A j \in i + 1 .. Len(b) : j \in DOMAIN w /\ i \in DOMAIN w /\ i < j
                                   /\ w[j] = b[j] /\ w[i] = b[i]
    BY <1>6, <1>7
  <2>. QED
    BY <1>4, <2>1
<1>9. \A k \in 1 .. Len(q) : q[k] # before
  <2>1. \A k \in 1 .. Len(q) : /\ Len(b) + k \in DOMAIN w /\ i \in DOMAIN w /\ i < Len(b) + k
                               /\ w[Len(b) + k] = q[k] /\ w[i] = b[i]
    BY <1>6, <1>7
  <2>. QED
    BY <1>4, <2>1
<1>10. \A e \in running[s] \ {b[i]} : e # before
  <2>1. ASSUME NEW e \in running[s] \ {b[i]} PROVE Len(b) \in i + 1 .. Len(b) /\ e = b[Len(b)]
    <3>1. e = b[Len(b)] /\ Len(b) # i
      BY <1>5
    <3>. QED
      BY <1>6, <1>7, <3>1
  <2>. QED
    BY <1>8, <2>1
<1>. QED
  BY <1>7, <1>8, <1>9, <1>10 DEF ToSet, b, q

(* One at a time, a subscription is done with a message, or has lost it,   *)
(* before it begins what that message's handler published.                 *)
THEOREM CausesComeFirst == Spec => []CauseFirst
  BY RAlways, CauseFirstHolds, PTL

-----------------------------------------------------------------------------
(* Rest.                                                                   *)

(* A reader has a batch to come if its stream goes on.                     *)
LEMMA MoreToRead ==
    ASSUME Typed, NEW p \in Pairs, NextBatch(p) = <<>>, group[p].cursor \in Nat,
           group[p].cursor <= Len(stream[p[2]])
    PROVE  group[p].cursor = Len(stream[p[2]])
<1>. DEFINE q == stream[p[2]]  c == group[p].cursor  n == ReadCount[p[1]]  left == Len(q) - c
            k == IF left < n THEN left ELSE n
<1>1. q \in Seq(Messages) /\ Len(q) \in Nat /\ c \in Nat /\ c <= Len(q)
  BY DEF Typed, Pairs
<1>2. n \in Nat /\ n >= 1
  BY DeploymentAssumption DEF Pairs
<1>3. NextBatch(p) = SubSeq(q, c + 1, c + k)
  BY DEF NextBatch
<1>. HIDE DEF q, c, n
<1>4. left \in Nat /\ k \in Nat /\ k <= left /\ (left # 0 => k # 0)
  BY <1>1, <1>2
<1>. HIDE DEF k
<1>5. Len(SubSeq(q, c + 1, c + k)) = k
  BY <1>1, <1>4
<1>6. k = 0
  <2>1. SubSeq(q, c + 1, c + k) = <<>>
    BY <1>3
  <2>. QED
    BY <1>5, <2>1
<1>. QED
  BY <1>1, <1>4, <1>6 DEF q, c

LEMMA RestIsDoneHolds == RInv => RestIsDone
<1>. SUFFICES ASSUME RInv, NEW h \in Hosts, NEW s \in SubscriptionsOf(h),
                     phase[h] = "running", AtRest(s), faults = 0,
                     NEW e \in Backlog(s)
              PROVE  FALSE
  BY DEF RestIsDone
<1>. DEFINE p == <<s, e[1]>>
<1>1. WellDeployed /\ Typed /\ PhasesOk /\ s \in Subscriptions
  BY DEF RInv, WellDeployed, HostsApart
<1>2. PICK i \in group[p].from + 1 .. Len(stream[e[1]]) : stream[e[1]][i] = e[2]
  BY DEF Backlog
<1>3. /\ e \in Entries /\ Allows(p, e[2]) /\ e \notin ended[s] /\ group[p] # NoGroup
      /\ p \in Pairs /\ p[1] = s /\ p[2] = e[1] /\ e = <<e[1], e[2]>> /\ e[2] \in Messages
  BY <1>1 DEF Backlog, Pairs, Entries
<1>4. p \in ReadersOf(h) /\ HostOf(s) = h
  <2>1. p \in AllReaders
    BY <1>1, <1>3 DEF WellDeployed, BoundRead
  <2>2. PICK g \in Hosts : p \in ReadersOf(g)
    BY <2>1 DEF AllReaders
  <2>3. s \in SubscriptionsOf(g) /\ HostOf(s) = g
    BY <1>1, <1>3, <2>2, ReaderFacts
  <2>4. g = h
    BY <1>1, <2>3 DEF WellDeployed, HostsApart
  <2>. QED
    BY <2>2, <2>3, <2>4
<1>5. /\ ~lanes[s].scheduled /\ AtWork(s) = {} /\ refused[p] = {}
      /\ reader[p] = "reading" => NextBatch(p) = <<>>
  BY <1>3, <1>4 DEF AtRest, AtWork
<1>6. GroupOk(p) /\ BatchOk(p) /\ LaneOk(s)
  BY <1>1, <1>3 DEF RInv
<1>7. ToSet(lanes[s].queue) = {}
  <2>1. lanes[s].inFlight = 0
    BY <1>5, <1>6, FS_EmptySet DEF LaneOk
  <2>2. MaxInFlight[s] \in Nat \ {0}
    BY <1>1, DeploymentAssumption
  <2>3. lanes[s].queue = <<>>
    <3>1. ~L!Due(lanes[s], MaxInFlight[s])
      BY <1>5, <1>6 DEF LaneOk
    <3>. QED
      BY <2>1, <2>2, <3>1 DEF L!Due
  <2>. QED
    BY <2>3 DEF ToSet
<1>8. batch[p] = {}
  <2>1. batch[p] \ refused[p] = {}
    BY <1>3, <1>5, <1>6, <1>7 DEF BatchOk
  <2>. QED
    BY <1>5, <2>1
<1>9. reader[p] = "reading"
  <2>1. reader[p] # "holding"
    BY <1>6, <1>8 DEF BatchOk
  <2>. QED
    BY <1>1, <1>3, <1>4, <2>1 DEF PhasesOk, Typed
<1>10. pending[p] = {}
  <2>1. /\ Cardinality(pending[p] \ batch[p]) <= faults * ReadCount[p[1]]
        /\ IsFiniteSet(pending[p])
    BY <1>6 DEF BatchOk, GroupOk
  <2>2. faults * ReadCount[p[1]] = 0
    <3>1. ReadCount[p[1]] \in Nat
      BY <1>3, <1>1, DeploymentAssumption
    <3>. QED
      BY <3>1
  <2>3. Cardinality(pending[p]) = 0
    <3>1. Cardinality(pending[p]) \in Nat
      BY <2>1, FS_CardinalityType
    <3>2. pending[p] \ batch[p] = pending[p]
      BY <1>8
    <3>3. Cardinality(pending[p]) <= 0
      BY <2>1, <2>2, <3>2
    <3>. QED
      BY <3>1, <3>3
  <2>. QED
    BY <2>1, <2>3, FS_EmptySet
<1>11. /\ group[p].from \in Nat /\ group[p].cursor \in Nat
       /\ group[p].cursor = Len(stream[p[2]])
  <2>1. /\ group[p].from \in Nat /\ group[p].cursor \in Nat
        /\ group[p].cursor <= Len(stream[p[2]])
    <3>1. Len(stream[p[2]]) \in Nat
      BY <1>1, <1>3 DEF Typed, Pairs
    <3>. QED
      BY <1>3, <1>6, <3>1 DEF GroupOk
  <2>. QED
    BY <1>1, <1>3, <1>5, <1>9, <2>1, MoreToRead
<1>12. e \in Given(p)
  BY <1>2, <1>3, <1>11 DEF Given
<1>. QED
  BY <1>3, <1>6, <1>10, <1>12 DEF GroupOk

(* A host that comes to rest without a fault has handled everything that   *)
(* was appended for it.                                                    *)
THEOREM RestingIsDone == Spec => []RestIsDone
  BY RAlways, RestIsDoneHolds, PTL

-----------------------------------------------------------------------------
(* What the carrier promises.                                              *)

(* The promise speaks of the same sets and prefixes.                       *)
LEMMA SameWords ==
    /\ \A q : Promised!ToSet(q) = ToSet(q)
    /\ \A S : Promised!Cardinality(S) = Cardinality(S)
    /\ \A a, b : Promised!IsStrictPrefix(a, b) <=> IsStrictPrefix(a, b)
<1>1. \A q : Promised!ToSet(q) = ToSet(q)
  BY DEF ToSet, Promised!ToSet
<1>2. \A S : Promised!Cardinality(S) = Cardinality(S)
  BY DEF Cardinality, Promised!Cardinality
<1>3. \A a, b : Promised!IsStrictPrefix(a, b) <=> IsStrictPrefix(a, b)
  BY DEF IsStrictPrefix, Promised!IsStrictPrefix, IsPrefix, Promised!IsPrefix
<1>. QED
  BY <1>1, <1>2, <1>3

LEMMA PositionIs ==
    ASSUME StreamsOk, NEW e \in Entries, NEW i \in DOMAIN stream[e[1]],
           stream[e[1]][i] = e[2]
    PROVE  Promised!Position(e) = i
  BY DEF StreamsOk, Entries, Promised!Position

(* What has begun and what is queued, up to any place, in the order of the *)
(* logs and each for its subscription.                                     *)
LEMMA WorkInOrder ==
    ASSUME RInv, NEW s \in Subscriptions, NEW b \in Seq(Entries), NEW rest \in Seq(Entries),
           Work(s) = b \o rest
    PROVE  Promised!InOrder(s, b)
<1>. DEFINE w == Work(s)
<1>1. WellDeployed /\ Typed /\ StreamsOk /\ WorkOk(s)
  BY DEF RInv
<1>2. b \in Seq(Entries) /\ rest \in Seq(Entries) /\ w = b \o rest
  OBVIOUS
<1>. HIDE DEF w
<1>3. /\ DOMAIN b = 1 .. Len(b) /\ Len(b) \in Nat
      /\ \A i \in DOMAIN b : i \in DOMAIN w /\ w[i] = b[i] /\ b[i] \in Entries
  BY <1>2, Concat
<1>4. ASSUME NEW i \in DOMAIN b
      PROVE  /\ b[i][2] \in ToSet(stream[b[i][1]])
             /\ b[i][1] \in Routes /\ b[i][2] \in Messages
             /\ TopicOf[b[i][2]] \in Selected(Catalog, s)
  <2>. DEFINE e == b[i]  p == <<s, e[1]>>
  <2>1. e \in Entries /\ e \in ToSet(w)
    BY <1>3 DEF ToSet
  <2>2. /\ p \in AllReaders /\ e \in Given(p) /\ Allows(p, e[2])
    BY <1>1, <2>1 DEF WorkOk, w
  <2>3. e[1] \in Routes /\ e[2] \in Messages /\ p \in Pairs
    BY <2>1 DEF Entries, Pairs
  <2>4. TopicOf[e[2]] \in Selected(Catalog, s)
    BY <1>1, <2>2, <2>3 DEF WellDeployed, RoutesShared
  <2>5. e[2] \in ToSet(stream[e[1]])
    <3>1. GroupOk(p) /\ p[2] = e[1]
      BY <2>3 DEF RInv
    <3>. QED
      BY <1>1, <2>2, <2>3, <3>1, GivenListed
  <2>. QED
    BY <2>3, <2>4, <2>5
<1>5. ASSUME NEW i \in DOMAIN b, NEW j \in DOMAIN b, i < j, b[i][1] = b[j][1]
      PROVE  Promised!Position(b[i]) < Promised!Position(b[j])
  <2>1. Before(b[i][1], b[i][2], b[j][2])
    BY <1>1, <1>3, <1>5 DEF WorkOk, w
  <2>2. PICK k, l \in DOMAIN stream[b[i][1]] :
            k < l /\ stream[b[i][1]][k] = b[i][2] /\ stream[b[i][1]][l] = b[j][2]
    BY <2>1 DEF Before
  <2>3. Promised!Position(b[i]) = k /\ Promised!Position(b[j]) = l
    BY <1>1, <1>3, <1>5, <2>2, PositionIs
  <2>. QED
    BY <2>2, <2>3
<1>6. ASSUME NEW i \in DOMAIN b
      PROVE  b[i][2] \in [t \in Subscriptions |-> [r \in Routes |->
                {m \in Messages : TopicOf[m] \in Selected(Catalog, t)}]][s][b[i][1]]
  BY <1>4
<1>. QED
  BY <1>4, <1>5, <1>6, SameWords DEF Promised!InOrder

LEMMA PumpIsBegin ==
    ASSUME RInv, RInv', NEW s \in Subscriptions, PumpRuns(s)
    PROVE  Promised!Begin(s)
<1>. DEFINE max == MaxInFlight[s]  es == L!Pumped(lanes[s], max)  b == began[s]
<1>1. /\ Typed /\ LaneOk(s) /\ max \in Nat
  BY DeploymentAssumption DEF RInv
<1>2. /\ began' = [began EXCEPT ![s] = b \o es]
      /\ running' = [running EXCEPT ![s] = @ \cup ToSet(es)] /\ lanes[s].scheduled
      /\ UNCHANGED <<deployed, stream>>
  BY DEF PumpRuns, redis
<1>. DEFINE rest == L!Pump(lanes[s], max).queue
<1>3. /\ es \in Seq(Entries) /\ es # <<>> /\ b \in Seq(Entries)
      /\ rest \in Seq(Entries) /\ Work(s) = (b \o es) \o rest
  <2>1. LaneKept(lanes[s], max)
    BY <1>1 DEF Typed, LaneOk, LaneKept
  <2>2. es \in Seq(Entries) /\ es # <<>> /\ lanes[s].queue = es \o rest
    BY <1>1, <1>2, <2>1, PumpLane
  <2>3. rest \in Seq(Entries)
    BY <1>1, <1>2, <2>1, PumpLane DEF LaneKept, L!LaneState
  <2>4. b \in Seq(Entries) /\ Work(s) = b \o lanes[s].queue
    BY <1>1 DEF Typed, Work
  <2>. HIDE DEF es, rest, b
  <2>5. (b \o es) \o rest = b \o (es \o rest)
    BY ONLY <2>2, <2>3, <2>4, ConcatTwice
  <2>. QED
    BY ONLY <2>2, <2>3, <2>4, <2>5
<1>4. /\ began'[s] = b \o es /\ \A o \in Subscriptions \ {s} : began'[o] = began[o]
  BY <1>1, <1>2 DEF Typed
<1>. HIDE DEF es, rest
<1>5. /\ Len(b) \in Nat /\ Len(es) \in Nat /\ Len(es) # 0
      /\ Len(b \o es) = Len(b) + Len(es) /\ b \o es \in Seq(Entries)
      /\ \A i \in 1 .. Len(b) : (b \o es)[i] = b[i]
      /\ \A i \in 1 .. Len(es) : (b \o es)[Len(b) + i] = es[i]
  BY <1>3, Concat, EmptySeq
<1>. HIDE DEF b
<1>6. IsStrictPrefix(b, b \o es)
  <2>1. SubSeq(b, 1, Len(b)) = SubSeq(b \o es, 1, Len(b))
    BY <1>3, <1>5
  <2>2. b # b \o es
    <3>1. Len(b) # Len(b \o es)
      BY <1>5
    <3>. QED
      BY <3>1
  <2>. QED
    BY <1>5, <2>1, <2>2 DEF IsStrictPrefix, IsPrefix
<1>7. SubSeq(b \o es, Len(b) + 1, Len(b \o es)) = es
  BY <1>3, <1>5
<1>8. Promised!InOrder(s, b \o es)
  BY <1>3, <1>5, WorkInOrder
<1>9. Cardinality(running'[s]) <= max
  <2>1. LaneOk(s)' 
    BY DEF RInv
  <2>2. /\ IsFiniteSet(AtWork(s)') /\ running'[s] \subseteq AtWork(s)'
        /\ Cardinality(AtWork(s)') <= max
    BY <2>1 DEF LaneOk, AtWork
  <2>3. /\ Cardinality(running'[s]) <= Cardinality(AtWork(s)')
        /\ Cardinality(running'[s]) \in Nat /\ Cardinality(AtWork(s)') \in Nat
    BY <2>2, FS_Subset, FS_CardinalityType
  <2>. QED
    BY <1>1, <2>2, <2>3
<1>10. running' = [running EXCEPT ![s] =
                      @ \cup ToSet(SubSeq(began'[s], Len(began[s]) + 1, Len(began'[s])))]
  BY <1>2, <1>4, <1>7 DEF b
<1>11. IsStrictPrefix(began[s], began'[s]) /\ Promised!InOrder(s, began'[s])
  BY <1>4, <1>6, <1>8 DEF b
<1>12. /\ Promised!IsStrictPrefix(began[s], began'[s])
       /\ Promised!Cardinality(running'[s]) <= MaxInFlight[s]
       /\ running' = [running EXCEPT ![s] =
              @ \cup Promised!ToSet(SubSeq(began'[s], Len(began[s]) + 1, Len(began'[s])))]
  BY <1>9, <1>10, <1>11, SameWords
<1>. HIDE DEF b, max
<1>. QED
  BY <1>2, <1>4, <1>11, <1>12 DEF Promised!Begin

(* An admission takes one of the message's paths.                          *)
LEMMA AppendIsAppend1 ==
    ASSUME RInv, NEW m \in Messages, ~Published(m), NEW path \in deployed.paths[m],
           AppendAll(path, m), UNCHANGED <<deployed, began, running>>
    PROVE  Promised!Append1(m)
<1>1. \A r \in Routes : m \notin Promised!ToSet(stream[r])
  BY SameWords DEF Published
<1>2. stream' = [r \in Routes |-> IF r \in path THEN Append(stream[r], m) ELSE stream[r]]
  BY DEF AppendAll
<1>. QED
  BY <1>1, <1>2 DEF Promised!Append1

(* Every step is one of the promise, or is nothing to it.                  *)
LEMMA NextIsPromised == RInv /\ RInv' /\ [Next]_vars => [Promised!Next]_(Promised!box)
<1>. DEFINE Still == UNCHANGED <<deployed, stream, began, running>>
            Goal == [Promised!Next]_(Promised!box)
<1>. SUFFICES ASSUME RInv, RInv', [Next]_vars PROVE Goal
  OBVIOUS
<1>0. WellDeployed
  BY DEF RInv
<1>1. ASSUME Still PROVE Goal
  <2>. QED
    BY <1>1 DEF Promised!box
<1>2. ASSUME NEW h \in Hosts, StartBegins(h) \/ StartEnds(h) \/ StopBegins(h) \/ StopEnds(h)
      PROVE  Goal
  <2>1. Still
    BY <1>2 DEF StartBegins, StartEnds, StopBegins, StopEnds, redis, history
  <2>. QED
    BY <1>1, <2>1
<1>3. ASSUME NEW h \in Hosts, Crash(h) PROVE Goal
  <2>. DEFINE dead == SubscriptionsOf(h)
  <2>1. /\ running' = [s \in Subscriptions |-> IF s \in dead THEN {} ELSE running[s]]
        /\ UNCHANGED <<deployed, stream, began>>
    BY <1>3 DEF Crash, redis, history
  <2>2. dead \in SUBSET Subscriptions
    BY <1>0 DEF WellDeployed, HostsApart
  <2>. HIDE DEF dead
  <2>3. Promised!Crash(dead)
    BY <2>1 DEF Promised!Crash
  <2>. QED
    BY <2>2, <2>3 DEF Promised!Next
<1>4. ASSUME NEW h \in Hosts, NEW p \in Pairs,
             EnsureGroup(h, p) \/ ReadTimesOut(h, p) \/ Read(h, p) \/ ReadLost(h, p)
      PROVE  Goal
  <2>1. Still
    BY <1>4 DEF EnsureGroup, ReadTimesOut, Read, ReadLost, redis, history
  <2>. QED
    BY <1>1, <2>1
<1>5. ASSUME NEW h \in Hosts, NEW m \in Messages, NEW by \in Messages \cup {Nobody},
             Publish(h, m, by)
      PROVE  Goal
  <2>1. /\ ~Published(m) /\ m \notin DOMAIN StrayTo
        /\ TopicOf[m] \in DOMAIN deployed.publishes[h]
        /\ AppendAll(deployed.publishes[h][TopicOf[m]], m)
        /\ UNCHANGED <<deployed, began, running>>
    BY <1>5 DEF Publish, process
  <2>2. deployed.publishes[h][TopicOf[m]] \in deployed.paths[m]
    BY <1>0, <2>1 DEF WellDeployed, PathsKnown
  <2>3. Promised!Append1(m)
    BY <2>1, <2>2, AppendIsAppend1
  <2>. QED
    BY <2>3 DEF Promised!Next
<1>6. ASSUME NEW m \in DOMAIN StrayTo, Stray(m) PROVE Goal
  <2>1. /\ ~Published(m) /\ AppendAll({StrayTo[m]}, m)
        /\ UNCHANGED <<deployed, began, running>>
    BY <1>6 DEF Stray, process, history
  <2>2. m \in Messages /\ {StrayTo[m]} \in deployed.paths[m]
    BY <1>0, DeploymentAssumption DEF WellDeployed, PathsKnown
  <2>3. Promised!Append1(m)
    BY <2>1, <2>2, AppendIsAppend1
  <2>. QED
    BY <2>2, <2>3 DEF Promised!Next
<1>7. ASSUME NEW s \in Subscriptions, PumpRuns(s) PROVE Goal
  <2>1. Promised!Begin(s)
    BY <1>7, PumpIsBegin
  <2>. QED
    BY <2>1 DEF Promised!Next
<1>8. ASSUME NEW s \in Subscriptions, NEW e \in Entries, HandlerEnds(s, e) PROVE Goal
  <2>1. Promised!End(s, e) /\ e \in Routes \X Messages
    BY <1>8 DEF HandlerEnds, redis, Promised!End, Entries
  <2>. QED
    BY <2>1 DEF Promised!Next
<1>9. ASSUME NEW s \in Subscriptions, NEW e \in Entries, Retire(s, e) PROVE Goal
  <2>1. Still
    BY <1>9 DEF Retire, history
  <2>. QED
    BY <1>1, <2>1
<1>10. ASSUME NEW p \in Pairs, NEW e \in Entries, Refuse(p, e) PROVE Goal
  <2>1. Still
    BY <1>10 DEF Refuse, history
  <2>. QED
    BY <1>1, <2>1
<1>11. ASSUME UNCHANGED vars PROVE Goal
  <2>1. Still
    BY <1>11 DEF vars, redis, process, history
  <2>. QED
    BY <1>1, <2>1
<1>. QED
  BY <1>2, <1>3, <1>4, <1>5, <1>6, <1>7, <1>8, <1>9, <1>10, <1>11 DEF Next

(* The carrier is the at-most-once log of module AtMostOnce: whatever is   *)
(* lost, nothing begins twice or out of the order of its stream.           *)
THEOREM CarrierIsAtMostOnce == Spec => ImplementsAtMostOnce
<1>1. Init => Promised!Init
  <2>. SUFFICES ASSUME Init PROVE Promised!Init
    OBVIOUS
  <2>1. deployed.paths \in [Messages -> SUBSET SUBSET Routes]
    BY RInitially DEF RInv, WellDeployed, PathsKnown
  <2>. QED
    BY <2>1 DEF Init, Promised!Init
<1>. QED
  BY <1>1, NextIsPromised, RAlways, PTL DEF Spec, ImplementsAtMostOnce, Promised!Spec

=============================================================================
