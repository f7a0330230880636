-------------------------- MODULE MessageTopology ---------------------------
(***************************************************************************)
(* The declarations a deployment is made of (package message-topology).  A *)
(* catalog declares topics and subscriptions, each selecting topics.  A    *)
(* manifest enables some of them, binds every delivery edge (a topic and a *)
(* subscription that selects it) to a route, and gives every role what it  *)
(* may publish and what it consumes.  A role's host plan is resolved from  *)
(* the manifest against the catalog of the role's own process.             *)
(***************************************************************************)
EXTENDS Sequences, SequencesExt

Ids(seq) == {seq[i].id : i \in DOMAIN seq}
Distinct(seq, Key(_)) == \A i, j \in DOMAIN seq : Key(seq[i]) = Key(seq[j]) => i = j
Named(seq, id) == seq[CHOOSE i \in DOMAIN seq : seq[i].id = id]

-----------------------------------------------------------------------------
(* Catalogs.                                                               *)

DistinctTopics(topics) == Distinct(topics, LAMBDA t : t)

DeclaredSubscriptions(catalog) ==
    /\ Distinct(catalog.subscriptions, LAMBDA s : s.id)
    /\ \A s \in ToSet(catalog.subscriptions) :
          /\ s.topics # <<>>
          /\ DistinctTopics(s.topics)
          /\ ToSet(s.topics) \subseteq ToSet(catalog.topics)

CatalogOk(catalog) == /\ DistinctTopics(catalog.topics)
                      /\ DeclaredSubscriptions(catalog)

Selected(catalog, s) == ToSet(Named(catalog.subscriptions, s).topics)

-----------------------------------------------------------------------------
(* Manifests.                                                              *)

Edges(catalog, manifest) ==
    {e \in manifest.topicIds \X manifest.subscriptionIds : e[1] \in Selected(catalog, e[2])}

(* What is enabled is declared, selects what is enabled, and is consumed.  *)
EnabledOk(catalog, manifest) ==
    /\ manifest.topicIds \subseteq ToSet(catalog.topics)
    /\ manifest.subscriptionIds \subseteq Ids(catalog.subscriptions)
    /\ \A s \in manifest.subscriptionIds :
          Selected(catalog, s) \subseteq manifest.topicIds
    /\ \A t \in manifest.topicIds : \E s \in manifest.subscriptionIds :
          t \in Selected(catalog, s)

(* Every edge has exactly one route.                                       *)
RoutedOk(catalog, manifest) ==
    /\ Distinct(manifest.routes, LAMBDA r : <<r.topicId, r.subscriptionId>>)
    /\ {<<r.topicId, r.subscriptionId>> : r \in ToSet(manifest.routes)}
          = Edges(catalog, manifest)

(* A route carries to each of its subscriptions every topic that it        *)
(* carries at all.                                                         *)
SharedRoutesOk(manifest) ==
    \A a, b \in ToSet(manifest.routes) :
        a.routeId = b.routeId
          => [topicId |-> a.topicId, subscriptionId |-> b.subscriptionId,
              routeId |-> a.routeId] \in ToSet(manifest.routes)

(* Roles publish what is enabled, consume what is enabled, and between     *)
(* them consume every subscription exactly once and publish every topic.   *)
RolesOk(manifest) ==
    LET roles == manifest.roles
        Consumes(i) == ToSet(roles[i].consumesFrom) IN
    /\ Distinct(roles, LAMBDA r : r.id)
    /\ \A i \in DOMAIN roles :
          /\ DistinctTopics(roles[i].consumesFrom)
          /\ \A j \in DOMAIN roles : i # j => Consumes(i) \cap Consumes(j) = {}
    /\ UNION {Consumes(i) : i \in DOMAIN roles} = manifest.subscriptionIds
    /\ UNION {roles[i].publishesTo : i \in DOMAIN roles} = manifest.topicIds

ManifestOk(catalog, manifest) ==
    /\ EnabledOk(catalog, manifest)
    /\ RoutedOk(catalog, manifest)
    /\ SharedRoutesOk(manifest)
    /\ RolesOk(manifest)

(* One process carries the messages of one role only.                      *)
InProcessRealizable(manifest) == Len(manifest.roles) = 1

-----------------------------------------------------------------------------
(* Host plans.                                                             *)

RoutesOfTopic(manifest, t) ==
    {r.routeId : r \in {q \in ToSet(manifest.routes) : q.topicId = t}}

TopicRoutes(manifest, s) ==
    {<<r.topicId, r.routeId>> : r \in {q \in ToSet(manifest.routes) : q.subscriptionId = s}}

HostPlanFor(manifest, role) ==
    LET declared == Named(manifest.roles, role) IN
    [publishesTo  |-> [t \in declared.publishesTo |-> RoutesOfTopic(manifest, t)],
     consumesFrom |-> [s \in ToSet(declared.consumesFrom) |-> TopicRoutes(manifest, s)]]

(* A plan resolves against the catalog of the process that imports it, if  *)
(* the two name the same topics for every subscription.                    *)
Resolves(plan, catalog) ==
    /\ CatalogOk(catalog)
    /\ DOMAIN plan.publishesTo \subseteq ToSet(catalog.topics)
    /\ \A s \in DOMAIN plan.consumesFrom :
          /\ s \in Ids(catalog.subscriptions)
          /\ Selected(catalog, s) = {tr[1] : tr \in plan.consumesFrom[s]}

(* What provisioning creates before any host starts: one group for every   *)
(* pair of a route and a subscription.                                     *)
ProvisionedGroups(manifest) ==
    {<<r.subscriptionId, r.routeId>> : r \in ToSet(manifest.routes)}

=============================================================================
