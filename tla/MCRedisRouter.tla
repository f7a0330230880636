--------------------------- MODULE MCRedisRouter ----------------------------
(* Two hosts as in remote-worker.deployment.ts, without the engine's       *)
(* subscription, under every way to bind their three edges to two routes *)
(* that the manifest's check accepts.                                      *)
EXTENDS RedisRouter, TLC

CONSTANTS api, worker, r1, r2, command, terminal, c1, t1, x1, work, observe

MCCatalog ==
    [topics |-> <<command, terminal>>,
     subscriptions |-> <<[id |-> work, topics |-> <<command>>],
                         [id |-> observe, topics |-> <<command, terminal>>]>>]
MCTopicOf == [m \in Messages |-> IF m = c1 THEN command ELSE terminal]

MCRoles == <<[id |-> api, publishesTo |-> {command}, consumesFrom |-> <<observe>>],
             [id |-> worker, publishesTo |-> {terminal}, consumesFrom |-> <<work>>]>>
Edge(t, s, r) == [topicId |-> t, subscriptionId |-> s, routeId |-> r]
MCManifests ==
    {[topicIds |-> {command, terminal}, subscriptionIds |-> {work, observe},
      roles |-> MCRoles,
      routes |-> <<Edge(command, work, r1), Edge(command, observe, a),
                   Edge(terminal, observe, b)>>] : <<a, b>> \in
        {<<r1, r1>>, <<r1, r2>>, <<r2, r1>>, <<r2, r2>>}}

MCStrayTo == x1 :> r1
MCMaxInFlight == (work :> 2) @@ (observe :> 1)
MCReadCount == (work :> 1) @@ (observe :> 2)

=============================================================================
