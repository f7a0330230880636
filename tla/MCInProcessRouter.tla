------------------------- MODULE MCInProcessRouter --------------------------
(* The topology of the local system: three subscriptions, two topics       *)
(* (job.catalog.ts, local-system.profile.ts).                              *)
EXTENDS InProcessRouter, TLC

CONSTANTS worker, engine, observability, command, terminal, c1, c2, t1, t2

MCSelects == (worker :> {command}) @@ (engine :> {terminal})
             @@ (observability :> {command, terminal})
MCMaxInFlight == (worker :> 2) @@ (engine :> 1) @@ (observability :> 1)
MCTopicOf == [m \in Messages |-> IF m \in {c1, c2} THEN command ELSE terminal]

=============================================================================
