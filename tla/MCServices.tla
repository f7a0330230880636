----------------------------- MODULE MCServices -----------------------------
(* The parts around the engine and the worker that share no state: a       *)
(* behaviour is one of one part, and the others stay at one initial state. *)
EXTENDS RunProjection, ArtifactStore, HostLifecycle, Limiter, FlowGraph, Workbench

CONSTANTS s1, judge, w1, w2, l1, l2, none, json, text

VARIABLE part
servicesVars == <<part, vars, storeVars, hostVars, limiterVars, graphVars, workbenchVars>>

-----------------------------------------------------------------------------
(* A flow of two steps, one of which may be the judge of an eval run; what *)
(* surrounds the run is varied one thing at a time.                        *)
Around(clients, steps, failing, burst, eval) ==
    [clients |-> clients, steps |-> steps, faults |-> failing, burst |-> burst, isEval |-> eval]
MCSurroundings ==
    {Around({w1, w2}, {s1}, 0, 0, FALSE),
     Around({w1}, {s1}, 2, 0, FALSE),
     Around({w1}, {s1, judge}, 0, 0, FALSE),
     Around({l1}, {judge}, 0, 2, TRUE),
     Around({l1, l2}, {}, 0, 1, FALSE),
     Around({}, {s1, judge}, 1, 0, TRUE)}

(* Saves one after the other that fail or die, and saves that overlap.     *)
Setup(store, together, saves, failing) ==
    [store |-> store, together |-> together, saves |-> saves, mishaps |-> failing,
     harmed |-> FALSE]
MCStoreSettings ==
    {Setup("fs", 1, 3, 1), Setup("fs", 1, 2, 2), Setup("fs", 2, 2, 1), Setup("s3", 2, 2, 1)}

(* A slot given back by one who has none, at the lower limit.              *)
MCLimits == {[http |-> 1], [http |-> 2]}
MCMaxStrays == [l \in MCLimits |-> IF l.http = 1 THEN 1 ELSE 0]
MCToolOf == [j1 |-> "http", j2 |-> "http", j3 |-> "http", j4 |-> "other"]

(* Up to two edges from a and b, one from c, none from d.                  *)
MCNodeOrder == <<"a", "b", "c", "d">>
EdgesFrom(n, most) ==
    {s \in UNION {[1 .. k -> {"a", "b", "c", "d"}] : k \in 0 .. most} : n \notin ToSet(s)}
MCOutEdges == {[a |-> a, b |-> b, c |-> c, d |-> <<>>] :
                 a \in EdgesFrom("a", 2), b \in EdgesFrom("b", 2), c \in EdgesFrom("c", 1)}

(* Panels of the three kinds.  What may happen to a page is bounded one    *)
(* way at a time: a stream that breaks, gestures, modes, leaving it; what  *)
(* takes more gestures, or storages that throw, with some of the panels.   *)
MCOpenedAs == [plain |-> [kind |-> "plain", run |-> NoRun],
               ofRun |-> [kind |-> "run", run |-> "r1"],
               ofSim |-> [kind |-> "sim", run |-> "r1"]]
MCPerRun == [r1 |-> 3, r2 |-> 2]
Scene(clicks, modes, visits, news, outages, failing) ==
    [clicks |-> clicks, modes |-> modes, visits |-> visits, news |-> news,
     outages |-> outages, faults |-> failing, offered |-> Tabs]
Offers(tabs, scene) == [scene EXCEPT !.offered = tabs]
MCScenes ==
    {Scene(2, 0, 0, 2, 1, 0), Scene(2, 0, 0, 1, 0, 1), Scene(3, 1, 0, 0, 0, 0),
     Scene(2, 2, 1, 0, 0, 0), Scene(2, 0, 1, 1, 0, 0),
     Offers({"plain", "ofSim"}, Scene(4, 0, 0, 0, 0, 0)),
     Offers({"ofSim"}, Scene(2, 0, 1, 0, 0, 1)),
     Offers({"plain"}, Scene(6, 0, 0, 0, 0, 0)), Offers({"plain"}, Scene(3, 0, 1, 0, 0, 1))}

-----------------------------------------------------------------------------
Parts == {"projection", "artifacts", "host", "limiter", "graph", "workbench"}
OneOf(set, p) == IF part = p THEN set ELSE {CHOOSE x \in set : TRUE}

ServicesInit ==
    /\ part \in Parts
    /\ around \in OneOf(Surroundings, "projection") /\ Init
    /\ part # "projection" => request = "created"
    /\ setting \in OneOf(StoreSettings, "artifacts") /\ StoreInit
    /\ part # "artifacts" => \A s \in Savers : save[s].type = Json
    /\ HostInit /\ (part # "host" => host.profile = "api")
    /\ limit \in OneOf(Limits, "limiter") /\ LimiterInit
    /\ edges \in OneOf(OutEdges, "graph") /\ GraphInit
    /\ left \in OneOf(Scenes, "workbench") /\ WorkbenchInit

ServicesNext ==
    /\ UNCHANGED part
    /\ \/ part = "projection" /\ Next
          /\ UNCHANGED <<storeVars, hostVars, limiterVars, graphVars, workbenchVars>>
       \/ part = "artifacts" /\ StoreNext
          /\ UNCHANGED <<vars, hostVars, limiterVars, graphVars, workbenchVars>>
       \/ part = "host" /\ HostNext
          /\ UNCHANGED <<vars, storeVars, limiterVars, graphVars, workbenchVars>>
       \/ part = "limiter" /\ LimiterNext
          /\ UNCHANGED <<vars, storeVars, hostVars, graphVars, workbenchVars>>
       \/ part = "graph" /\ GraphNext
          /\ UNCHANGED <<vars, storeVars, hostVars, limiterVars, workbenchVars>>
       \/ part = "workbench" /\ WorkbenchNext
          /\ UNCHANGED <<vars, storeVars, hostVars, limiterVars, graphVars>>

(* In a run that nobody has requested nothing is enabled that is fair.     *)
ServicesSpec == ServicesInit /\ [][ServicesNext]_servicesVars /\ Fairness
=============================================================================
