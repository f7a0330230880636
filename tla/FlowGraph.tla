----------------------------- MODULE FlowGraph ------------------------------
(***************************************************************************)
(* What the analysis of a flow asks of its graph: an order of the steps,   *)
(* and whether a step may refer to what another has put out.  Both are     *)
(* loops, and an action is one round.                                      *)
(***************************************************************************)
EXTENDS Naturals, Sequences, SequencesExt, FiniteSets, FiniteSetsExt

CONSTANTS
    NodeOrder,   \* the steps, in the order of the definition
    OutEdges     \* the graphs: for each step the ends of its edges, in order

Nodes == ToSet(NodeOrder)

ASSUME GraphAssumption ==
    /\ NodeOrder \in Seq(Nodes) /\ IsInjective(NodeOrder) /\ NodeOrder # <<>>
    /\ OutEdges \subseteq [Nodes -> Seq(Nodes)]

VARIABLES
    edges,                                 \* one of OutEdges, fixed
    inDegree, ready, sorted, cycleFound,   \* of toposort
    ref, target,                           \* a step refers to another, the target
    calls,                                 \* of isReachable: the calls under way
    answer
graphVars == <<edges, inDegree, ready, sorted, cycleFound, ref, target, calls, answer>>

Occurs(m, s) == Cardinality({k \in DOMAIN s : s[k] = m})

(* inEdges and outEdges hold the same edges.                               *)
InEdges(m) == MapThenSumSet(LAMBDA n : Occurs(m, edges[n]), Nodes)
Sources == {m \in Nodes : InEdges(m) = 0}

GraphTypeOK ==
    /\ inDegree \in [Nodes -> Nat]
    /\ ready \in Seq(Nodes) /\ sorted \in Seq(Nodes) /\ cycleFound \in BOOLEAN
    /\ ref \in Nodes /\ target \in Nodes
    /\ calls \in Seq([node : Nodes, edge : Nat])
    /\ answer \in {"sorting", "sorted", "searching", "yes", "no", "overflow"}

GraphInit ==
    /\ edges \in OutEdges
    /\ inDegree = [m \in Nodes |-> InEdges(m)]
    /\ ready = FoldLeft(LAMBDA q, m : IF m \in Sources THEN Append(q, m) ELSE q, <<>>, NodeOrder)
    /\ sorted = <<>> /\ cycleFound = FALSE
    /\ ref = NodeOrder[1] /\ target = NodeOrder[1] /\ calls = <<>> /\ answer = "sorting"

-----------------------------------------------------------------------------
(* toposort: a step that is ready, and off with its edges.  Mutant: a step *)
(* is ready when one edge into it is off.                                  *)
MutWithout(q, m) ==
    [inDegree |-> [q.inDegree EXCEPT ![m] = @ - 1],
     ready |-> IF m \in ToSet(q.ready) THEN q.ready ELSE Append(q.ready, m)]
Without(q, m) ==
    [inDegree |-> [q.inDegree EXCEPT ![m] = @ - 1],
     ready |-> IF q.inDegree[m] = 1 THEN Append(q.ready, m) ELSE q.ready]

Sort ==
    /\ answer = "sorting" /\ ready # <<>>
    /\ LET n == Head(ready)
           q == FoldLeft(Without, [inDegree |-> inDegree, ready |-> Tail(ready)], edges[n]) IN
       inDegree' = q.inDegree /\ ready' = q.ready /\ sorted' = Append(sorted, n)
    /\ UNCHANGED <<edges, cycleFound, ref, target, calls, answer>>

SortEnds ==
    /\ answer = "sorting" /\ ready = <<>>
    /\ cycleFound' = (Len(sorted) # Len(NodeOrder)) /\ answer' = "sorted"
    /\ UNCHANGED <<edges, inDegree, ready, sorted, ref, target, calls>>

-----------------------------------------------------------------------------
(* isReachable: depth first, from the target along its edges to the step   *)
(* that refers to it, with no memory of where it has been.                 *)
Call(n) == [node |-> n, edge |-> 1]

Search(s, t) ==
    /\ answer = "sorted" /\ ref' = s /\ target' = t
    /\ calls' = <<Call(t)>> /\ answer' = "searching"
    /\ UNCHANGED <<edges, inDegree, ready, sorted, cycleFound>>

(* A call that comes to a step under way comes to it for ever: the stack   *)
(* overflows, and that is thrown.                                          *)
UnderWay(n) == \E k \in DOMAIN calls : calls[k].node = n

Look ==
    /\ answer = "searching"
    /\ LET top == Last(calls)
           atEnd == top.edge > Len(edges[top.node])
           end == edges[top.node][top.edge]
           nextEdge == Append(Front(calls), [top EXCEPT !.edge = @ + 1]) IN
       \/ /\ atEnd /\ calls' = Front(calls)
          /\ answer' = IF Len(calls) = 1 THEN "no" ELSE answer
       \/ ~atEnd /\ end = ref /\ answer' = "yes" /\ calls' = <<>>
       \/ ~atEnd /\ end # ref /\ UnderWay(end) /\ answer' = "overflow" /\ calls' = <<>>
       \/ ~atEnd /\ end # ref /\ ~UnderWay(end) /\ calls' = Append(nextEdge, Call(end))
          /\ UNCHANGED answer
    /\ UNCHANGED <<edges, inDegree, ready, sorted, cycleFound, ref, target>>

GraphNext == Sort \/ SortEnds \/ (\E s, t \in Nodes : Search(s, t)) \/ Look
GraphSpec == GraphInit /\ [][GraphNext]_graphVars

-----------------------------------------------------------------------------
(* Warshall: the pairs of steps with a path, over more and more steps.     *)
Path == FoldLeft(LAMBDA path, v : path \cup {p \in Nodes \X Nodes :
                                                <<p[1], v>> \in path /\ <<v, p[2]>> \in path},
                 {p \in Nodes \X Nodes : p[2] \in ToSet(edges[p[1]])}, NodeOrder)

(* The order has every step once, and after all that lead to it, up to     *)
(* those that a cycle leads to; and a cycle is reported if there is one    *)
(* (toposort.ts:6-8).                                                      *)
OrderIsTopological ==
    answer = "sorted" =>
        LET path == Path
            inCycle == {n \in Nodes : <<n, n>> \in path} IN
        /\ \A j, k \in DOMAIN sorted : k <= j => <<sorted[j], sorted[k]>> \notin path
        /\ cycleFound = (inCycle # {})
        /\ ToSet(sorted) = {m \in Nodes : \A n \in inCycle : n # m /\ <<n, m>> \notin path}
        /\ IsInjective(sorted)

(* A reference is allowed when the step it is in comes after its target on *)
(* some path; of a flow without a cycle the search says so and returns     *)
(* (analyze-references.ts:67-72).                                          *)
ReachableIsPath ==
    /\ answer \in {"yes", "no"} => (answer = "yes" <=> <<target, ref>> \in Path)
    /\ answer = "overflow" => cycleFound

GraphIsAnalysed == GraphTypeOK /\ OrderIsTopological /\ ReachableIsPath
=============================================================================
