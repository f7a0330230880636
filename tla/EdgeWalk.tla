------------------------------ MODULE EdgeWalk ------------------------------
(***************************************************************************)
(* step-finished.reducer walks the out edges of the finished step one by   *)
(* one, in the order analyzeFlow found them, and changes the run as it     *)
(* goes.  Module Engine states the result in closed form.  Here the walk   *)
(* is taken edge by edge and compared with the closed form.                *)
(***************************************************************************)
EXTENDS EngineProps

OutEdges(s) == {[type |-> "join", to |-> j] : j \in {j \in Steps : JoinEdge(s, j)}}
        \cup (UNION {{[type |-> "control", to |-> d, gate |-> gate] :
                         d \in {d \in Steps : ControlEdge(s, d, gate)}} :
                         gate \in Outcomes})
        \cup (UNION {{[type |-> "branch", to |-> d, case |-> case] :
                         d \in {d \in Steps : BranchEdge(s, d, case)}} :
                         case \in Steps \cup {None}})

PlanEdge(r, d) == IF r.step[d] # "initialized" THEN r
                  ELSE [r EXCEPT !.step[d] = "planned", !.plannedSteps = @ \cup {d},
                                 !.outstanding = @ + 1]

(* Mutant: a failed input leaves the join undecided.                       *)
MutJoinWaits(r, j) ==
    IF \E s \in Def(j).steps : r.step[s] # "completed" THEN r
    ELSE PlanEdge([r EXCEPT !.step[j] = "completed",
                            !.completedSteps = @ \cup {j}], Def(j).next)

PlanJoinEdge(r, j) ==
    LET inputs == {r.step[s] : s \in Def(j).steps}
        completed == [r EXCEPT !.step[j] = "completed",
                               !.completedSteps = @ \cup {j}]
    IN  IF inputs \subseteq {"completed"}
        THEN IF Def(j).next = None THEN completed
             ELSE PlanEdge(completed, Def(j).next)
        ELSE IF inputs \subseteq {"completed", "failed"}
        THEN [r EXCEPT !.step[j] = "failed", !.failedSteps = @ \cup {j}]
        ELSE r

(* One edge of the walk of the step ending e.                              *)
Walk(r, e, edge) ==
    CASE edge.type = "join" -> PlanJoinEdge(r, edge.to)
      [] edge.type = "control" ->
            IF edge.gate = e.status THEN PlanEdge(r, edge.to) ELSE r
      [] edge.type = "branch" ->
            IF e.type = "step.completed" /\ edge.case = e.case
            THEN PlanEdge(r, edge.to) ELSE r

Walked(r, e, edges) ==
    SetRunStatus(FoldLeft(LAMBDA now, edge : Walk(now, e, edge),
                          [r EXCEPT !.outstanding = Distance(@ - 1)], edges))

(* Whatever the order of the edges, the walk over the out edges of the     *)
(* step whose ending is next ends with what the closed form of module      *)
(* Engine says: the order an author lists the steps in decides nothing.    *)
WalkIsClosedForm ==
    EndEvents \cap {1} # {} =>
        \A order \in SetToSeqs(OutEdges(Head(bus).step)) :
            Walked(run, Head(bus), order) = StepFinishedReducer(run, Head(bus))

=============================================================================
