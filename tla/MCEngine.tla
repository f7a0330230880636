------------------------------ MODULE MCEngine ------------------------------
(* Small flows for TLC.  The step names say nothing; None is "0".          *)
EXTENDS EdgeWalk

Job(next, failure) == [type |-> "job", steps |-> {}, next |-> next,
                       failure |-> failure, ref |-> FALSE]
Parallel(steps) == [type |-> "parallel", steps |-> steps, next |-> None,
                    failure |-> None, ref |-> FALSE]
Join(steps, next) == [type |-> "join", steps |-> steps, next |-> next,
                      failure |-> None, ref |-> FALSE]
Branch(cases, default) == [type |-> "branch", steps |-> cases,
                           next |-> default, failure |-> None, ref |-> TRUE]
Literal(cases, default) == [Branch(cases, default) EXCEPT !.ref = FALSE]

MCSteps == {"a", "b", "c", "d", "e"}
Idle == [s \in MCSteps |-> Job(None, None)]
Flow(steps) == [start |-> "a", steps |-> steps @@ Idle]

(* a, then b or c, which both lead to d, and d loops back to a             *)
Chain == Flow("a" :> Job("b", "c") @@ "b" :> Job("d", "c")
              @@ "c" :> Job("d", None) @@ "d" :> Job("a", "b"))
(* a fans out to b and c, joined by d, then e; b retries elsewhere         *)
FanOut == Flow("a" :> Parallel({"b", "c"}) @@ "d" :> Join({"b", "c"}, "e"))
(* a branches to b, c or, by default, d; e joins b and c                   *)
Cases == Flow("a" :> Branch({"b", "c"}, "d") @@ "b" :> Job("d", None)
              @@ "c" :> Job(None, "d") @@ "e" :> Join({"b", "d"}, "c"))
(* a parallel inside a parallel, each with a job, and a join across both   *)
Nested == Flow("a" :> Parallel({"b", "c"}) @@ "b" :> Parallel({"d"})
               @@ "e" :> Join({"c", "d"}, "a"))

MCValues == MCSteps \cup {None}
MCInherited == MCValues \cup {Inherited}

(* Every combination of these definitions of the five steps in which joins *)
(* are entered by join edges only.                                         *)
MCFlows == {f \in {Flow("a" :> a @@ "b" :> b @@ "c" :> c @@ "d" :> d @@ "e" :> e) :
              a \in {Job("b", "c"), Job("b", None), Parallel({"b", "c"}),
                     Parallel({"b"}), Branch({"b"}, "c"), Branch({"b", "c"}, "d")},
              b \in {Job(None, None), Job("d", "c"), Job("c", "a"),
                     Parallel({"d"}), Branch({"d"}, "c")},
              c \in {Job(None, None), Job("d", "b"), Job(None, "d")},
              d \in {Job(None, "b"), Parallel({"e"}), Join({"b", "c"}, "e")},
              e \in {Job(None, None), Job("c", "b"), Join({"c", "d"}, "a"),
                     Join({"b"}, "c")}} : JoinsOnlyJoin(f)}
(* Two parallels share c: both are children of a, and c of each.           *)
Shared == Flow("a" :> Parallel({"b", "d"}) @@ "b" :> Parallel({"c"})
               @@ "d" :> Parallel({"c"}))
MCShared == {Shared}
MCNested == {Flow("a" :> Parallel({"b"}) @@ "b" :> Parallel({"c"}))}
MCForks == {{"a"}, {"b"}, {"b", "c"}, {"a", "d"}}
MCSamples == {Chain, FanOut, Cases, Nested}
=============================================================================
