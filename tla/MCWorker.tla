------------------------------ MODULE MCWorker ------------------------------
(* Small workers for TLC.                                                  *)
EXTENDS WorkerProps, TLC

Interchangeable == Permutations(Jobs)

(* Workers with a slot for each job, and with one slot less: only the      *)
(* state a worker begins with depends on its size.                         *)
OfSize(n) == INSTANCE WorkerProps WITH MaxConcurrentJobs <- n
LiveInit == \E n \in {Cardinality(Jobs) - 1, Cardinality(Jobs)} : OfSize(n)!Init
LiveSpec == LiveInit /\ [][Next]_vars /\ Fairness
=============================================================================
