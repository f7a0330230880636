----------------------------- MODULE Semaphore -----------------------------
(***************************************************************************)
(* The counting semaphore of the worker (concurrency/semaphore.ts): a      *)
(* number of free slots and a FIFO of waiters.  A state is a record; the   *)
(* operators are the effects of acquire, release and an abort on it.  The  *)
(* local permit adapter keeps one of these per resource key, and the       *)
(* worker's capacity is another.                                           *)
(***************************************************************************)
EXTENDS Integers, Sequences, FiniteSets

CONSTANT Jobs  \* who may wait

SemaphoreState == [available : Nat, queue : Seq(Jobs)]

NewSemaphore(max) == [available |-> max, queue |-> <<>>]

Free(sem) == sem.available > 0
Take(sem) == [sem EXCEPT !.available = @ - 1]
(* Mutant: a new waiter goes to the front.                                 *)
MutWaitsFirst(sem, j) == [sem EXCEPT !.queue = <<j>> \o @]

Wait(sem, j) == [sem EXCEPT !.queue = Append(@, j)]

Acquire(sem, j) == IF Free(sem) THEN Take(sem) ELSE Wait(sem, j)

(* Mutant: the slot is handed over and freed as well.                      *)
MutFreesToo(sem) ==
    [available |-> sem.available + 1,
     queue |-> IF sem.queue = <<>> THEN <<>> ELSE Tail(sem.queue)]

(* A release hands the slot to the first waiter, or frees it.              *)
Release(sem) ==
    IF sem.queue = <<>> THEN [sem EXCEPT !.available = @ + 1]
                        ELSE [sem EXCEPT !.queue = Tail(@)]

Served(sem) == IF sem.queue = <<>> THEN {} ELSE {Head(sem.queue)}

(* A waiter gives up: it leaves the queue, wherever it stands.             *)
Position(sem, j) == CHOOSE i \in DOMAIN sem.queue : sem.queue[i] = j
Leave(sem, j) ==
    LET p == Position(sem, j) IN
    [sem EXCEPT !.queue = [i \in 1 .. Len(@) - 1 |-> IF i < p THEN @[i]
                                                              ELSE @[i + 1]]]

-----------------------------------------------------------------------------
Listed(sem) == {sem.queue[i] : i \in DOMAIN sem.queue}

(* A semaphore of `max` is in balance with its holders and its waiters:    *)
(* every slot is free or held, nobody waits while one is free, and the     *)
(* waiters stand in the queue once each.                                   *)
Balanced(sem, max, holders, waiters) ==
    /\ sem.available + Cardinality(holders) = max
    /\ sem.queue # <<>> => sem.available = 0
    /\ Listed(sem) = waiters
    /\ \A i, k \in DOMAIN sem.queue : sem.queue[i] = sem.queue[k] => i = k

=============================================================================
