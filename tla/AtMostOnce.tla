----------------------------- MODULE AtMostOnce -----------------------------
(***************************************************************************)
(* What a log-backed message carrier promises: a message is appended to    *)
(* all the logs of one of its paths at once; a subscription begins entries *)
(* of a log in the order of the log, each at most once, so many at a time; *)
(* and what is lost (with its process or on the wire) is never begun again.*)
(***************************************************************************)
EXTENDS Integers, Sequences, SequencesExt, FiniteSets

CONSTANTS
    Messages, Logs, Subscriptions,
    IsFor,        \* the messages every subscription takes from every log
    MaxInFlight

VARIABLES
    paths,    \* the sets of logs every message may be appended to, fixed
    log,      \* the entries of every log
    began,    \* per subscription: the <<log, message>> pairs begun, in order
    running   \* per subscription: those whose handler has not come back

box == <<paths, log, began, running>>

Init == /\ paths \in [Messages -> SUBSET SUBSET Logs]
        /\ log = [r \in Logs |-> <<>>]
        /\ began = [s \in Subscriptions |-> <<>>]
        /\ running = [s \in Subscriptions |-> {}]

Append1(m) ==
    /\ \A r \in Logs : m \notin ToSet(log[r])
    /\ \E path \in paths[m] :
          log' = [r \in Logs |-> IF r \in path THEN Append(log[r], m) ELSE log[r]]
    /\ UNCHANGED <<paths, began, running>>

Position(e) == CHOOSE i \in DOMAIN log[e[1]] : log[e[1]][i] = e[2]

InOrder(s, entries) ==
    /\ \A i \in DOMAIN entries : /\ entries[i][2] \in ToSet(log[entries[i][1]])
                                 /\ entries[i][2] \in IsFor[s][entries[i][1]]
    /\ \A i, j \in DOMAIN entries :
          i < j /\ entries[i][1] = entries[j][1]
            => Position(entries[i]) < Position(entries[j])

(* One or more entries are begun, as long as there is room.                *)
Begin(s) ==
    /\ IsStrictPrefix(began[s], began'[s]) /\ InOrder(s, began'[s])
    /\ LET new == ToSet(SubSeq(began'[s], Len(began[s]) + 1, Len(began'[s]))) IN
       running' = [running EXCEPT ![s] = @ \cup new]
    /\ Cardinality(running'[s]) <= MaxInFlight[s]
    /\ \A other \in Subscriptions \ {s} : began'[other] = began[other]
    /\ UNCHANGED <<paths, log>>

End(s, e) == /\ e \in running[s]
             /\ running' = [running EXCEPT ![s] = @ \ {e}]
             /\ UNCHANGED <<paths, log, began>>

(* The process of some subscriptions dies.                                 *)
Crash(dead) == /\ running' = [s \in Subscriptions |-> IF s \in dead THEN {} ELSE running[s]]
               /\ UNCHANGED <<paths, log, began>>

Next == \/ \E m \in Messages : Append1(m)
        \/ \E s \in Subscriptions : Begin(s) \/ \E e \in Logs \X Messages : End(s, e)
        \/ \E dead \in SUBSET Subscriptions : Crash(dead)

Spec == Init /\ [][Next]_box

=============================================================================
