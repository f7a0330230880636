------------------------------ MODULE Mailbox -------------------------------
(***************************************************************************)
(* What a message carrier inside one process promises: a message that is   *)
(* accepted is accepted for all its recipients at once; every recipient    *)
(* begins its messages in the order of acceptance, each once, at most      *)
(* MaxInFlight at a time; and a message that has begun ends once.          *)
(***************************************************************************)
EXTENDS Integers, Sequences, FiniteSets

CONSTANTS
    Messages,
    Subscriptions,
    Recipients,   \* the subscriptions every message is for
    MaxInFlight   \* deliveries a subscription handles at a time

VARIABLES
    sent,     \* per subscription: the messages accepted for it, in order
    began,    \* per subscription: the messages its handler was called with
    settled   \* per subscription: the messages its handler is done with

box == <<sent, began, settled>>

Init == /\ sent = [s \in Subscriptions |-> <<>>]
        /\ began = [s \in Subscriptions |-> <<>>]
        /\ settled = [s \in Subscriptions |-> {}]

Listing(seq) == {seq[i] : i \in DOMAIN seq}

Accept(m) == /\ \A s \in Subscriptions : m \notin Listing(sent[s])
             /\ sent' = [s \in Subscriptions |->
                            IF s \in Recipients[m] THEN Append(sent[s], m)
                                                   ELSE sent[s]]
             /\ UNCHANGED <<began, settled>>

Begin(s) ==
    \E n \in Len(began[s]) + 1 .. Len(sent[s]) :
        /\ n - Cardinality(settled[s]) <= MaxInFlight[s]
        /\ began' = [began EXCEPT ![s] = SubSeq(sent[s], 1, n)]
        /\ UNCHANGED <<sent, settled>>

Settle(s, m) == /\ m \in Listing(began[s]) \ settled[s]
                /\ settled' = [settled EXCEPT ![s] = @ \cup {m}]
                /\ UNCHANGED <<sent, began>>

Next == \/ \E m \in Messages : Accept(m)
        \/ \E s \in Subscriptions : Begin(s) \/ \E m \in Messages : Settle(s, m)

Spec == Init /\ [][Next]_box

=============================================================================
