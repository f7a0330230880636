---------------------------- MODULE DeliveryLane ----------------------------
(***************************************************************************)
(* The delivery lane of one subscription (message-router delivery-lane.ts):*)
(* a FIFO of messages, a count of deliveries in flight and one deferred    *)
(* dispatch at a time.  A lane is a record; the operators are what         *)
(* enqueue, the deferred pump and the end of a delivery do to it.          *)
(***************************************************************************)
EXTENDS Integers, Sequences

CONSTANT Messages

LaneState == [queue : Seq(Messages), inFlight : Nat, scheduled : BOOLEAN]

NewLane == [queue |-> <<>>, inFlight |-> 0, scheduled |-> FALSE]

(* A pump is due if there is something to take and room to take it.        *)
Due(lane, max) == lane.queue # <<>> /\ lane.inFlight < max
Schedule(lane, max) == [lane EXCEPT !.scheduled = @ \/ Due(lane, max)]

(* Mutant: the newest goes first.                                          *)
MutEnqueueFront(lane, max, m) ==
    Schedule([lane EXCEPT !.queue = <<m>> \o @], max)
Enqueue(lane, max, m) == Schedule([lane EXCEPT !.queue = Append(@, m)], max)

(* The pump starts as many as there is room for, in order.                 *)
Room(lane, max) == IF Len(lane.queue) < max - lane.inFlight
                   THEN Len(lane.queue) ELSE max - lane.inFlight
Pumped(lane, max) == SubSeq(lane.queue, 1, Room(lane, max))
Pump(lane, max) ==
    [queue     |-> SubSeq(lane.queue, Room(lane, max) + 1, Len(lane.queue)),
     inFlight  |-> lane.inFlight + Room(lane, max),
     scheduled |-> FALSE]

(* Mutants: the slot is not given back; the rest is not scheduled.         *)
MutKeepsPlace(lane, max) == Schedule(lane, max)
MutNotScheduled(lane, max) == [lane EXCEPT !.inFlight = @ - 1]
Delivered(lane, max) == Schedule([lane EXCEPT !.inFlight = @ - 1], max)

=============================================================================
