-------------------------------- MODULE Fifo --------------------------------
(***************************************************************************)
(* A first-in first-out queue with many producers and one consumer, as the *)
(* comments of mpscq.h promise it: a pop hands out the oldest node, or     *)
(* nothing, which "doesn't indicate that the queue is empty".              *)
(***************************************************************************)
EXTENDS Sequences

CONSTANTS Node, Null

VARIABLES items, out   \* out: what a pop hands out until it is taken
queue == <<items, out>>

Init == items = <<>> /\ out = Null

Enqueue(n) == items' = Append(items, n) /\ UNCHANGED out
Dequeue == out = Null /\ items # <<>> /\ out' = Head(items) /\ items' = Tail(items)
Take == out # Null /\ out' = Null /\ UNCHANGED items

Next == Dequeue \/ Take \/ \E n \in Node : Enqueue(n)

Spec == Init /\ [][Next]_queue
=============================================================================
