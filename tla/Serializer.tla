----------------------------- MODULE Serializer -----------------------------
(***************************************************************************)
(* What a combiner is for: closures run one at a time, in the order they   *)
(* were queued, and those kept for later run together once nothing else is *)
(* queued.                                                                 *)
(***************************************************************************)
EXTENDS Sequences

CONSTANT Closure

VARIABLES queue, later, batch   \* batch: what runs now, its head first
work == <<queue, later, batch>>

Init == queue = <<>> /\ later = <<>> /\ batch = <<>>

Enqueue(c) == queue' = Append(queue, c) /\ UNCHANGED <<later, batch>>

Defer(c) == batch # <<>> /\ later' = Append(later, c) /\ UNCHANGED <<queue, batch>>

RunNext ==
  /\ batch = <<>> /\ queue # <<>>
  /\ batch' = <<Head(queue)>> /\ queue' = Tail(queue) /\ UNCHANGED later

RunLater ==
  /\ batch = <<>> /\ queue = <<>> /\ later # <<>>
  /\ batch' = later /\ later' = <<>> /\ UNCHANGED queue

Done == batch # <<>> /\ batch' = Tail(batch) /\ UNCHANGED <<queue, later>>

Next == RunNext \/ RunLater \/ Done \/ \E c \in Closure : Enqueue(c) \/ Defer(c)

Spec == Init /\ [][Next]_work
=============================================================================
