---------------------------- MODULE LockedMpscqMC ---------------------------
(***************************************************************************)
(* A locked queue with three nodes, two producers and two consumers.       *)
(***************************************************************************)
EXTENDS LockedMpscq

CONSTANTS n1, n2, n3, t1, t2, c1, c2
MCNode == {n1, n2, n3}
MCThread == {t1, t2}
MCConsumer == {c1, c2}
=============================================================================
