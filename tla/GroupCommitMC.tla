---------------------------- MODULE GroupCommitMC ---------------------------
(***************************************************************************)
(* A database with three writers, four writes and small memtables.         *)
(***************************************************************************)
EXTENDS GroupCommit

CONSTANTS w1, w2, w3
MCWriter == {w1, w2, w3}
=============================================================================
