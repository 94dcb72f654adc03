--------------------------- MODULE CouriSessionMC ---------------------------
(***************************************************************************)
(* Couri's listener with one identity, one token and no failures.          *)
(***************************************************************************)
EXTENDS CouriSession

CONSTANT ann
MCUid == {ann}
=============================================================================
