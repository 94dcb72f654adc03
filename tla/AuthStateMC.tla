----------------------------- MODULE AuthStateMC ----------------------------
(***************************************************************************)
(* FIRAuth with two identities, two user objects in a process, two         *)
(* tokens, one keychain failure in a process and one restart.              *)
(***************************************************************************)
EXTENDS AuthState

CONSTANTS ann, bob
MCUid == {ann, bob}
=============================================================================
