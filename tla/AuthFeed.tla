------------------------------ MODULE AuthFeed ------------------------------
(***************************************************************************)
(* What FIRAuth.h promises of addAuthStateDidChangeListener: once it is    *)
(* registered the block is invoked, and it is invoked again when a user    *)
(* with a different UID has signed in or the user has signed out.  It      *)
(* promises no call per change: what the block is told is who is signed in *)
(* when it runs, and it is never told the same twice in a row.             *)
(***************************************************************************)
CONSTANTS Uid, NoUid, Never

VARIABLES session, heard
feed == <<session, heard>>

Init == session = NoUid /\ heard = Never

Change == session' \in Uid \cup {NoUid} /\ heard' = heard

Tell == heard # session /\ heard' = session /\ UNCHANGED session

Restart == session' = NoUid /\ heard' = Never

Next == Change \/ Tell \/ Restart

Spec == Init /\ [][Next]_feed /\ WF_feed(Tell)
=============================================================================
