---------------------------- MODULE CouriSession ----------------------------
(***************************************************************************)
(* What Couri does with its listener (ViewController.setupFirebase): a     *)
(* call without a user runs loginAction, whose body is commented out, so   *)
(* the login screen FUIAuth offers stays as it was.                        *)
(***************************************************************************)
EXTENDS AuthState

VARIABLE loginShown   \* authUI's view controller is presented
session == <<vars, loginShown>>

loginAction == UNCHANGED loginShown

SessionInit == Init /\ loginShown = FALSE

StateDidChange ==
  /\ Deliver
  /\ IF listening /\ Called(UidOf(user, objs)) /\ user = 0
     THEN loginAction
     ELSE UNCHANGED loginShown

Elsewhere ==
  /\ SessionNext \/ RefreshNext \/ AddListener \/ Restart
  /\ loginShown' = IF restarts' = restarts THEN loginShown ELSE FALSE

SessionSpec ==
  /\ SessionInit /\ [][StateDidChange \/ Elsewhere]_session
  /\ WF_session(StateDidChange) /\ WF_session(Elsewhere /\ AddListener)

(***************************************************************************)
(* "This detects any changes in authentication, and if a change is         *)
(* detected then it will summon the authentication ui": once the listener  *)
(* has heard that nobody is signed in, the login screen comes up, unless   *)
(* somebody signs in or the application is restarted.                      *)
(***************************************************************************)
SummonsLogin == heard = NoUid ~> loginShown \/ heard # NoUid
=============================================================================
