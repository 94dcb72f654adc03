----------------------------- MODULE AuthState ------------------------------
(***************************************************************************)
(* FIRAuth, the object behind Auth.auth() in ViewController.setupFirebase: *)
(* the signed-in user, its copy in the keychain, the notifications of a    *)
(* change, the listener Couri adds, and the automatic token refresh.       *)
(*                                                                         *)
(* FIRAuthGlobalWorkQueue is serial: a block of it, or a method that       *)
(* dispatch_syncs to it, is one action here.  initWithApp enqueues the     *)
(* loading of the stored user before anything else can use the queue, so   *)
(* every such action waits for `loaded'.  Blocks for the main queue are    *)
(* counted in `pending': each makes the observer read the user when it     *)
(* runs, so they are alike.  The initial call reads _currentUser without   *)
(* the queue, and may run before the load.                                 *)
(***************************************************************************)
EXTENDS Naturals, Sequences

CONSTANTS
  Uid,          \* user identifiers
  NoUid,        \* the uid of no user
  Never,        \* what the listener has heard before its first call
  Nobody,       \* the keychain without a stored user
  MaxRetry,     \* the longest back-off: MIN(2 * delay, kMaxWaitTimeForBackoff)
  MaxUsers,     \* bound: FIRUser objects of one process
  MaxTokens,    \* bound: access tokens issued by the server
  MaxPending,   \* bound: notifications waiting on the main queue
  MaxTimers,    \* bound: equal refresh tasks waiting for their delay
  MaxFetches,   \* bound: token requests under way
  MaxFaults,    \* bound: keychain calls that fail in one process
  MaxRestarts   \* bound: restarts of the process

ASSUME NamesDiffer == NoUid \notin Uid /\ Never \notin Uid \cup {NoUid}
ASSUME RetryAssumption == MaxRetry \in Nat \ {0}
ASSUME BoundsAssumption ==
  /\ MaxTokens \in Nat /\ MaxUsers \in Nat \ {0} /\ MaxPending \in Nat
  /\ MaxFaults \in Nat /\ MaxRestarts \in Nat

VARIABLES
  objs,         \* the FIRUser objects of this process: uid and rawAccessToken
  user,         \* _currentUser: an index of objs, 0 for nil
  notified,     \* _lastNotifiedUserToken, 0 for nil
  disk,         \* the user stored in the keychain
  loaded,       \* the work block of initWithApp has run
  listening,    \* viewDidLoad has added the listener
  pending,      \* blocks on the main queue
  first, prev,  \* firstInvocation, previousUserID of the listener's block
  heard,        \* what the listener was last called with
  autoRefresh, scheduled, background, \* _autoRefreshTokens and its flags
  timers,       \* refresh tasks waiting, by token and retry (0: no retry)
  fetches,      \* requests in the users' serial task queues
  minted, faults, restarts

main == <<listening, pending, first, prev, heard>>
refresh == <<autoRefresh, scheduled, background, timers, fetches>>
vars == <<objs, user, notified, disk, loaded, main, refresh, minted, faults, restarts>>

Account == [uid : Uid, token : 1..MaxTokens]
Task == (1..MaxTokens) \X (0..MaxRetry)
Request == [obj : 1..MaxUsers, auto : BOOLEAN, retry : 0..MaxRetry]

Token(u, os) == IF u = 0 THEN 0 ELSE os[u].token
UidOf(u, os) == IF u = 0 THEN NoUid ELSE os[u].uid
Stored(u, os) == IF u = 0 THEN Nobody ELSE os[u]

(***************************************************************************)
(* scheduleAutoTokenRefreshWithDelay:retry: for a current token t.         *)
(***************************************************************************)
Schedule(t, r) ==
  IF t = 0 THEN UNCHANGED <<scheduled, timers>>
  ELSE /\ timers[<<t, r>>] < MaxTimers
       /\ scheduled' = TRUE
       /\ timers' = [timers EXCEPT ![<<t, r>>] = @ + 1]

PostSignedIn(u, os) ==
  LET t == Token(u, os)
  IN  IF t \in {0, notified} THEN UNCHANGED <<notified, pending, scheduled, timers>>
      ELSE /\ pending < MaxPending
           /\ notified' = t
           /\ pending' = pending + 1
           /\ IF autoRefresh THEN Schedule(t, 0) ELSE UNCHANGED <<scheduled, timers>>

(***************************************************************************)
(* possiblyPostAuthStateChangeNotification when the current user is u.     *)
(***************************************************************************)
Post(u, os) ==
  LET t == Token(u, os)
  IN  IF t = notified THEN UNCHANGED <<notified, pending, scheduled, timers>>
      ELSE /\ pending < MaxPending
           /\ notified' = t
           /\ pending' = pending + 1
           /\ IF autoRefresh THEN Schedule(t, 0) ELSE UNCHANGED <<scheduled, timers>>

(***************************************************************************)
(* saveUser:error:, which succeeds (ok) or leaves the keychain as it was.  *)
(***************************************************************************)
SaveUser(u, os, ok) ==
  /\ ok \/ faults < MaxFaults
  /\ disk' = IF ok THEN Stored(u, os) ELSE disk
  /\ faults' = IF ok THEN faults ELSE faults + 1

UpdateCurrentUser(u, os, force, save, ok) ==
  IF u = user
  THEN Post(u, os) /\ UNCHANGED <<user, disk, faults>>
  ELSE /\ IF save THEN SaveUser(u, os, ok) ELSE UNCHANGED <<disk, faults>>
       /\ IF force \/ ~save \/ ok
          THEN user' = u /\ Post(u, os)
          ELSE UNCHANGED <<user, notified, pending, scheduled, timers>>

SignOutByForce(o, os, ok) ==
  IF user # o
  THEN UNCHANGED <<user, disk, faults, notified, pending, scheduled, timers>>
  ELSE UpdateCurrentUser(0, os, TRUE, TRUE, ok)

(***************************************************************************)
(* What of the state a work block leaves alone unless it says otherwise.   *)
(***************************************************************************)
WorkBlock ==
  /\ loaded
  /\ UNCHANGED <<loaded, listening, first, prev, heard, restarts>>
NoRefresh == UNCHANGED <<autoRefresh, background, fetches>>

NoTimers == [t \in Task |-> 0]

Init ==
  /\ objs = <<>> /\ user = 0 /\ notified = 0 /\ disk = Nobody /\ loaded = FALSE
  /\ listening = FALSE /\ pending = 0 /\ first = TRUE /\ prev = NoUid
  /\ heard = Never
  /\ autoRefresh = FALSE /\ scheduled = FALSE /\ background = FALSE
  /\ timers = NoTimers /\ fetches = <<>>
  /\ minted = 0 /\ faults = 0 /\ restarts = 0

(***************************************************************************)
(* The work block of initWithApp: the stored user becomes the current one, *)
(* or the keychain cannot be read and nobody is.                           *)
(***************************************************************************)
Load(ok) ==
  /\ ~loaded
  /\ loaded' = TRUE
  /\ IF ok /\ disk # Nobody
     THEN objs' = <<disk>> /\ UpdateCurrentUser(1, <<disk>>, FALSE, FALSE, TRUE)
     ELSE /\ ok \/ faults < MaxFaults
          /\ faults' = IF ok THEN faults ELSE faults + 1
          /\ UNCHANGED <<objs, user, disk, notified, pending, scheduled, timers>>
  /\ UNCHANGED <<listening, first, prev, heard, minted, restarts>> /\ NoRefresh

SignedInByForce(uid, ok) ==
  /\ WorkBlock /\ NoRefresh
  /\ Len(objs) < MaxUsers /\ minted < MaxTokens
  /\ minted' = minted + 1
  /\ LET os == Append(objs, [uid |-> uid, token |-> minted + 1])
     IN  /\ objs' = IF ok THEN os ELSE objs
         /\ UpdateCurrentUser(Len(os), os, TRUE, TRUE, ok)

(***************************************************************************)
(* A sign-in of uid got its tokens (signInFlowAuthResultCallback...).  The *)
(* application never sees a user whose saving failed.                      *)
(***************************************************************************)
SignedIn(uid, ok) ==
  /\ WorkBlock /\ NoRefresh
  /\ Len(objs) < MaxUsers /\ minted < MaxTokens
  /\ minted' = minted + 1
  /\ LET os == Append(objs, [uid |-> uid, token |-> minted + 1])
     IN  /\ objs' = IF ok THEN os ELSE objs
         /\ UpdateCurrentUser(Len(os), os, FALSE, TRUE, ok)

UseUser(o, ok) ==
  /\ WorkBlock /\ NoRefresh
  /\ UpdateCurrentUser(o, objs, TRUE, TRUE, ok)
  /\ UNCHANGED <<objs, minted>>

SignOut(ok) ==
  /\ WorkBlock /\ NoRefresh
  /\ user # 0
  /\ UpdateCurrentUser(0, objs, FALSE, TRUE, ok)
  /\ UNCHANGED <<objs, minted>>

AccountDeleted(o, ok) ==
  /\ WorkBlock /\ NoRefresh
  /\ SignOutByForce(o, objs, ok)
  /\ UNCHANGED <<objs, minted>>

(***************************************************************************)
(* A token is asked for: by the application of any user object it holds,   *)
(* or by another Firebase library, which turns automatic refresh on.       *)
(***************************************************************************)
FetchToken(o) ==
  /\ WorkBlock
  /\ Len(fetches) < MaxFetches
  /\ fetches' = Append(fetches, [obj |-> o, auto |-> FALSE, retry |-> 0])
  /\ UNCHANGED <<objs, user, notified, disk, pending, minted, faults>>
  /\ UNCHANGED <<autoRefresh, scheduled, background, timers>>

EnableAutoRefresh ==
  /\ WorkBlock
  /\ ~autoRefresh
  /\ autoRefresh' = TRUE
  /\ Schedule(Token(user, objs), 0)
  /\ IF user = 0 THEN UNCHANGED fetches
     ELSE /\ Len(fetches) < MaxFetches
          /\ fetches' = Append(fetches, [obj |-> user, auto |-> FALSE, retry |-> 0])
  /\ UNCHANGED <<objs, user, notified, disk, pending, background, minted, faults>>

TimerKeepsFlag(t, r) ==
  /\ WorkBlock
  /\ timers[<<t, r>>] > 0
  /\ timers' = [timers EXCEPT ![<<t, r>>] = @ - 1]
  /\ IF Token(user, objs) = t /\ ~background
     THEN /\ Len(fetches) < MaxFetches
          /\ fetches' = Append(fetches, [obj |-> user, auto |-> TRUE, retry |-> r])
     ELSE UNCHANGED fetches
  /\ UNCHANGED <<objs, user, notified, disk, pending, autoRefresh, scheduled>>
  /\ UNCHANGED <<background, minted, faults>>

(***************************************************************************)
(* A refresh task's delay is over.  A task whose token is no longer the    *)
(* current one does nothing; in the background nothing is fetched.         *)
(***************************************************************************)
TimerFires(t, r) ==
  /\ WorkBlock
  /\ timers[<<t, r>>] > 0
  /\ timers' = [timers EXCEPT ![<<t, r>>] = @ - 1]
  /\ IF Token(user, objs) # t THEN UNCHANGED <<scheduled, fetches>>
     ELSE /\ scheduled' = FALSE
          /\ IF background THEN UNCHANGED fetches
             ELSE /\ Len(fetches) < MaxFetches
                  /\ fetches' = Append(fetches, [obj |-> user, auto |-> TRUE, retry |-> r])
  /\ UNCHANGED <<objs, user, notified, disk, pending, autoRefresh, background, minted, faults>>

(***************************************************************************)
(* The answer to the request at the head of a user's task queue.  A new    *)
(* token is saved and announced if the user is still the current one; a    *)
(* rejected user is signed out by force; a failed automatic refresh is     *)
(* tried again later, unless somebody else has signed in meanwhile.        *)
(***************************************************************************)
FirstOfUser(i) == \A j \in 1..(i - 1) : fetches[j].obj # fetches[i].obj

Retried(f, error, u, os) ==
  IF f.auto /\ error /\ UidOf(u, os) = os[f.obj].uid
  THEN Schedule(Token(u, os),
                IF f.retry = 0 THEN 1
                ELSE IF f.retry < MaxRetry THEN f.retry + 1 ELSE MaxRetry)
  ELSE UNCHANGED <<scheduled, timers>>

Answered(i) ==
  /\ WorkBlock
  /\ FirstOfUser(i)
  /\ fetches' = [j \in 1..(Len(fetches) - 1) |-> fetches[IF j < i THEN j ELSE j + 1]]
  /\ UNCHANGED <<autoRefresh, background>>

NewTokenUnsaved(i, ok) ==
  LET f == fetches[i]
      os == [objs EXCEPT ![f.obj].token = minted + 1]
  IN  /\ Answered(i)
      /\ minted < MaxTokens /\ minted' = minted + 1
      /\ objs' = os
      /\ UNCHANGED <<user, disk, faults>>
      /\ IF f.obj # user THEN UNCHANGED <<notified, pending, scheduled, timers>>
         ELSE Post(user, os)

NewTokenSaved(i, ok) ==
  LET f == fetches[i]
      os == [objs EXCEPT ![f.obj].token = minted + 1]
  IN  /\ Answered(i)
      /\ minted < MaxTokens /\ minted' = minted + 1
      /\ objs' = os
      /\ UNCHANGED user
      /\ SaveUser(f.obj, os, ok)
      /\ IF f.obj = user /\ ok THEN Post(user, os)
         ELSE UNCHANGED <<notified, pending, scheduled, timers>>

NewToken(i, ok) ==
  LET f == fetches[i]
      os == [objs EXCEPT ![f.obj].token = minted + 1]
  IN  /\ Answered(i)
      /\ minted < MaxTokens /\ minted' = minted + 1
      /\ objs' = os
      /\ UNCHANGED user
      /\ IF f.obj # user
         THEN UNCHANGED <<disk, faults, notified, pending, scheduled, timers>>
         ELSE /\ SaveUser(user, os, ok)
              /\ IF ok THEN Post(user, os)
                 ELSE Retried(f, TRUE, user, os) /\ UNCHANGED <<notified, pending>>

SameToken(i) ==
  /\ Answered(i)
  /\ UNCHANGED <<objs, user, notified, disk, pending, scheduled, timers, minted, faults>>

Rejected(i, ok) ==
  LET f == fetches[i]
  IN  /\ Answered(i)
      /\ IF f.obj = user THEN SignOutByForce(f.obj, objs, ok)
         ELSE /\ Retried(f, TRUE, user, objs)
              /\ UNCHANGED <<user, disk, faults, notified, pending>>
      /\ UNCHANGED <<objs, minted>>

Unreachable(i) ==
  /\ Answered(i)
  /\ Retried(fetches[i], TRUE, user, objs)
  /\ UNCHANGED <<objs, user, notified, disk, pending, minted, faults>>

(***************************************************************************)
(* The observers of the application's state, added with automatic refresh. *)
(***************************************************************************)
EnterBackground ==
  /\ autoRefresh
  /\ background' = TRUE
  /\ UNCHANGED <<objs, user, notified, disk, loaded, main, minted, faults, restarts>>
  /\ UNCHANGED <<autoRefresh, scheduled, timers, fetches>>

BecomeActive ==
  /\ autoRefresh
  /\ background' = FALSE
  /\ IF scheduled THEN UNCHANGED <<scheduled, timers>>
     ELSE Schedule(Token(user, objs), 0)
  /\ UNCHANGED <<objs, user, notified, disk, loaded, main, minted, faults, restarts>>
  /\ UNCHANGED <<autoRefresh, fetches>>

(***************************************************************************)
(* The main queue: the listener is added once, in viewDidLoad, and each    *)
(* block calls it through the filter of addAuthStateDidChangeListener.     *)
(***************************************************************************)
AddListener ==
  /\ ~listening
  /\ listening' = TRUE
  /\ pending' = pending + 1
  /\ UNCHANGED <<objs, user, notified, disk, loaded, first, prev, heard>>
  /\ UNCHANGED <<refresh, minted, faults, restarts>>

CalledOnce(uid) == first

Called(uid) == first \/ prev # uid

Deliver ==
  LET uid == UidOf(user, objs)
  IN  /\ pending > 0
      /\ pending' = pending - 1
      /\ IF listening
         THEN /\ heard' = IF Called(uid) THEN uid ELSE heard
              /\ first' = FALSE
              /\ prev' = uid
         ELSE UNCHANGED <<heard, first, prev>>
      /\ UNCHANGED <<objs, user, notified, disk, loaded, listening>>
      /\ UNCHANGED <<refresh, minted, faults, restarts>>

(***************************************************************************)
(* The process dies and is launched again: only the keychain survives.     *)
(***************************************************************************)
Restart ==
  /\ restarts < MaxRestarts
  /\ restarts' = restarts + 1
  /\ objs' = <<>> /\ user' = 0 /\ notified' = 0 /\ loaded' = FALSE
  /\ listening' = FALSE /\ pending' = 0 /\ first' = TRUE /\ prev' = NoUid
  /\ heard' = Never
  /\ autoRefresh' = FALSE /\ scheduled' = FALSE /\ background' = FALSE
  /\ timers' = NoTimers /\ fetches' = <<>>
  /\ faults' = 0
  /\ UNCHANGED <<disk, minted>>

SessionNext ==
  \E ok \in BOOLEAN :
    \/ Load(ok) \/ SignOut(ok)
    \/ \E uid \in Uid : SignedIn(uid, ok)
    \/ \E o \in DOMAIN objs : UseUser(o, ok) \/ AccountDeleted(o, ok)

RefreshNext ==
  \/ \E o \in DOMAIN objs : FetchToken(o)
  \/ \E t \in 1..MaxTokens, r \in 0..MaxRetry : TimerFires(t, r)
  \/ \E i \in DOMAIN fetches :
       \/ \E ok \in BOOLEAN : NewToken(i, ok) \/ Rejected(i, ok)
       \/ SameToken(i) \/ Unreachable(i)
  \/ EnableAutoRefresh \/ EnterBackground \/ BecomeActive

Next == SessionNext \/ RefreshNext \/ AddListener \/ Deliver \/ Restart

(***************************************************************************)
(* The run loop runs the blocks of the main queue, and every launch ends   *)
(* in ViewController.viewDidLoad.  Nobody has to sign in, no server has to *)
(* answer and no timer has to fire.                                        *)
(***************************************************************************)
Fairness == WF_vars(Deliver) /\ WF_vars(AddListener)

Spec == Init /\ [][Next]_vars /\ Fairness

-----------------------------------------------------------------------------
TypeOK ==
  /\ objs \in Seq(Account) /\ Len(objs) <= MaxUsers
  /\ user \in 0..Len(objs)
  /\ minted \in 0..MaxTokens /\ notified \in 0..MaxTokens
  /\ disk \in Account \cup {Nobody}
  /\ loaded \in BOOLEAN /\ listening \in BOOLEAN /\ first \in BOOLEAN
  /\ pending \in 0..(MaxPending + 1)
  /\ prev \in Uid \cup {NoUid} /\ heard \in Uid \cup {NoUid, Never}
  /\ autoRefresh \in BOOLEAN /\ scheduled \in BOOLEAN /\ background \in BOOLEAN
  /\ timers \in [Task -> Nat] /\ fetches \in Seq(Request)
  /\ \A i \in DOMAIN fetches : fetches[i].obj \in DOMAIN objs
  /\ faults \in 0..MaxFaults /\ restarts \in 0..MaxRestarts

(***************************************************************************)
(* A change is never lost on the way to the listener: while it has not     *)
(* heard who is signed in, a block that will tell it waits on the main     *)
(* queue.  Posts are coalesced by token and calls by uid, over forced and  *)
(* failed updates, switches between user objects and restarts.             *)
(***************************************************************************)
NothingMissed == listening /\ heard # UidOf(user, objs) => pending > 0

(***************************************************************************)
(* As long as the keychain works it holds the current user with its latest *)
(* token, so a restart finds the session as it was left.                   *)
(***************************************************************************)
DiskAgrees == loaded /\ faults = 0 => disk = Stored(user, objs)

(***************************************************************************)
(* Nobody comes back: the keychain is only ever given the current user,    *)
(* so an answer that arrives after a sign-out, or for an older user        *)
(* object, cannot store a user that a restart would sign in again.         *)
(***************************************************************************)
NobodyComesBack == [][disk' # disk => disk' = Stored(user', objs')]_vars

(***************************************************************************)
(* A refresh said to be scheduled for a signed-in user is: a task with its *)
(* token is waiting.  BecomeActive relies on the flag alone.               *)
(***************************************************************************)
Armed == scheduled /\ user # 0 => \E r \in 0..MaxRetry : timers[<<Token(user, objs), r>>] > 0

(***************************************************************************)
(* ... while the keychain works, whatever was signed in, refreshed,        *)
(* rejected or retried in between.                                         *)
(***************************************************************************)
ArmedWhileSaving == faults = 0 => Armed

(***************************************************************************)
(* A refresh task that finds another token than its own keeps the flag     *)
(* because "Another auto refresh must have been scheduled" (FIRAuth.m,     *)
(* scheduleAutoTokenRefreshWithDelay): a task for the token of the user    *)
(* who is signed in is waiting.                                            *)
(***************************************************************************)
StaleTaskReplaced ==
  [][\A t \in 1..MaxTokens, r \in 0..MaxRetry :
       TimerFires(t, r) /\ user # 0 /\ Token(user, objs) # t => Armed']_vars

(***************************************************************************)
(* FIRAuth implements what its header promises the listener, the promise   *)
(* that it is told included.                                               *)
(***************************************************************************)
Feed == INSTANCE AuthFeed WITH session <- UidOf(user, objs)
ImplementsFeed == Feed!Spec
=============================================================================
