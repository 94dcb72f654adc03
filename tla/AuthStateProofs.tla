-------------------------- MODULE AuthStateProofs ---------------------------
(***************************************************************************)
(* The signed-in user, the keychain and the listener for any number of     *)
(* users, tokens, timers and faults.  AuthInv is inductive: it adds to the *)
(* properties that no two user objects share a token, that only an object  *)
(* of the current user's identity can have the token last announced, what  *)
(* the listener's block remembers of its last call, and that nothing is    *)
(* scheduled, waiting or fetched automatically before EnableAutoRefresh.   *)
(***************************************************************************)
EXTENDS AuthState, SequenceTheorems, TLAPS

Fresh ==
  /\ \A o \in DOMAIN objs : objs[o].token <= minted
  /\ \A o, p \in DOMAIN objs : objs[o].token = objs[p].token => o = p
  /\ disk # Nobody => disk.token <= minted
  /\ notified <= minted

Announced ==
  /\ (notified = 0) <=> (user = 0)
  /\ \A o \in DOMAIN objs : objs[o].token = notified => objs[o].uid = UidOf(user, objs)
  /\ faults = 0 => notified = Token(user, objs)

Remembered ==
  /\ ~loaded => user = 0 /\ objs = <<>>
  /\ ~listening => pending <= MaxPending
  /\ heard = IF first THEN Never ELSE prev

Asked ==
  /\ fetches \in Seq(Request)
  /\ \A i \in DOMAIN fetches :
       fetches[i].obj \in DOMAIN objs /\ (fetches[i].auto => autoRefresh)

Enabled ==
  /\ timers \in [Task -> Nat]
  /\ autoRefresh \in BOOLEAN /\ scheduled \in BOOLEAN /\ background \in BOOLEAN
  /\ ~autoRefresh => ~scheduled /\ timers = NoTimers

AuthInv ==
  /\ TypeOK /\ Fresh /\ Announced /\ Remembered /\ Asked /\ Enabled
  /\ NothingMissed /\ DiskAgrees /\ ArmedWhileSaving

(***************************************************************************)
(* Tokens are positive, so 0 is no token and the uid of a user is one.     *)
(***************************************************************************)
LEMMA TokenRange ==
  ASSUME NEW os \in Seq(Account), NEW u \in 0..Len(os)
  PROVE  /\ Token(u, os) \in 0..MaxTokens
         /\ (Token(u, os) = 0) <=> (u = 0)
         /\ UidOf(u, os) \in Uid \cup {NoUid}
         /\ u # 0 => UidOf(u, os) # NoUid
         /\ Stored(u, os) \in Account \cup {Nobody}
  <1>1. CASE u = 0
    BY <1>1, BoundsAssumption DEF Token, UidOf, Stored
  <1>2. CASE u # 0
    <2>1. u \in 1..Len(os)
      BY <1>2
    <2>2. os[u] \in Account
      BY <2>1, ElementOfSeq
    <2> QED
      BY <1>2, <2>2, BoundsAssumption, NamesDiffer DEF Token, UidOf, Stored, Account
  <1> QED
    BY <1>1, <1>2

(***************************************************************************)
(* Scheduling never takes a task away and leaves one for its token.        *)
(***************************************************************************)
LEMMA Scheduling ==
  ASSUME timers \in [Task -> Nat], scheduled \in BOOLEAN,
         NEW t \in 0..MaxTokens, NEW r \in 0..MaxRetry, Schedule(t, r)
  PROVE  /\ timers' \in [Task -> Nat] /\ scheduled' \in BOOLEAN
         /\ t = 0 => UNCHANGED <<scheduled, timers>>
         /\ t # 0 => scheduled' /\ timers'[<<t, r>>] > 0
  <1>1. CASE t = 0
    BY <1>1 DEF Schedule
  <1>2. CASE t # 0
    <2>1. <<t, r>> \in Task
      BY <1>2 DEF Task
    <2>2. timers' = [timers EXCEPT ![<<t, r>>] = @ + 1] /\ scheduled' = TRUE
      BY <1>2 DEF Schedule
    <2>3. timers[<<t, r>>] \in Nat
      BY <2>1
    <2>4. timers' \in [Task -> Nat] /\ timers'[<<t, r>>] = timers[<<t, r>>] + 1
      BY <2>1, <2>2, <2>3
    <2>5. timers'[<<t, r>>] > 0
      BY <2>3, <2>4
    <2> QED
      BY <1>2, <2>2, <2>4, <2>5, Zenon
  <1> QED
    BY <1>1, <1>2

(***************************************************************************)
(* What every way of making u the current user has in common: the posting  *)
(* is skipped only if the listener has been told of u's identity or will   *)
(* be, and a task for the new token is scheduled whenever tokens are       *)
(* refreshed.                                                              *)
(***************************************************************************)
LEMMA Posting ==
  ASSUME AuthInv, NEW os \in Seq(Account), NEW u \in 0..Len(os), Post(u, os),
         objs' = os, user' = u,
         UNCHANGED <<listening, heard, autoRefresh, background>>,
         \A o, p \in DOMAIN os : os[o].token = os[p].token => o = p,
         \A o \in DOMAIN os : os[o].token = notified => os[o].uid = UidOf(user, objs),
         faults' = 0 => faults = 0
  PROVE  /\ notified' = Token(u, os) /\ Announced'
         /\ NothingMissed' /\ ArmedWhileSaving'
         /\ pending' \in 0..(MaxPending + 1) /\ (~listening => pending' <= MaxPending)
         /\ Enabled'
  <1> DEFINE t == Token(u, os)
  <1>1. t \in 0..MaxTokens /\ ((t = 0) <=> (u = 0))
    BY TokenRange
  <1>2. UidOf(u, os) = UidOf(user, objs) \/ t # notified
    <2>1. CASE u = 0
      BY <2>1, <1>1 DEF AuthInv, Announced, UidOf
    <2>2. CASE u # 0
      <3>1. u \in DOMAIN os /\ t = os[u].token
        BY <2>2 DEF Token
      <3> QED
        BY <3>1, <2>2 DEF UidOf
    <2> QED
      BY <2>1, <2>2
  <1>3. notified' = t
    BY DEF Post
  <1>n. Token(user, objs)' = t /\ UidOf(user, objs)' = UidOf(u, os)
    BY DEF Token, UidOf
  <1>4. Announced'
    <2>1. ASSUME NEW o \in DOMAIN os, os[o].token = t
          PROVE  os[o].uid = UidOf(u, os)
      <3>1. os[o] \in Account
        BY ElementOfSeq
      <3>2. t # 0 /\ u # 0
        BY <2>1, <3>1, <1>1 DEF Account
      <3>3. u \in DOMAIN os /\ t = os[u].token
        BY <3>2 DEF Token
      <3> QED
        BY <2>1, <3>2, <3>3 DEF UidOf
    <2> QED
      BY <1>1, <1>3, <2>1 DEF Announced
  <1>5. CASE t = notified
    <2>1. UNCHANGED <<notified, pending, scheduled, timers>>
      BY <1>5 DEF Post
    <2>2. NothingMissed'
      BY <1>2, <1>5, <1>n, <2>1 DEF AuthInv, NothingMissed
    <2>3. ArmedWhileSaving'
      <3> SUFFICES ASSUME faults = 0, scheduled = TRUE, user # 0, u # 0
                   PROVE  \E r \in 0..MaxRetry : timers[<<t, r>>] > 0
        BY <1>1, <1>3, <1>5, <1>n, <2>1 DEF ArmedWhileSaving, Armed, AuthInv, Announced
      <3> QED
        BY <1>5 DEF AuthInv, ArmedWhileSaving, Armed, Announced
    <2>4. /\ pending \in 0..(MaxPending + 1) /\ (~listening => pending <= MaxPending)
      BY DEF AuthInv, TypeOK, Remembered
    <2>5. Enabled'
      BY <2>1 DEF AuthInv, Enabled
    <2> QED
      BY <1>3, <1>4, <2>1, <2>2, <2>3, <2>4, <2>5
  <1>6. CASE t # notified
    <2>1. pending < MaxPending /\ pending' = pending + 1
      BY <1>6 DEF Post
    <2>2. pending \in Nat /\ MaxPending \in Nat
      BY BoundsAssumption DEF AuthInv, TypeOK
    <2>3. NothingMissed'
      BY <2>1, <2>2 DEF NothingMissed
    <2>4. /\ Enabled'
          /\ scheduled' /\ t # 0 => timers'[<<t, 0>>] > 0
      <3>1. CASE autoRefresh
        <4>1. Schedule(t, 0)
          BY <1>6, <3>1 DEF Post
        <4>2. 0 \in 0..MaxRetry
          BY RetryAssumption
        <4>3. timers \in [Task -> Nat] /\ scheduled \in BOOLEAN
          BY DEF AuthInv, Enabled
        <4> HIDE DEF t
        <4>4. /\ timers' \in [Task -> Nat] /\ scheduled' \in BOOLEAN
              /\ t = 0 => UNCHANGED <<scheduled, timers>>
              /\ t # 0 => scheduled' /\ timers'[<<t, 0>>] > 0
          BY <1>1, <4>1, <4>2, <4>3, Scheduling
        <4> QED
          BY <3>1, <4>4 DEF AuthInv, Enabled
      <3>2. CASE ~autoRefresh
        BY <1>6, <3>2 DEF Post, AuthInv, Enabled
      <3> QED
        BY <3>1, <3>2
    <2>5. ArmedWhileSaving'
      <3>1. 0 \in 0..MaxRetry
        BY RetryAssumption
      <3> SUFFICES ASSUME scheduled', u # 0
                   PROVE  \E r \in 0..MaxRetry : timers'[<<t, r>>] > 0
        BY <1>n DEF ArmedWhileSaving, Armed
      <3> QED
        BY <1>1, <2>4, <3>1
    <2> QED
      BY <1>3, <1>4, <2>1, <2>2, <2>3, <2>4, <2>5
  <1> QED
    BY <1>5, <1>6

(***************************************************************************)
(* A step that makes u the current user and announces it keeps AuthInv if  *)
(* the tokens stay distinct and the keychain gets u, or needs no change.   *)
(***************************************************************************)
Minted(os, m) ==
  /\ \A o \in DOMAIN os : os[o].token <= m
  /\ \A o, p \in DOMAIN os : os[o].token = os[p].token => o = p

LEMMA Replaced ==
  ASSUME AuthInv, NEW os \in Seq(Account), NEW u \in 0..Len(os), Post(u, os),
         objs' = os, user' = u, Len(os) <= MaxUsers,
         UNCHANGED <<listening, heard, autoRefresh, background, first, prev, restarts>>,
         loaded', minted' \in minted..MaxTokens, Minted(os, minted'),
         \A o \in DOMAIN os : os[o].token = notified => os[o].uid = UidOf(user, objs),
         faults' \in faults..MaxFaults,
         disk' \in {disk, Stored(u, os)},
         faults' = 0 => disk' = Stored(u, os),
         Asked'
  PROVE  AuthInv'
  <1>1. faults' = 0 => faults = 0
    BY BoundsAssumption DEF AuthInv, TypeOK
  <1>2. /\ notified' = Token(u, os) /\ Announced' /\ NothingMissed' /\ ArmedWhileSaving'
        /\ pending' \in 0..(MaxPending + 1) /\ (~listening => pending' <= MaxPending)
        /\ Enabled'
    BY <1>1, Posting DEF Minted
  <1>3. /\ Token(u, os) \in 0..MaxTokens /\ Stored(u, os) \in Account \cup {Nobody}
    BY TokenRange
  <1>4. minted \in Nat /\ minted' \in 0..MaxTokens /\ minted <= minted' /\ MaxTokens \in Nat
    BY BoundsAssumption DEF AuthInv, TypeOK
  <1>5. u # 0 => u \in DOMAIN os
    OBVIOUS
  <1>6. Fresh'
    <2>1. Token(u, os) <= minted'
      BY <1>4, <1>5 DEF Token, Minted
    <2>2. disk' # Nobody => disk'.token <= minted'
      <3>1. CASE disk' = disk
        <4>1. disk # Nobody => disk \in Account /\ disk.token <= minted
          BY DEF AuthInv, TypeOK, Fresh
        <4>2. disk # Nobody => disk.token \in Nat
          BY <4>1, BoundsAssumption DEF Account
        <4> QED
          BY <3>1, <4>1, <4>2, <1>4
      <3>2. CASE disk' = Stored(u, os)
        BY <3>2, <1>5 DEF Stored, Minted
      <3> QED
        BY <3>1, <3>2
    <2> QED
      BY <1>2, <2>1, <2>2 DEF Fresh, Minted
  <1>7. TypeOK'
    <2>1. faults' \in 0..MaxFaults
      BY BoundsAssumption DEF AuthInv, TypeOK
    <2> QED
      BY <1>2, <1>3, <1>4, <2>1 DEF AuthInv, TypeOK, Asked, Enabled
  <1>8. Remembered'
    BY <1>2 DEF AuthInv, Remembered
  <1>9. DiskAgrees'
    BY DEF DiskAgrees, Stored
  <1> QED
    BY <1>2, <1>6, <1>7, <1>8, <1>9 DEF AuthInv

(***************************************************************************)
(* A step that leaves the current user, what was announced and the         *)
(* keychain alone, and changes at most tokens that were not announced.     *)
(***************************************************************************)
LEMMA Kept ==
  ASSUME AuthInv, NEW os \in Seq(Account), objs' = os,
         UNCHANGED <<user, notified, disk, pending, restarts>>,
         UNCHANGED <<loaded, listening, heard, first, prev>>,
         Len(os) = Len(objs), loaded \/ os = <<>>,
         minted' \in minted..MaxTokens, Minted(os, minted'),
         \A o \in DOMAIN os : os[o].uid = objs[o].uid,
         \A o \in DOMAIN os : os[o].token = notified => objs[o].token = notified,
         faults' \in faults..MaxFaults,
         faults' = 0 => Token(user, os) = Token(user, objs) /\ Stored(user, os) = Stored(user, objs),
         Asked', Enabled', ArmedWhileSaving'
  PROVE  AuthInv'
  <1>1. faults' = 0 => faults = 0
    BY BoundsAssumption DEF AuthInv, TypeOK
  <1>2. user \in 0..Len(objs) /\ DOMAIN os = DOMAIN objs /\ (user # 0 => user \in DOMAIN os)
    BY DEF AuthInv, TypeOK
  <1>3. UidOf(user, objs)' = UidOf(user, os) /\ UidOf(user, os) = UidOf(user, objs)
    BY <1>2 DEF UidOf
  <1>4. minted \in Nat /\ minted' \in 0..MaxTokens /\ minted <= minted' /\ MaxTokens \in Nat
    BY BoundsAssumption DEF AuthInv, TypeOK
  <1>5. Token(user, objs)' = Token(user, os) /\ Stored(user, objs)' = Stored(user, os)
    BY DEF Token, Stored
  <1>6. Fresh'
    <2>1. notified <= minted' /\ notified' = notified
      BY <1>4 DEF AuthInv, TypeOK, Fresh
    <2>2. disk # Nobody => disk \in Account /\ disk.token <= minted
      BY DEF AuthInv, TypeOK, Fresh
    <2>3. disk # Nobody => disk.token \in Nat
      BY <2>2, BoundsAssumption DEF Account
    <2>4. disk' # Nobody => disk'.token <= minted'
      BY <1>4, <2>2, <2>3
    <2> QED
      BY <2>1, <2>4 DEF Fresh, Minted
  <1>7. Announced'
    BY <1>1, <1>2, <1>3, <1>5 DEF AuthInv, Announced
  <1>8. TypeOK'
    <2>1. faults' \in 0..MaxFaults
      BY BoundsAssumption DEF AuthInv, TypeOK
    <2> QED
      BY <1>4, <2>1 DEF AuthInv, TypeOK, Asked, Enabled
  <1>9. Remembered' /\ NothingMissed'
    BY <1>3 DEF AuthInv, Remembered, NothingMissed
  <1>10. DiskAgrees'
    BY <1>1, <1>5 DEF AuthInv, DiskAgrees
  <1> QED
    BY <1>6, <1>7, <1>8, <1>9, <1>10 DEF AuthInv

LEMMA Unmoved ==
  ASSUME AuthInv
  PROVE  /\ objs \in Seq(Account) /\ Len(objs) <= MaxUsers /\ user \in 0..Len(objs)
         /\ minted \in minted..MaxTokens /\ faults \in faults..MaxFaults
         /\ Minted(objs, minted)
         /\ \A o \in DOMAIN objs : objs[o].token = notified => objs[o].uid = UidOf(user, objs)
  BY BoundsAssumption DEF AuthInv, TypeOK, Fresh, Minted, Announced

(***************************************************************************)
(* updateCurrentUser:byForce:savingToDisk:error: when it succeeds, and     *)
(* when the keychain refuses the user and nothing was forced.              *)
(***************************************************************************)
LEMMA Updating ==
  ASSUME AuthInv, NEW os \in Seq(Account), NEW u \in 0..Len(os),
         NEW force \in BOOLEAN, NEW save \in BOOLEAN, NEW ok \in BOOLEAN,
         UpdateCurrentUser(u, os, force, save, ok),
         force \/ ~save \/ ok, objs' = os, Len(os) <= MaxUsers,
         UNCHANGED <<listening, heard, autoRefresh, background, first, prev, restarts>>,
         loaded', minted' \in minted..MaxTokens, Minted(os, minted'),
         \A o \in DOMAIN os : os[o].token = notified => os[o].uid = UidOf(user, objs),
         u = user => loaded /\ os = objs,
         ~save => disk = Stored(u, os),
         Asked'
  PROVE  AuthInv'
  <1>1. user' = u /\ Post(u, os)
    BY DEF UpdateCurrentUser
  <1>2. MaxFaults \in Nat /\ faults \in 0..MaxFaults
    BY BoundsAssumption DEF AuthInv, TypeOK
  <1>3. /\ faults' \in faults..MaxFaults /\ disk' \in {disk, Stored(u, os)}
        /\ faults' = 0 => disk' = Stored(u, os)
    <2>1. CASE u = user
      BY <2>1, <1>2 DEF UpdateCurrentUser, AuthInv, DiskAgrees
    <2>2. CASE u # user /\ ~save
      BY <2>2, <1>2 DEF UpdateCurrentUser
    <2>3. CASE u # user /\ save /\ ok
      BY <2>3, <1>2 DEF UpdateCurrentUser, SaveUser
    <2>4. CASE u # user /\ save /\ ~ok
      <3>1. faults < MaxFaults /\ faults' = faults + 1 /\ disk' = disk
        BY <2>4 DEF UpdateCurrentUser, SaveUser
      <3> QED
        BY <3>1, <1>2
    <2> QED
      BY <2>1, <2>2, <2>3, <2>4
  <1> QED
    BY <1>1, <1>3, Replaced

LEMMA Refused ==
  ASSUME AuthInv, faults < MaxFaults, faults' = faults + 1, minted' \in minted..MaxTokens,
         UNCHANGED <<objs, user, notified, disk, pending, restarts>>,
         \/ UNCHANGED loaded
         \/ loaded',
         UNCHANGED <<listening, heard, first, prev>>,
         UNCHANGED <<autoRefresh, background, scheduled, timers, fetches>>
  PROVE  AuthInv'
  <1>1. faults' # 0 /\ faults' \in 0..MaxFaults
    BY BoundsAssumption DEF AuthInv, TypeOK
  <1>2. minted \in Nat /\ minted' \in 0..MaxTokens /\ minted <= minted' /\ MaxTokens \in Nat
    BY BoundsAssumption DEF AuthInv, TypeOK
  <1>3. TypeOK'
    BY <1>1, <1>2 DEF AuthInv, TypeOK
  <1>4. Fresh'
    <2>1. \A o \in DOMAIN objs : objs[o].token \in Nat
      <3>1. \A o \in DOMAIN objs : objs[o] \in Account
        BY ElementOfSeq DEF AuthInv, TypeOK
      <3> QED
        BY <3>1, BoundsAssumption DEF Account
    <2>2. disk # Nobody => disk.token \in Nat
      BY BoundsAssumption DEF AuthInv, TypeOK, Account
    <2>3. notified \in Nat
      BY BoundsAssumption DEF AuthInv, TypeOK
    <2> QED
      BY <1>2, <2>1, <2>2, <2>3 DEF AuthInv, Fresh
  <1>5. Announced' /\ Remembered' /\ Asked' /\ Enabled' /\ NothingMissed'
    BY <1>1 DEF AuthInv, Announced, Remembered, Asked, Enabled, NothingMissed, UidOf, Token
  <1> QED
    BY <1>1, <1>3, <1>4, <1>5 DEF AuthInv, DiskAgrees, ArmedWhileSaving

(***************************************************************************)
(* The actions of a session: one step for each.                            *)
(***************************************************************************)
LEMMA AskedKept ==
  ASSUME AuthInv, UNCHANGED <<autoRefresh, fetches>>, NEW os \in Seq(Account),
         objs' = os, Len(objs) <= Len(os)
  PROVE  Asked'
  <1>1. DOMAIN objs \subseteq DOMAIN os
    BY DEF AuthInv, TypeOK
  <1> QED
    BY <1>1 DEF AuthInv, Asked

LEMMA LoadStep ==
  ASSUME AuthInv, NEW ok \in BOOLEAN, Load(ok)
  PROVE  AuthInv'
  <1>1. user = 0 /\ objs = <<>> /\ ~loaded
    BY DEF Load, AuthInv, Remembered
  <1>2. CASE ok /\ disk # Nobody
    <2> DEFINE os == <<disk>>
    <2>1. disk \in Account /\ os \in Seq(Account) /\ Len(os) = 1 /\ os[1] = disk
      BY <1>2 DEF AuthInv, TypeOK
    <2>2. objs' = os /\ UpdateCurrentUser(1, os, FALSE, FALSE, TRUE) /\ loaded'
      BY <1>2 DEF Load
    <2>3. /\ Minted(os, minted) /\ disk = Stored(1, os)
          /\ \A o \in DOMAIN os : os[o].token = notified => os[o].uid = UidOf(user, objs)
      <3>1. notified = 0
        BY <1>1 DEF AuthInv, Announced
      <3>2. disk.token # 0 /\ disk.token <= minted
        BY <1>2, <2>1, BoundsAssumption DEF Account, AuthInv, Fresh
      <3> QED
        BY <2>1, <3>1, <3>2 DEF Minted, Stored
    <2>4. Asked'
      <3>1. \A i \in DOMAIN fetches : FALSE
        BY <1>1 DEF AuthInv, Asked
      <3> QED
        BY <3>1 DEF AuthInv, Asked, Load, NoRefresh
    <2>5. /\ UNCHANGED <<listening, heard, autoRefresh, background, first, prev, restarts>>
          /\ minted' = minted /\ minted' \in minted..MaxTokens /\ Len(os) <= MaxUsers
          /\ 1 \in 0..Len(os) /\ 1 # user /\ Minted(os, minted')
      BY <1>1, <2>1, <2>3, Unmoved, BoundsAssumption DEF Load, NoRefresh
    <2> HIDE DEF os
    <2> QED
      BY <1>1, <2>1, <2>2, <2>3, <2>4, <2>5, Updating
  <1>3. CASE ~(ok /\ disk # Nobody) /\ ~ok
    <2>1. /\ UNCHANGED <<objs, user, notified, disk, pending, restarts>>
          /\ UNCHANGED <<listening, heard, first, prev>>
          /\ UNCHANGED <<autoRefresh, background, scheduled, timers, fetches>>
          /\ loaded' /\ minted' = minted /\ faults < MaxFaults /\ faults' = faults + 1
      BY <1>3 DEF Load, NoRefresh
    <2> QED
      BY <2>1, Unmoved, Refused
  <1>4. CASE ~(ok /\ disk # Nobody) /\ ok
    <2>1. disk = Nobody /\ faults' = faults /\ loaded'
      BY <1>4 DEF Load
    <2>2. Stored(user, objs)' = disk
      BY <1>1, <1>4, <2>1 DEF Load, Stored
    <2>3. AuthInv /\ UNCHANGED <<objs, user, notified, disk, pending, restarts>>
          /\ UNCHANGED <<listening, heard, first, prev, minted, faults>>
          /\ UNCHANGED <<autoRefresh, background, scheduled, timers, fetches>>
      BY <1>4 DEF Load, NoRefresh
    <2> QED
      BY <2>1, <2>2, <2>3 DEF AuthInv, TypeOK, Fresh, Announced, Remembered, Asked,
         Enabled, NothingMissed, DiskAgrees, ArmedWhileSaving, Armed, UidOf, Token
  <1> QED
    BY <1>2, <1>3, <1>4

LEMMA SignedInStep ==
  ASSUME AuthInv, NEW uid \in Uid, NEW ok \in BOOLEAN, SignedIn(uid, ok)
  PROVE  AuthInv'
  <1> DEFINE new == [uid |-> uid, token |-> minted + 1]
             os == Append(objs, new)
  <1>1. /\ objs \in Seq(Account) /\ Len(objs) < MaxUsers /\ user \in 0..Len(objs)
        /\ minted \in Nat /\ minted' = minted + 1 /\ minted' \in minted..MaxTokens
        /\ MaxUsers \in Nat
    BY BoundsAssumption DEF SignedIn, AuthInv, TypeOK
  <1>2. new \in Account
    BY <1>1 DEF Account
  <1>3. /\ os \in Seq(Account) /\ Len(os) = Len(objs) + 1 /\ os[Len(os)] = new
        /\ \A o \in DOMAIN os : (o \in DOMAIN objs /\ os[o] = objs[o]) \/ o = Len(os)
    BY <1>1, <1>2
  <1>4. Len(os) # user /\ Len(os) \in 0..Len(os) /\ Len(os) <= MaxUsers
    BY <1>1, <1>3
  <1>5. /\ UpdateCurrentUser(Len(os), os, FALSE, TRUE, ok) /\ loaded /\ loaded'
        /\ UNCHANGED <<listening, heard, autoRefresh, background, first, prev, restarts, fetches>>
    BY DEF SignedIn, WorkBlock, NoRefresh
  <1>6. CASE ok
    <2>1. objs' = os
      BY <1>6 DEF SignedIn
    <2>2. \A o \in DOMAIN objs : objs[o] \in Account
      BY <1>1, ElementOfSeq
    <2>3. \A o \in DOMAIN objs : objs[o].token \in Nat /\ objs[o].token <= minted
      BY <2>2, BoundsAssumption DEF Account, AuthInv, Fresh
    <2>4. Minted(os, minted')
      <3>1. ASSUME NEW o \in DOMAIN os PROVE os[o].token <= minted'
        BY <1>1, <1>3, <2>3
      <3>2. ASSUME NEW o \in DOMAIN os, NEW p \in DOMAIN os, os[o].token = os[p].token
            PROVE  o = p
        <4>1. CASE o = Len(os) \/ p = Len(os)
          BY <1>1, <1>3, <2>3, <3>2, <4>1
        <4>2. CASE o # Len(os) /\ p # Len(os)
          BY <1>3, <3>2, <4>2 DEF AuthInv, Fresh
        <4> QED
          BY <4>1, <4>2
      <3> HIDE DEF os
      <3> QED
        BY <3>1, <3>2 DEF Minted
    <2>5. \A o \in DOMAIN os : os[o].token = notified => os[o].uid = UidOf(user, objs)
      <3>1. notified \in Nat /\ notified <= minted
        BY BoundsAssumption DEF AuthInv, TypeOK, Fresh
      <3>2. os[Len(os)].token # notified
        BY <1>1, <1>3, <3>1
      <3> QED
        BY <1>3, <3>2 DEF AuthInv, Announced
    <2> HIDE DEF os
    <2>6. Asked'
      BY <1>1, <1>3, <1>5, <2>1, AskedKept
    <2> QED
      BY <1>1, <1>3, <1>4, <1>5, <1>6, <2>1, <2>4, <2>5, <2>6, Updating
  <1>7. CASE ~ok
    <2>1. /\ UNCHANGED <<objs, user, notified, disk, pending, scheduled, timers>>
          /\ faults < MaxFaults /\ faults' = faults + 1
      BY <1>4, <1>5, <1>7 DEF SignedIn, UpdateCurrentUser, SaveUser
    <2> QED
      BY <1>1, <1>5, <2>1, Refused
  <1> QED
    BY <1>6, <1>7

LEMMA Switching ==
  ASSUME AuthInv, NEW u \in 0..Len(objs), NEW force \in BOOLEAN, NEW ok \in BOOLEAN,
         UpdateCurrentUser(u, objs, force, TRUE, ok), loaded,
         UNCHANGED <<objs, loaded, minted, listening, first, prev, heard, restarts>>,
         UNCHANGED <<autoRefresh, background>>,
         force \/ UNCHANGED fetches, Asked'
  PROVE  AuthInv'
  <1>1. /\ objs \in Seq(Account) /\ Len(objs) <= MaxUsers /\ minted' \in minted..MaxTokens
        /\ Minted(objs, minted')
        /\ \A o \in DOMAIN objs : objs[o].token = notified => objs[o].uid = UidOf(user, objs)
    BY Unmoved
  <1>2. CASE force \/ ok
    BY <1>1, <1>2, Updating
  <1>3. CASE ~force /\ ~ok /\ u = user
    <2>1. UpdateCurrentUser(u, objs, TRUE, TRUE, ok)
      BY <1>3 DEF UpdateCurrentUser
    <2> QED
      BY <1>1, <2>1, Updating
  <1>4. CASE ~force /\ ~ok /\ u # user
    <2>1. /\ UNCHANGED <<objs, user, notified, disk, pending, scheduled, timers>>
          /\ faults < MaxFaults /\ faults' = faults + 1
      BY <1>4 DEF UpdateCurrentUser, SaveUser
    <2> QED
      BY <1>1, <1>4, <2>1, Refused
  <1> QED
    BY <1>2, <1>3, <1>4

LEMMA UserSteps ==
  ASSUME AuthInv, NEW ok \in BOOLEAN,
         \/ SignOut(ok)
         \/ \E o \in DOMAIN objs : UseUser(o, ok) \/ AccountDeleted(o, ok)
  PROVE  AuthInv'
  <1>1. objs \in Seq(Account) /\ 0 \in 0..Len(objs) /\ DOMAIN objs \subseteq 0..Len(objs)
    BY DEF AuthInv, TypeOK
  <1>2. CASE SignOut(ok)
    <2>1. /\ UpdateCurrentUser(0, objs, FALSE, TRUE, ok) /\ loaded
          /\ UNCHANGED <<objs, loaded, minted, listening, first, prev, heard, restarts>>
          /\ UNCHANGED <<autoRefresh, background, fetches>>
      BY <1>2 DEF SignOut, WorkBlock, NoRefresh
    <2>2. Asked'
      BY <2>1 DEF AuthInv, Asked
    <2> QED
      BY <1>1, <2>1, <2>2, Switching
  <1>3. ASSUME NEW o \in DOMAIN objs, UseUser(o, ok) PROVE AuthInv'
    <2>1. /\ UpdateCurrentUser(o, objs, TRUE, TRUE, ok) /\ loaded
          /\ UNCHANGED <<objs, loaded, minted, listening, first, prev, heard, restarts>>
          /\ UNCHANGED <<autoRefresh, background, fetches>>
      BY <1>3 DEF UseUser, WorkBlock, NoRefresh
    <2>2. Asked' /\ o \in 0..Len(objs)
      BY <1>1, <2>1 DEF AuthInv, Asked
    <2> QED
      BY <2>1, <2>2, Switching
  <1>4. ASSUME NEW o \in DOMAIN objs, AccountDeleted(o, ok) PROVE AuthInv'
    <2>1. /\ SignOutByForce(o, objs, ok) /\ loaded
          /\ UNCHANGED <<objs, loaded, minted, listening, first, prev, heard, restarts>>
          /\ UNCHANGED <<autoRefresh, background, fetches>>
      BY <1>4 DEF AccountDeleted, WorkBlock, NoRefresh
    <2>2. Asked'
      BY <2>1 DEF AuthInv, Asked
    <2>3. CASE user = o
      <3>1. UpdateCurrentUser(0, objs, TRUE, TRUE, ok)
        BY <2>1, <2>3 DEF SignOutByForce
      <3> QED
        BY <1>1, <2>1, <2>2, <3>1, Switching
    <2>4. CASE user # o
      <3>1. UNCHANGED <<user, disk, faults, notified, pending, scheduled, timers>>
        BY <2>1, <2>4 DEF SignOutByForce
      <3> QED
        BY <2>1, <3>1 DEF AuthInv, TypeOK, Fresh, Announced, Remembered, Asked, Enabled,
           NothingMissed, DiskAgrees, ArmedWhileSaving, Armed, UidOf, Token, Stored
    <2> QED
      BY <2>3, <2>4
  <1> QED
    BY <1>2, <1>3, <1>4

(***************************************************************************)
(* The main queue and the process.  A block is only delivered, and so a    *)
(* notification only lost, after the listener has read who is signed in.   *)
(***************************************************************************)
LEMMA MainSteps ==
  ASSUME AuthInv, AddListener \/ Deliver \/ Restart
  PROVE  AuthInv'
  <1>1. MaxPending \in Nat /\ MaxFaults \in Nat /\ MaxRestarts \in Nat /\ pending \in Nat
    BY BoundsAssumption DEF AuthInv, TypeOK
  <1>2. CASE AddListener
    <2>1. /\ pending <= MaxPending /\ listening' = TRUE /\ pending' = pending + 1
          /\ UNCHANGED <<objs, user, notified, disk, loaded, first, prev, heard>>
          /\ UNCHANGED <<refresh, minted, faults, restarts>>
      BY <1>2 DEF AddListener, AuthInv, Remembered
    <2>2. pending' \in 0..(MaxPending + 1) /\ pending' > 0
      BY <1>1, <2>1
    <2>3. TypeOK'
      BY <2>1, <2>2 DEF AuthInv, TypeOK, refresh
    <2>4. Remembered' /\ NothingMissed'
      BY <2>1, <2>2 DEF AuthInv, Remembered, NothingMissed
    <2> QED
      BY <2>1, <2>3, <2>4 DEF AuthInv, Fresh, Announced, Asked, Enabled, DiskAgrees,
         ArmedWhileSaving, Armed, UidOf, Token, Stored, refresh
  <1>3. CASE Deliver
    <2> DEFINE uid == UidOf(user, objs)
    <2>1. uid \in Uid \cup {NoUid}
      BY TokenRange DEF AuthInv, TypeOK
    <2> HIDE DEF uid
    <2>2. /\ pending > 0 /\ pending' = pending - 1
          /\ UNCHANGED <<objs, user, notified, disk, loaded, listening>>
          /\ UNCHANGED <<refresh, minted, faults, restarts>>
          /\ listening => /\ heard' = IF Called(uid) THEN uid ELSE heard
                          /\ first' = FALSE /\ prev' = uid
          /\ ~listening => UNCHANGED <<heard, first, prev>>
      BY <1>3 DEF Deliver, uid
    <2>3. pending' \in 0..(MaxPending + 1) /\ (pending <= MaxPending => pending' <= MaxPending)
      BY <1>1, <2>2 DEF AuthInv, TypeOK
    <2>4. listening => heard' = uid /\ prev' = uid /\ first' = FALSE
      BY <2>2 DEF AuthInv, Remembered, Called
    <2>5. TypeOK'
      BY <2>1, <2>2, <2>3, <2>4 DEF AuthInv, TypeOK, refresh
    <2>6. Remembered' /\ NothingMissed'
      <3>1. uid' = uid
        BY <2>2 DEF uid, UidOf
      <3> QED
        BY <2>2, <2>3, <2>4, <3>1 DEF AuthInv, Remembered, NothingMissed, uid
    <2> QED
      BY <2>2, <2>5, <2>6 DEF AuthInv, Fresh, Announced, Asked, Enabled, DiskAgrees,
         ArmedWhileSaving, Armed, UidOf, Token, Stored, refresh
  <1>4. CASE Restart
    <2>1. restarts + 1 \in 0..MaxRestarts
      BY <1>1, <1>4 DEF Restart, AuthInv, TypeOK
    <2>2. TypeOK'
      <3>1. objs' \in Seq(Account) /\ Len(objs') = 0 /\ fetches' \in Seq(Request)
            /\ fetches' = <<>>
        BY <1>4 DEF Restart
      <3>2. timers' \in [Task -> Nat]
        BY <1>4 DEF Restart, NoTimers
      <3>3. \A i \in DOMAIN fetches' : fetches'[i].obj \in DOMAIN objs'
        BY <3>1
      <3>4. 0 \in 0..Len(objs') /\ 0 \in 0..MaxTokens /\ 0 \in 0..(MaxPending + 1)
            /\ 0 \in 0..MaxFaults /\ Len(objs') <= MaxUsers
        BY <1>1, <3>1, BoundsAssumption
      <3> QED
        BY <1>4, <2>1, <3>1, <3>2, <3>3, <3>4 DEF Restart, AuthInv, TypeOK
    <2>3. Fresh' /\ Announced'
      BY <1>4, BoundsAssumption DEF Restart, AuthInv, TypeOK, Fresh, Announced, Token
    <2> QED
      BY <1>1, <1>4, <2>2, <2>3 DEF Restart, AuthInv, TypeOK, Remembered, Asked, Enabled,
         NothingMissed, DiskAgrees, ArmedWhileSaving, Armed
  <1> QED
    BY <1>2, <1>3, <1>4

(***************************************************************************)
(* The token refresh.  Requests stay well-formed when one is added, and    *)
(* when one that is answered leaves the queue.                             *)
(***************************************************************************)
LEMMA Asking ==
  ASSUME AuthInv, NEW f \in Request, f.obj \in DOMAIN objs, f.auto => autoRefresh',
         fetches' = Append(fetches, f), UNCHANGED objs, autoRefresh => autoRefresh'
  PROVE  Asked'
  <1>1. /\ fetches \in Seq(Request)
        /\ \A i \in DOMAIN fetches :
             fetches[i].obj \in DOMAIN objs /\ (fetches[i].auto => autoRefresh)
    BY DEF AuthInv, Asked
  <1>2. /\ fetches' \in Seq(Request)
        /\ \A i \in DOMAIN fetches' :
             (i \in DOMAIN fetches /\ fetches'[i] = fetches[i]) \/ fetches'[i] = f
    BY <1>1
  <1> QED
    BY <1>1, <1>2 DEF Asked

LEMMA Answering ==
  ASSUME AuthInv, NEW i \in DOMAIN fetches, Answered(i), DOMAIN objs' = DOMAIN objs
  PROVE  /\ Asked'
         /\ fetches[i] \in Request /\ fetches[i].obj \in DOMAIN objs
         /\ fetches[i].auto => autoRefresh
         /\ UNCHANGED <<autoRefresh, background, loaded>> /\ loaded
         /\ UNCHANGED <<listening, first, prev, heard, restarts>>
  <1>1. /\ fetches \in Seq(Request)
        /\ \A j \in DOMAIN fetches :
             fetches[j].obj \in DOMAIN objs /\ (fetches[j].auto => autoRefresh)
    BY DEF AuthInv, Asked
  <1>2. \A j \in DOMAIN fetches : fetches[j] \in Request
    BY <1>1, ElementOfSeq
  <1>3. /\ fetches' = [j \in 1..(Len(fetches) - 1) |-> fetches[IF j < i THEN j ELSE j + 1]]
        /\ UNCHANGED <<autoRefresh, background, loaded>> /\ loaded
        /\ UNCHANGED <<listening, first, prev, heard, restarts>>
    BY DEF Answered, WorkBlock
  <1>4. \A j \in 1..(Len(fetches) - 1) : (IF j < i THEN j ELSE j + 1) \in DOMAIN fetches
    BY <1>1
  <1>5. fetches' \in Seq(Request)
    <2>1. Len(fetches) - 1 \in Nat
      BY <1>1
    <2>2. fetches' \in [1..(Len(fetches) - 1) -> Request]
      BY <1>2, <1>3, <1>4
    <2> QED
      BY <2>1, <2>2, SeqDef
  <1> QED
    BY <1>1, <1>2, <1>3, <1>4, <1>5 DEF Asked

(***************************************************************************)
(* Whatever else happens, scheduling a task for the current token keeps    *)
(* the refresh armed.                                                      *)
(***************************************************************************)
LEMMA Rearmed ==
  ASSUME AuthInv, NEW r \in 0..MaxRetry, Schedule(Token(user, objs), r),
         UNCHANGED <<objs, user>>, autoRefresh' = TRUE, background' \in BOOLEAN
  PROVE  Enabled' /\ Armed'
  <1> DEFINE t == Token(user, objs)
  <1>1. t \in 0..MaxTokens /\ ((t = 0) <=> (user = 0)) /\ t' = t
    BY TokenRange DEF AuthInv, TypeOK, Token
  <1>2. timers \in [Task -> Nat] /\ scheduled \in BOOLEAN
    BY DEF AuthInv, Enabled
  <1> HIDE DEF t
  <1>3. Schedule(t, r)
    BY DEF t
  <1>4. /\ timers' \in [Task -> Nat] /\ scheduled' \in BOOLEAN
        /\ t # 0 => scheduled' /\ timers'[<<t, r>>] > 0
    BY <1>1, <1>2, <1>3, Scheduling
  <1>5. Enabled'
    BY <1>4 DEF Enabled
  <1>6. Armed'
    BY <1>1, <1>4 DEF Armed, t
  <1> QED
    BY <1>5, <1>6

LEMMA Retrying ==
  ASSUME AuthInv, NEW f \in Request, f.auto => autoRefresh, NEW error \in BOOLEAN,
         Retried(f, error, user, objs), UNCHANGED <<objs, user, autoRefresh, background>>
  PROVE  Enabled' /\ (Armed => Armed')
  <1> DEFINE r == IF f.retry = 0 THEN 1 ELSE IF f.retry < MaxRetry THEN f.retry + 1 ELSE MaxRetry
  <1>1. r \in 0..MaxRetry
    BY RetryAssumption DEF Request
  <1>2. CASE f.auto /\ Schedule(Token(user, objs), r)
    <2>1. autoRefresh' = TRUE /\ background' \in BOOLEAN
      BY <1>2 DEF AuthInv, Enabled
    <2> HIDE DEF r
    <2> QED
      BY <1>1, <1>2, <2>1, Rearmed
  <1>3. CASE UNCHANGED <<scheduled, timers>>
    BY <1>3 DEF AuthInv, Enabled, Armed, Token
  <1> QED
    BY <1>2, <1>3 DEF Retried

session == <<objs, user, notified, disk, pending, minted, faults>>

LEMMA Refreshed ==
  ASSUME AuthInv, UNCHANGED session,
         UNCHANGED <<loaded, listening, heard, first, prev, restarts>>,
         Asked', Enabled', Armed => Armed'
  PROVE  AuthInv'
  <1>1. UNCHANGED <<objs, user, notified, disk, pending, minted, faults>>
    BY DEF session
  <1>2. TypeOK'
    BY <1>1 DEF AuthInv, TypeOK, Asked, Enabled
  <1>3. Fresh' /\ Announced' /\ Remembered'
    BY <1>1 DEF AuthInv, Fresh, Announced, Remembered, UidOf, Token
  <1>4. NothingMissed' /\ DiskAgrees' /\ ArmedWhileSaving'
    BY <1>1 DEF AuthInv, NothingMissed, DiskAgrees, ArmedWhileSaving, UidOf, Stored
  <1> QED
    BY <1>2, <1>3, <1>4 DEF AuthInv

LEMMA AskingSteps ==
  ASSUME AuthInv, (\E o \in DOMAIN objs : FetchToken(o)) \/ EnableAutoRefresh
  PROVE  AuthInv'
  <1>0. \A o \in DOMAIN objs : [obj |-> o, auto |-> FALSE, retry |-> 0] \in Request
    <2>1. \A o \in DOMAIN objs : o \in 1..MaxUsers
      BY BoundsAssumption DEF AuthInv, TypeOK
    <2>2. 0 \in 0..MaxRetry
      BY RetryAssumption
    <2> QED
      BY <2>1, <2>2 DEF Request
  <1>1. ASSUME NEW o \in DOMAIN objs, FetchToken(o) PROVE AuthInv'
    <2>1. /\ UNCHANGED session /\ UNCHANGED <<loaded, listening, heard, first, prev, restarts>>
          /\ UNCHANGED <<objs, autoRefresh, scheduled, background, timers>>
          /\ fetches' = Append(fetches, [obj |-> o, auto |-> FALSE, retry |-> 0])
      BY <1>1 DEF FetchToken, WorkBlock, session
    <2>2. Asked'
      BY <1>0, <2>1, Asking
    <2>3. Enabled' /\ (Armed => Armed')
      BY <2>1 DEF AuthInv, Enabled, Armed, Token, session
    <2> QED
      BY <2>1, <2>2, <2>3, Refreshed
  <1>2. CASE EnableAutoRefresh
    <2>1. /\ UNCHANGED session /\ UNCHANGED <<loaded, listening, heard, first, prev, restarts>>
          /\ UNCHANGED <<objs, user, background>> /\ autoRefresh' = TRUE
          /\ Schedule(Token(user, objs), 0)
      BY <1>2 DEF EnableAutoRefresh, WorkBlock, session
    <2>2. Enabled' /\ Armed'
      <3>1. 0 \in 0..MaxRetry /\ background' \in BOOLEAN
        BY <2>1, RetryAssumption DEF AuthInv, Enabled
      <3> QED
        BY <2>1, <3>1, Rearmed
    <2>3. Asked'
      <3>1. CASE user = 0
        BY <1>2, <2>1, <3>1 DEF EnableAutoRefresh, AuthInv, Asked
      <3>2. CASE user # 0
        <4>1. /\ user \in DOMAIN objs
              /\ fetches' = Append(fetches, [obj |-> user, auto |-> FALSE, retry |-> 0])
          BY <1>2, <3>2 DEF EnableAutoRefresh, AuthInv, TypeOK
        <4> QED
          BY <1>0, <2>1, <4>1, Asking
      <3> QED
        BY <3>1, <3>2
    <2> QED
      BY <2>1, <2>2, <2>3, Refreshed
  <1> QED
    BY <1>1, <1>2

LEMMA TimerStep ==
  ASSUME AuthInv, NEW t \in 1..MaxTokens, NEW r \in 0..MaxRetry, TimerFires(t, r)
  PROVE  AuthInv'
  <1>1. /\ UNCHANGED session /\ UNCHANGED <<loaded, listening, heard, first, prev, restarts>>
        /\ UNCHANGED <<objs, user, autoRefresh, background>>
        /\ timers[<<t, r>>] > 0 /\ timers' = [timers EXCEPT ![<<t, r>>] = @ - 1]
    BY DEF TimerFires, WorkBlock, session
  <1>2. <<t, r>> \in Task /\ timers \in [Task -> Nat] /\ timers[<<t, r>>] \in Nat
    BY DEF Task, AuthInv, Enabled
  <1>3. timers' \in [Task -> Nat] /\ \A k \in Task : k # <<t, r>> => timers'[k] = timers[k]
    BY <1>1, <1>2
  <1>4. autoRefresh
    <2>1. timers # NoTimers
      BY <1>1, <1>2 DEF NoTimers
    <2> QED
      BY <2>1 DEF AuthInv, Enabled
  <1>5. Enabled'
    <2>1. scheduled' \in BOOLEAN
      BY DEF TimerFires, AuthInv, Enabled
    <2> QED
      BY <1>1, <1>3, <1>4, <2>1 DEF AuthInv, Enabled
  <1>6. Armed => Armed'
    <2>1. CASE Token(user, objs) = t
      <3>1. scheduled' = FALSE
        BY <2>1 DEF TimerFires
      <3> QED
        BY <3>1 DEF Armed
    <2>2. CASE Token(user, objs) # t
      <3> SUFFICES ASSUME scheduled, user # 0, NEW s \in 0..MaxRetry,
                          timers[<<Token(user, objs), s>>] > 0
                   PROVE  timers'[<<Token(user, objs), s>>] > 0
        BY <1>1, <2>2 DEF Armed, TimerFires, Token
      <3>1. Token(user, objs) \in 1..MaxTokens
        BY TokenRange DEF AuthInv, TypeOK
      <3>2. <<Token(user, objs), s>> \in Task /\ <<Token(user, objs), s>> # <<t, r>>
        BY <2>2, <3>1 DEF Task
      <3> QED
        BY <1>3, <3>2
    <2> QED
      BY <2>1, <2>2
  <1>7. Asked'
    <2>1. CASE UNCHANGED fetches
      BY <1>1, <2>1 DEF AuthInv, Asked
    <2>2. CASE ~UNCHANGED fetches
      <3> DEFINE f == [obj |-> user, auto |-> TRUE, retry |-> r]
      <3>1. Token(user, objs) = t /\ fetches' = Append(fetches, f)
        BY <2>2 DEF TimerFires
      <3>2. user \in DOMAIN objs
        BY <3>1 DEF Token, AuthInv, TypeOK
      <3>3. f \in Request
        <4>1. user \in 1..MaxUsers
          BY <3>2, BoundsAssumption DEF AuthInv, TypeOK
        <4> QED
          BY <4>1 DEF Request
      <3>4. f.obj = user /\ (f.auto => autoRefresh')
        BY <1>1, <1>4
      <3> HIDE DEF f
      <3> QED
        BY <1>1, <3>1, <3>2, <3>3, <3>4, Asking
    <2> QED
      BY <2>1, <2>2
  <1> QED
    BY <1>1, <1>5, <1>6, <1>7, Refreshed

(***************************************************************************)
(* A new token is in the one object that asked, and nobody else's.         *)
(***************************************************************************)
LEMMA Minting ==
  ASSUME AuthInv, NEW o \in DOMAIN objs, minted < MaxTokens,
         NEW os, os = [objs EXCEPT ![o].token = minted + 1]
  PROVE  /\ os \in Seq(Account) /\ Len(os) = Len(objs) /\ DOMAIN os = DOMAIN objs
         /\ Minted(os, minted + 1) /\ minted + 1 \in minted..MaxTokens
         /\ \A p \in DOMAIN os : os[p].uid = objs[p].uid /\ (p # o => os[p] = objs[p])
         /\ \A p \in DOMAIN os : os[p].token = notified => objs[p].token = notified
         /\ UidOf(user, os) = UidOf(user, objs)
  <1>1. objs \in Seq(Account) /\ \A p \in DOMAIN objs : objs[p] \in Account
    BY ElementOfSeq DEF AuthInv, TypeOK
  <1>2. minted \in Nat /\ MaxTokens \in Nat /\ notified \in Nat /\ notified <= minted
    BY BoundsAssumption DEF AuthInv, TypeOK, Fresh
  <1>3. minted + 1 \in 1..MaxTokens
    BY <1>2
  <1>4. [objs[o] EXCEPT !.token = minted + 1] \in Account
    BY <1>1, <1>3 DEF Account
  <1>5. os = [objs EXCEPT ![o] = [objs[o] EXCEPT !.token = minted + 1]]
    OBVIOUS
  <1>6. os \in Seq(Account) /\ Len(os) = Len(objs) /\ DOMAIN os = DOMAIN objs
    BY <1>1, <1>4, <1>5
  <1>7. /\ os[o] = [objs[o] EXCEPT !.token = minted + 1]
        /\ \A p \in DOMAIN os : p # o => os[p] = objs[p]
    BY <1>5, <1>6
  <1>8. os[o].token = minted + 1 /\ os[o].uid = objs[o].uid
    BY <1>1, <1>7 DEF Account
  <1>9. \A p \in DOMAIN objs : objs[p].token \in Nat /\ objs[p].token <= minted
    BY <1>1, <1>2 DEF Account, AuthInv, Fresh
  <1>10. Minted(os, minted + 1)
    <2>1. \A p \in DOMAIN os : os[p].token <= minted + 1
      BY <1>2, <1>6, <1>7, <1>8, <1>9
    <2>2. ASSUME NEW p \in DOMAIN os, NEW q \in DOMAIN os, os[p].token = os[q].token
          PROVE  p = q
      <3>1. CASE p = o \/ q = o
        BY <1>2, <1>6, <1>7, <1>8, <1>9, <2>2, <3>1
      <3>2. CASE p # o /\ q # o
        BY <1>6, <1>7, <2>2, <3>2 DEF AuthInv, Fresh
      <3> QED
        BY <3>1, <3>2
    <2> QED
      BY <2>1, <2>2 DEF Minted
  <1>11. \A p \in DOMAIN os : os[p].token = notified => objs[p].token = notified
    BY <1>2, <1>7, <1>8
  <1>12. \A p \in DOMAIN os : os[p].uid = objs[p].uid
    BY <1>7, <1>8
  <1>13. UidOf(user, os) = UidOf(user, objs)
    BY <1>6, <1>12 DEF UidOf, AuthInv, TypeOK
  <1> QED
    BY <1>2, <1>3, <1>6, <1>7, <1>10, <1>11, <1>12, <1>13

LEMMA NewTokenStep ==
  ASSUME AuthInv, NEW i \in DOMAIN fetches, NEW ok \in BOOLEAN, NewToken(i, ok)
  PROVE  AuthInv'
  <1> DEFINE o == fetches[i].obj
             os == [objs EXCEPT ![o].token = minted + 1]
  <1>1. /\ Answered(i) /\ minted < MaxTokens /\ minted' = minted + 1
        /\ objs' = os /\ UNCHANGED user
    BY DEF NewToken
  <1>2. o \in DOMAIN objs /\ fetches[i] \in Request /\ (fetches[i].auto => autoRefresh)
    <2>1. fetches \in Seq(Request)
      BY DEF AuthInv, Asked
    <2> QED
      BY <2>1, ElementOfSeq DEF AuthInv, Asked
  <1>3. /\ os \in Seq(Account) /\ Len(os) = Len(objs) /\ DOMAIN os = DOMAIN objs
        /\ Minted(os, minted + 1) /\ minted + 1 \in minted..MaxTokens
        /\ \A p \in DOMAIN os : os[p].uid = objs[p].uid /\ (p # o => os[p] = objs[p])
        /\ \A p \in DOMAIN os : os[p].token = notified => objs[p].token = notified
        /\ UidOf(user, os) = UidOf(user, objs)
    BY <1>1, <1>2, Minting
  <1> HIDE DEF os
  <1>4. /\ Asked' /\ UNCHANGED <<autoRefresh, background, loaded>> /\ loaded
        /\ UNCHANGED <<listening, first, prev, heard, restarts>>
    BY <1>1, <1>3, Answering
  <1>5. /\ Len(objs) <= MaxUsers /\ user \in 0..Len(objs) /\ MaxFaults \in Nat
        /\ faults \in 0..MaxFaults /\ minted' \in minted..MaxTokens /\ Minted(os, minted')
    BY <1>1, <1>3, BoundsAssumption DEF AuthInv, TypeOK
  <1>6. CASE o # user
    <2>1. UNCHANGED <<disk, faults, notified, pending, scheduled, timers>>
      BY <1>6 DEF NewToken
    <2>2. Token(user, os) = Token(user, objs) /\ Stored(user, os) = Stored(user, objs)
      BY <1>3, <1>5, <1>6 DEF Token, Stored
    <2>3. Enabled' /\ ArmedWhileSaving'
      <3>1. Token(user, objs)' = Token(user, objs)
        BY <1>1, <2>2 DEF Token
      <3> QED
        BY <1>1, <1>4, <2>1, <3>1 DEF AuthInv, Enabled, ArmedWhileSaving, Armed
    <2>4. faults' \in faults..MaxFaults
      BY <1>5, <2>1
    <2> QED
      BY <1>1, <1>3, <1>4, <1>5, <2>1, <2>2, <2>3, <2>4, Kept
  <1>7. CASE o = user /\ ok
    <2>1. Post(user, os) /\ disk' = Stored(user, os) /\ faults' = faults
      BY <1>7 DEF NewToken, SaveUser, os
    <2>2. \A p \in DOMAIN os : os[p].token = notified => os[p].uid = UidOf(user, objs)
      BY <1>3 DEF AuthInv, Announced
    <2>3. faults' \in faults..MaxFaults /\ user \in 0..Len(os) /\ Len(os) <= MaxUsers
      BY <1>3, <1>5, <2>1
    <2> QED
      BY <1>1, <1>3, <1>4, <1>5, <2>1, <2>2, <2>3, Replaced
  <1>8. CASE o = user /\ ~ok
    <2>1. /\ faults < MaxFaults /\ faults' = faults + 1
          /\ UNCHANGED <<disk, notified, pending>> /\ Retried(fetches[i], TRUE, user, os)
      BY <1>8 DEF NewToken, SaveUser, os
    <2>2. faults' \in faults..MaxFaults /\ faults' # 0
      BY <1>5, <2>1
    <2>3. Enabled'
      <3>1. CASE UNCHANGED <<scheduled, timers>>
        BY <1>4, <3>1 DEF AuthInv, Enabled
      <3>2. CASE ~UNCHANGED <<scheduled, timers>>
        <4> DEFINE r == fetches[i].retry
                   s == IF r = 0 THEN 1 ELSE IF r < MaxRetry THEN r + 1 ELSE MaxRetry
                   t == Token(user, os)
        <4>1. fetches[i].auto /\ Schedule(t, s)
          BY <2>1, <3>2 DEF Retried
        <4>2. s \in 0..MaxRetry
          BY <1>2, RetryAssumption DEF Request
        <4>3. t \in 0..MaxTokens
          BY <1>3, <1>5, TokenRange
        <4>4. timers \in [Task -> Nat] /\ scheduled \in BOOLEAN
          BY DEF AuthInv, Enabled
        <4> HIDE DEF s, t
        <4>5. timers' \in [Task -> Nat] /\ scheduled' \in BOOLEAN
          BY <4>1, <4>2, <4>3, <4>4, Scheduling
        <4> QED
          BY <1>2, <1>4, <4>1, <4>5 DEF AuthInv, Enabled
      <3> QED
        BY <3>1, <3>2
    <2> QED
      BY <1>1, <1>3, <1>4, <1>5, <2>1, <2>2, <2>3, Kept DEF ArmedWhileSaving
  <1> QED
    BY <1>6, <1>7, <1>8

LEMMA AnswerSteps ==
  ASSUME AuthInv, NEW i \in DOMAIN fetches, NEW ok \in BOOLEAN,
         Rejected(i, ok) \/ SameToken(i) \/ Unreachable(i)
  PROVE  AuthInv'
  <1> DEFINE f == fetches[i]
  <1>1. Answered(i) /\ UNCHANGED objs
    BY DEF Rejected, SameToken, Unreachable
  <1>2. /\ Asked' /\ f \in Request /\ f.obj \in DOMAIN objs /\ (f.auto => autoRefresh)
        /\ UNCHANGED <<autoRefresh, background, loaded>> /\ loaded
        /\ UNCHANGED <<listening, first, prev, heard, restarts>>
    BY <1>1, Answering
  <1>3. CASE SameToken(i)
    <2>1. UNCHANGED session /\ Enabled' /\ (Armed => Armed')
      BY <1>2, <1>3 DEF SameToken, session, AuthInv, Enabled, Armed, Token
    <2> QED
      BY <1>2, <2>1, Refreshed
  <1>4. CASE \/ Unreachable(i)
             \/ Rejected(i, ok) /\ f.obj # user
    <2>1. UNCHANGED session /\ UNCHANGED user /\ Retried(f, TRUE, user, objs)
      BY <1>4 DEF Unreachable, Rejected, session
    <2> HIDE DEF f
    <2>2. Enabled' /\ (Armed => Armed')
      BY <1>1, <1>2, <2>1, Retrying
    <2> QED
      BY <1>2, <2>1, <2>2, Refreshed
  <1>5. CASE Rejected(i, ok) /\ f.obj = user
    <2>1. UpdateCurrentUser(0, objs, TRUE, TRUE, ok) /\ UNCHANGED minted
      BY <1>5 DEF Rejected, SignOutByForce
    <2>2. 0 \in 0..Len(objs)
      BY DEF AuthInv, TypeOK
    <2> QED
      BY <1>1, <1>2, <2>1, <2>2, Switching
  <1> QED
    BY <1>3, <1>4, <1>5

LEMMA ObserverSteps ==
  ASSUME AuthInv, EnterBackground \/ BecomeActive
  PROVE  AuthInv'
  <1>1. /\ UNCHANGED session /\ UNCHANGED <<loaded, listening, heard, first, prev, restarts>>
        /\ UNCHANGED <<objs, user, autoRefresh, fetches>> /\ autoRefresh
        /\ background' \in BOOLEAN
    BY DEF EnterBackground, BecomeActive, session, main
  <1>2. Asked'
    BY <1>1 DEF AuthInv, Asked
  <1>3. CASE UNCHANGED <<scheduled, timers>>
    BY <1>1, <1>2, <1>3, Refreshed DEF AuthInv, Enabled, Armed, Token
  <1>4. CASE Schedule(Token(user, objs), 0)
    <2>1. 0 \in 0..MaxRetry /\ autoRefresh' = TRUE
      BY <1>1, RetryAssumption DEF AuthInv, Enabled
    <2>2. Enabled' /\ Armed'
      BY <1>1, <1>4, <2>1, Rearmed
    <2> QED
      BY <1>1, <1>2, <2>2, Refreshed
  <1> QED
    BY <1>3, <1>4 DEF EnterBackground, BecomeActive

LEMMA AuthSafe == Spec => []AuthInv
  <1>1. Init => AuthInv
    <2> SUFFICES ASSUME Init PROVE AuthInv
      OBVIOUS
    <2>1. /\ objs = <<>> /\ Len(objs) = 0 /\ objs \in Seq(Account)
          /\ fetches \in Seq(Request) /\ DOMAIN fetches = {} /\ DOMAIN objs = {}
      BY DEF Init
    <2>2. timers \in [Task -> Nat]
      BY DEF Init, NoTimers
    <2>3. /\ 0 \in 0..Len(objs) /\ 0 \in 0..MaxTokens /\ 0 \in 0..(MaxPending + 1)
          /\ 0 \in 0..MaxFaults /\ 0 \in 0..MaxRestarts /\ Len(objs) <= MaxUsers
          /\ 0 <= MaxPending
      BY <2>1, BoundsAssumption
    <2>4. TypeOK
      <3>1. \A i \in DOMAIN fetches : fetches[i].obj \in DOMAIN objs
        BY <2>1
      <3> QED
        BY <2>1, <2>2, <2>3, <3>1 DEF Init, TypeOK
    <2>5. Fresh /\ Announced
      BY <2>1 DEF Init, Fresh, Announced, Token
    <2>6. Remembered /\ Asked /\ Enabled
      BY <2>1, <2>2, <2>3 DEF Init, Remembered, Asked, Enabled
    <2>7. NothingMissed /\ DiskAgrees /\ ArmedWhileSaving
      BY DEF Init, NothingMissed, DiskAgrees, ArmedWhileSaving, Armed
    <2> QED
      BY <2>4, <2>5, <2>6, <2>7 DEF AuthInv
  <1>2. AuthInv /\ [Next]_vars => AuthInv'
    <2> SUFFICES ASSUME AuthInv, [Next]_vars PROVE AuthInv'
      OBVIOUS
    <2>1. CASE SessionNext
      <3> SUFFICES ASSUME NEW ok \in BOOLEAN,
                          \/ Load(ok) \/ SignOut(ok)
                          \/ \E uid \in Uid : SignedIn(uid, ok)
                          \/ \E o \in DOMAIN objs : UseUser(o, ok) \/ AccountDeleted(o, ok)
                   PROVE  AuthInv'
        BY <2>1 DEF SessionNext
      <3> QED
        BY LoadStep, SignedInStep, UserSteps
    <2>2. CASE RefreshNext
      <3>1. CASE \E o \in DOMAIN objs : FetchToken(o)
        BY <3>1, AskingSteps
      <3>2. CASE \E t \in 1..MaxTokens, r \in 0..MaxRetry : TimerFires(t, r)
        BY <3>2, TimerStep
      <3>3. ASSUME NEW i \in DOMAIN fetches, NEW ok \in BOOLEAN, NewToken(i, ok) \/ Rejected(i, ok)
            PROVE  AuthInv'
        BY <3>3, NewTokenStep, AnswerSteps
      <3>4. ASSUME NEW i \in DOMAIN fetches, SameToken(i) \/ Unreachable(i) PROVE AuthInv'
        <4>1. TRUE \in BOOLEAN
          OBVIOUS
        <4> QED
          BY <3>4, <4>1, AnswerSteps
      <3>5. CASE EnableAutoRefresh
        BY <3>5, AskingSteps
      <3>6. CASE EnterBackground \/ BecomeActive
        BY <3>6, ObserverSteps
      <3> QED
        BY <2>2, <3>1, <3>2, <3>3, <3>4, <3>5, <3>6 DEF RefreshNext
    <2>3. CASE AddListener \/ Deliver \/ Restart
      BY <2>3, MainSteps
    <2>4. CASE UNCHANGED vars
      <3>1. UNCHANGED session /\ UNCHANGED <<loaded, listening, heard, first, prev, restarts>>
        BY <2>4 DEF vars, session, main
      <3>2. Asked' /\ Enabled' /\ (Armed => Armed')
        BY <2>4 DEF vars, refresh, AuthInv, Asked, Enabled, Armed, Token
      <3> QED
        BY <3>1, <3>2, Refreshed
    <2> QED
      BY <2>1, <2>2, <2>3, <2>4 DEF Next
  <1> QED
    BY <1>1, <1>2, PTL DEF Spec

(***************************************************************************)
(* The state of FIRAuth is well formed, whatever the bounds.               *)
(***************************************************************************)
THEOREM SessionTyped == Spec => []TypeOK
  BY AuthSafe, PTL DEF AuthInv

(***************************************************************************)
(* No change of the signed-in user is lost on the way to the listener:     *)
(* whatever is coalesced, forced or refused, a block that will tell it     *)
(* waits as long as it has not heard.                                      *)
(***************************************************************************)
THEOREM ChangesReachListener == Spec => []NothingMissed
  BY AuthSafe, PTL DEF AuthInv

(***************************************************************************)
(* While no keychain call has failed the keychain holds the current user   *)
(* with the latest token.                                                  *)
(***************************************************************************)
THEOREM KeychainFollows == Spec => []DiskAgrees
  BY AuthSafe, PTL DEF AuthInv

(***************************************************************************)
(* While no keychain call has failed a refresh that is marked scheduled    *)
(* has a task with the current token.                                      *)
(***************************************************************************)
THEOREM RefreshStaysArmed == Spec => []ArmedWhileSaving
  BY AuthSafe, PTL DEF AuthInv

(***************************************************************************)
(* The keychain is only ever given the user who is current in the next     *)
(* state, whichever answer of a server comes late.                         *)
(***************************************************************************)
THEOREM NobodyStoredLate == Spec => NobodyComesBack
  <1> DEFINE A == disk' # disk => disk' = Stored(user', objs')
  <1>1. ASSUME NEW u, NEW os, NEW force \in BOOLEAN, NEW save \in BOOLEAN, NEW ok \in BOOLEAN,
               UpdateCurrentUser(u, os, force, save, ok), force \/ ok => objs' = os
        PROVE  A
    BY <1>1 DEF UpdateCurrentUser, SaveUser
  <1>2. [Next]_vars => A
    <2> SUFFICES ASSUME [Next]_vars, disk' # disk PROVE A
      OBVIOUS
    <2>1. ASSUME NEW ok \in BOOLEAN, Load(ok) PROVE A
      BY <2>1, <1>1 DEF Load
    <2>2. ASSUME NEW ok \in BOOLEAN, NEW uid \in Uid, SignedIn(uid, ok) PROVE A
      BY <2>2, <1>1 DEF SignedIn
    <2>3. ASSUME NEW ok \in BOOLEAN, SignOut(ok) PROVE A
      BY <2>3, <1>1 DEF SignOut
    <2>4. ASSUME NEW ok \in BOOLEAN, NEW o \in DOMAIN objs,
                 UseUser(o, ok) \/ AccountDeleted(o, ok)
          PROVE  A
      BY <2>4, <1>1 DEF UseUser, AccountDeleted, SignOutByForce
    <2>5. ASSUME NEW i \in DOMAIN fetches, NEW ok \in BOOLEAN, NewToken(i, ok) PROVE A
      BY <2>5 DEF NewToken, SaveUser
    <2>6. ASSUME NEW i \in DOMAIN fetches, NEW ok \in BOOLEAN, Rejected(i, ok) PROVE A
      BY <2>6, <1>1 DEF Rejected, SignOutByForce
    <2>7. CASE \/ \E o \in DOMAIN objs : FetchToken(o)
               \/ \E t \in 1..MaxTokens, r \in 0..MaxRetry : TimerFires(t, r)
               \/ \E i \in DOMAIN fetches : SameToken(i) \/ Unreachable(i)
               \/ EnableAutoRefresh \/ EnterBackground \/ BecomeActive
               \/ AddListener \/ Deliver \/ Restart \/ UNCHANGED vars
      BY <2>7 DEF FetchToken, TimerFires, SameToken, Unreachable, EnableAutoRefresh,
         EnterBackground, BecomeActive, AddListener, Deliver, Restart, vars
    <2> QED
      BY <2>1, <2>2, <2>3, <2>4, <2>5, <2>6, <2>7 DEF Next, SessionNext, RefreshNext
  <1> QED
    BY <1>2, PTL DEF Spec, NobodyComesBack

(***************************************************************************)
(* Only a delivery or a restart changes what the listener has heard.       *)
(***************************************************************************)
LEMMA Hearing ==
  ASSUME [Next]_vars PROVE UNCHANGED heard \/ Deliver \/ Restart
  <1>1. CASE SessionNext
    BY <1>1 DEF SessionNext, Load, SignedIn, UseUser, SignOut, AccountDeleted, WorkBlock
  <1>2. CASE RefreshNext
    BY <1>2 DEF RefreshNext, FetchToken, TimerFires, NewToken, Rejected, SameToken, Unreachable,
       EnableAutoRefresh, EnterBackground, BecomeActive, Answered, WorkBlock, main
  <1>3. CASE AddListener \/ UNCHANGED vars
    BY <1>3 DEF AddListener, vars, main
  <1> QED
    BY <1>1, <1>2, <1>3 DEF Next

(***************************************************************************)
(* FIRAuth implements the safety part of what its header promises: the     *)
(* listener is told who is signed in at that moment, never the same twice  *)
(* in a row, for any users, tokens, faults and restarts.                   *)
(***************************************************************************)
THEOREM ListenerIsFed == Spec => Feed!Init /\ [][Feed!Next]_(Feed!feed)
  <1>1. Init => Feed!Init
    BY DEF Init, Feed!Init, UidOf
  <1>2. AuthInv /\ AuthInv' /\ [Next]_vars => [Feed!Next]_(Feed!feed)
    <2> SUFFICES ASSUME AuthInv, AuthInv', [Next]_vars PROVE [Feed!Next]_(Feed!feed)
      OBVIOUS
    <2>1. CASE UNCHANGED heard
      <3>1. UidOf(user, objs)' \in Uid \cup {NoUid}
        <4>1. objs' \in Seq(Account) /\ user' \in 0..Len(objs')
          BY DEF AuthInv, TypeOK
        <4>2. UidOf(user', objs') \in Uid \cup {NoUid}
          BY <4>1, TokenRange
        <4> QED
          BY <4>2 DEF UidOf
      <3> QED
        BY <2>1, <3>1 DEF Feed!Next, Feed!Change
    <2>2. CASE Deliver /\ ~UNCHANGED heard
      <3>1. UNCHANGED UidOf(user, objs) /\ heard' = UidOf(user, objs)
        BY <2>2 DEF Deliver, UidOf
      <3> QED
        BY <2>2, <3>1 DEF Feed!Next, Feed!Tell
    <2>3. CASE Restart
      BY <2>3 DEF Restart, Feed!Next, Feed!Restart, UidOf
    <2> QED
      BY <2>1, <2>2, <2>3, Hearing
  <1> QED
    BY <1>1, <1>2, AuthSafe, PTL DEF Spec
=============================================================================
