----------------------------- MODULE LockedMpscq ----------------------------
(***************************************************************************)
(* gpr_locked_mpscq: a gpr_mpscq that any thread may pop from under a      *)
(* mutex, once (gpr_locked_mpscq_try_pop) or until it gets a node or the   *)
(* queue is empty (gpr_locked_mpscq_pop).                                  *)
(***************************************************************************)
EXTENDS Mpscq

CONSTANTS Consumer, Nobody

ASSUME ConsumerAssumption == Nobody \notin Consumer

VARIABLES
  mu, waits,  \* who holds the mutex, and whether it retries
  early       \* history: the nodes in the queue when the pop was called
vars == <<queueVars, mu, waits, early>>
lock == <<mu, waits, early>>

Init == QueueInit /\ mu = Nobody /\ waits = FALSE /\ early = {}

Returned(n) == InChain(n) /\ \A t \in Thread : push[t].node # n

StartLockedPop(c) ==
  /\ mu = Nobody
  /\ mu' = c
  /\ waits' \in BOOLEAN
  /\ early' = {n \in Node : Returned(n)}
  /\ StartPop

RetryAlways ==
  /\ pop = "done" /\ waits /\ got \notin Node
  /\ pop' = "load"
  /\ UNCHANGED <<head, tail, next, push, got, chain, lock>>

Retry ==
  /\ pop = "done" /\ waits /\ got = Null
  /\ pop' = "load"
  /\ UNCHANGED <<head, tail, next, push, got, chain, lock>>

UnlockForgotten ==
  /\ pop = "done" /\ (waits => got # Null)
  /\ pop' = "idle" /\ got' = Null
  /\ waits' = FALSE /\ early' = {}
  /\ UNCHANGED <<head, tail, next, push, chain, mu>>

Unlock ==
  /\ pop = "done" /\ (waits => got # Null)
  /\ pop' = "idle" /\ got' = Null
  /\ mu' = Nobody /\ waits' = FALSE /\ early' = {}
  /\ UNCHANGED <<head, tail, next, push, chain>>

Pushes(t) == PushStep(t) /\ UNCHANGED lock
Pops == (PopStep /\ UNCHANGED lock) \/ Retry \/ Unlock

Next ==
  \/ \E t \in Thread :
       Pushes(t) \/ \E n \in Node : StartPush(t, n) /\ UNCHANGED lock
  \/ \E c \in Consumer : StartLockedPop(c)
  \/ Pops

(***************************************************************************)
(* A thread inside a push or a pop keeps running; none has to begin one.   *)
(***************************************************************************)
Spec == Init /\ [][Next]_vars /\ WF_vars(Pops) /\ \A t \in Thread : WF_vars(Pushes(t))

-----------------------------------------------------------------------------
TypeOK ==
  /\ QueueTypeOK /\ mu \in Consumer \cup {Nobody} /\ waits \in BOOLEAN
  /\ early \subseteq Node
  /\ (mu = Nobody) = (pop = "idle")

(***************************************************************************)
(* gpr_locked_mpscq_pop returns: its loop waits for pushes under way only, *)
(* and the mutex is released.                                              *)
(***************************************************************************)
PopReturns == mu # Nobody ~> mu = Nobody

(***************************************************************************)
(* "Returns NULL only if the queue was empty at some point after calling   *)
(* this function" (mpscq.h): a pop that reports an empty queue found none  *)
(* in it whose gpr_locked_mpscq_push had returned before the call.         *)
(***************************************************************************)
EmptyMeansEmpty == got = Empty => early = {}
=============================================================================
