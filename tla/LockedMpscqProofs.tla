------------------------- MODULE LockedMpscqProofs --------------------------
(***************************************************************************)
(* gpr_locked_mpscq for any number of nodes, producers and consumers: what *)
(* MpscqProofs says of the queue, with the mutex held exactly while a pop  *)
(* is under way, so that no two consumers are in the list at a time.       *)
(***************************************************************************)
EXTENDS LockedMpscq, MpscqProofs

Locked ==
  /\ mu \in Consumer \cup {Nobody} /\ waits \in BOOLEAN /\ early \subseteq Node
  /\ (mu = Nobody) = (pop = "idle")

QueueInv == QueueSound /\ Locked

LEMMA ThreadSteps ==
  ASSUME QueueInv, NEW t \in Thread, UNCHANGED lock,
         PushStep(t) \/ \E n \in Node : StartPush(t, n)
  PROVE  QueueInv'
  <1>1. QueueSound /\ Locked
    BY DEF QueueInv
  <1>2. QueueSound' /\ UNCHANGED pop
    <2>1. CASE Swap(t)
      BY <1>1, <2>1, ThreadSwap DEF Swap
    <2>2. CASE Link(t) /\ UNCHANGED pop
      BY <1>1, <2>2, ThreadLink
    <2>3. CASE \E n \in Node : StartPush(t, n)
      BY <1>1, <2>3, ThreadClear DEF StartPush
    <2> QED
      BY <2>1, <2>2, <2>3 DEF PushStep
  <1> QED
    BY <1>1, <1>2 DEF QueueInv, Locked, lock

LEMMA PopSteps ==
  ASSUME QueueInv, PopStep, UNCHANGED lock
  PROVE  QueueInv'
  <1>1. Handing /\ Locked
    BY PopKeeps DEF QueueInv
  <1> QED
    BY <1>1 DEF QueueInv, Locked, lock, Handing

LEMMA LockSteps ==
  ASSUME QueueInv, (\E c \in Consumer : StartLockedPop(c)) \/ Retry \/ Unlock
  PROVE  QueueInv' /\ UNCHANGED cells
  <1>1. QueueSound /\ Locked /\ PopControl
    BY DEF QueueInv, QueueSound
  <1>2. ASSUME NEW c \in Consumer, StartLockedPop(c) PROVE QueueInv' /\ UNCHANGED cells
    <2>1. /\ pop = "idle" /\ pop' = "load" /\ mu' = c /\ mu' # Nobody
          /\ waits' \in BOOLEAN /\ early' \subseteq Node
          /\ UNCHANGED cells /\ UNCHANGED got
      BY <1>2, ConsumerAssumption DEF StartLockedPop, StartPop, cells
    <2>2. got = Null
      BY <1>1, <2>1 DEF PopControl
    <2>3. QueueSound'
      BY <1>1, <2>1, <2>2, Looking
    <2> QED
      BY <2>1, <2>3 DEF QueueInv, Locked
  <1>3. CASE Retry
    <2>1. /\ pop = "done" /\ pop' = "load" /\ got = Null /\ UNCHANGED got
          /\ UNCHANGED cells /\ UNCHANGED lock
      BY <1>3 DEF Retry, cells
    <2>2. QueueSound'
      BY <1>1, <2>1, Looking
    <2> QED
      BY <1>1, <2>1, <2>2 DEF QueueInv, Locked, lock
  <1>4. CASE Unlock
    <2>1. /\ pop = "done" /\ pop' = "idle" /\ got' = Null /\ mu' = Nobody
          /\ waits' = FALSE /\ early' = {} /\ UNCHANGED cells
      BY <1>4 DEF Unlock, cells
    <2>2. QueueSound'
      BY <1>1, <2>1, Looking
    <2> QED
      BY <2>1, <2>2 DEF QueueInv, Locked
  <1> QED
    BY <1>2, <1>3, <1>4

LEMMA QueueSafe == Spec => []QueueInv
  <1>1. Init => QueueInv
    <2> SUFFICES ASSUME Init PROVE QueueInv
      OBVIOUS
    <2>1. QueueSound /\ pop = "idle" /\ mu = Nobody /\ waits = FALSE /\ early = {}
      BY QueueBegins DEF Init, QueueInit
    <2> QED
      BY <2>1 DEF QueueInv, Locked
  <1>2. QueueInv /\ [Next]_vars => QueueInv'
    <2> SUFFICES ASSUME QueueInv, [Next]_vars PROVE QueueInv'
      OBVIOUS
    <2>1. ASSUME NEW t \in Thread,
                 Pushes(t) \/ \E n \in Node : StartPush(t, n) /\ UNCHANGED lock
          PROVE  QueueInv'
      BY <2>1, ThreadSteps DEF Pushes
    <2>2. CASE Pops
      BY <2>2, PopSteps, LockSteps DEF Pops
    <2>3. CASE \E c \in Consumer : StartLockedPop(c)
      BY <2>3, LockSteps
    <2>4. CASE UNCHANGED vars
      <3>1. UNCHANGED queueVars /\ UNCHANGED <<pop, mu, waits, early>>
        BY <2>4 DEF vars, queueVars
      <3> QED
        BY <3>1, SoundStutter DEF QueueInv, Locked
    <2> QED
      BY <2>1, <2>2, <2>3, <2>4 DEF Next
  <1> QED
    BY <1>1, <1>2, PTL DEF Spec

(***************************************************************************)
(* The queue's state is well formed and the mutex is held exactly during a *)
(* pop, for any set of nodes, producers and consumers.                     *)
(***************************************************************************)
THEOREM QueueTyped == Spec => []TypeOK
  <1>1. QueueInv => TypeOK
    BY DEF QueueInv, QueueSound, Shape, CellsTyped, PushState, PopControl, Locked,
           TypeOK, QueueTypeOK
  <1> QED
    BY <1>1, QueueSafe, PTL

(***************************************************************************)
(* From q->tail to q->head every cell leads to the one that was exchanged  *)
(* in next, or exactly one push stands between its exchange and the store  *)
(* that will make it so: no interleaving loses or repeats a node.          *)
(***************************************************************************)
THEOREM QueueNeverBreaks == Spec => []ListUnbroken
  BY QueueSafe, PTL DEF QueueInv, QueueSound, Shape

(***************************************************************************)
(* The refinement.  The exchange of the head is the enqueueing, the        *)
(* advance past a node its dequeueing, and the return of the pop its       *)
(* taking; every other access to memory is a stutter of the queue.         *)
(***************************************************************************)
LEMMA OrderBegins == Init => Order!Init
  <1> SUFFICES ASSUME Init PROVE Order!Init
    OBVIOUS
  <1>1. Items = <<>> /\ got = Null
    BY QueueBegins DEF Init, QueueInit
  <1> QED
    BY <1>1 DEF Order!Init

LEMMA PushIsEnqueue ==
  ASSUME QueueInv, NEW t \in Thread, PushStep(t) \/ \E n \in Node : StartPush(t, n)
  PROVE  (\E n \in Node : Order!Enqueue(n)) \/ UNCHANGED Order!queue
  <1>1. Shape /\ PopControl /\ t \in Pusher
    BY DEF QueueInv, QueueSound, Pusher
  <1>2. CASE Swap(t)
    <2>1. push[t].node # Stub /\ UNCHANGED got
      BY <1>1, <1>2 DEF PopControl, Swap
    <2>2. push[t].node \in Node /\ Items' = Append(Items, push[t].node)
      BY <1>1, <1>2, <2>1, SwapAppends DEF Cell
    <2> QED
      BY <2>1, <2>2 DEF Order!Enqueue
  <1>3. CASE Link(t) \/ \E n \in Node : StartPush(t, n)
    <2>1. UNCHANGED <<chain, got>>
      BY <1>3 DEF Link, StartPush, Clear
    <2> QED
      BY <2>1, SameListSameItems DEF Order!queue
  <1> QED
    BY <1>2, <1>3 DEF PushStep

LEMMA PopIsDequeue ==
  ASSUME QueueInv, PopStep
  PROVE  Order!Dequeue \/ UNCHANGED Order!queue
  <1>1. got = Null /\ Handed(got') /\ Null \notin Node
    BY PopKeeps, QueueAssumption DEF QueueInv, Handing
  <1>2. CASE got' \notin Node /\ Items' = Items
    BY <1>1, <1>2 DEF Order!queue
  <1>3. CASE Items # <<>> /\ got' \in Node /\ got' = Head(Items) /\ Items' = Tail(Items)
    BY <1>1, <1>3 DEF Order!Dequeue
  <1> QED
    BY <1>1, <1>2, <1>3 DEF Handed

LEMMA LockIsTake ==
  ASSUME QueueInv, (\E c \in Consumer : StartLockedPop(c)) \/ Retry \/ Unlock
  PROVE  Order!Take \/ UNCHANGED Order!queue
  <1>1. Items' = Items
    BY LockSteps, SameListSameItems DEF cells
  <1>2. CASE (\E c \in Consumer : StartLockedPop(c)) \/ Retry
    <2>1. UNCHANGED got
      BY <1>2 DEF StartLockedPop, StartPop, Retry
    <2> QED
      BY <1>1, <2>1 DEF Order!queue
  <1>3. CASE Unlock
    <2>1. got' = Null /\ Null \notin Node
      BY <1>3, QueueAssumption DEF Unlock
    <2> QED
      BY <1>1, <2>1 DEF Order!Take, Order!queue
  <1> QED
    BY <1>2, <1>3

(***************************************************************************)
(* For any nodes, producers and consumers and every interleaving of their  *)
(* accesses to memory, what is popped is what was pushed, once, in the     *)
(* order of the exchanges: gpr_locked_mpscq implements a FIFO queue.       *)
(***************************************************************************)
THEOREM QueueIsFifo == Spec => ImplementsFifo
  <1>1. QueueInv /\ [Next]_vars => [Order!Next]_(Order!queue)
    <2> SUFFICES ASSUME QueueInv, [Next]_vars PROVE Order!Next \/ UNCHANGED Order!queue
      OBVIOUS
    <2>1. ASSUME NEW t \in Thread,
                 Pushes(t) \/ \E n \in Node : StartPush(t, n) /\ UNCHANGED lock
          PROVE  Order!Next \/ UNCHANGED Order!queue
      BY <2>1, PushIsEnqueue DEF Pushes, Order!Next
    <2>2. CASE Pops
      BY <2>2, PopIsDequeue, LockIsTake DEF Pops, Order!Next
    <2>3. CASE \E c \in Consumer : StartLockedPop(c)
      BY <2>3, LockIsTake DEF Order!Next
    <2>4. CASE UNCHANGED vars
      <3>1. UNCHANGED <<chain, got>>
        BY <2>4 DEF vars, queueVars
      <3> QED
        BY <3>1, SameListSameItems DEF Order!queue
    <2> QED
      BY <2>1, <2>2, <2>3, <2>4 DEF Next
  <1> QED
    BY <1>1, OrderBegins, QueueSafe, PTL DEF Spec, ImplementsFifo, Order!Spec

-----------------------------------------------------------------------------
(***************************************************************************)
(* What an empty answer does mean: the list is the stub alone, or the      *)
(* oldest node of the queue is still being linked to the stub, whatever    *)
(* was pushed and returned behind it.                                      *)
(***************************************************************************)
NothingLinked ==
  \/ Items = <<>>
  \/ \E t \in Thread : push[t].at = "link" /\ push[t].node = Items[1]

LEMMA OnlyStub ==
  ASSUME QueueSound, Len(chain) = 1, chain[1] = Stub
  PROVE  Items = <<>>
  <1>1. chain \in Seq(Cell) /\ Once(chain) /\ 1 \in 1..Len(chain)
    BY DEF QueueSound, Shape, CellsTyped, Simple, Once
  <1>2. Items = Without(chain, 1)
    BY <1>1, WithoutIt DEF Items
  <1>3. Without(chain, 1) \in Seq(Node) /\ Len(Without(chain, 1)) = Len(chain) - 1
    BY <1>1, WithoutIsSeq
  <1>4. Items \in Seq(Node) /\ Len(Items) = 0
    BY <1>2, <1>3
  <1> QED
    BY <1>4, EmptySeq

LEMMA BehindStub ==
  ASSUME QueueSound, Len(chain) > 1, chain[1] = Stub
  PROVE  Items[1] = chain[2]
  <1>1. chain \in Seq(Cell) /\ Once(chain) /\ 1 \in 1..Len(chain) /\ 1 \in 1..(Len(chain) - 1)
    BY DEF QueueSound, Shape, CellsTyped, Simple, Once
  <1>2. Items = Without(chain, 1)
    BY <1>1, WithoutIt DEF Items
  <1>3. Without(chain, 1)[1] = chain[IF 1 < 1 THEN 1 ELSE 1 + 1]
    BY <1>1, WithoutIsSeq
  <1> QED
    BY <1>2, <1>3

LEMMA StubAlone ==
  ASSUME QueueSound, pop = "load", tail = Stub, next[tail] = Null
  PROVE  NothingLinked
  <1>1. /\ chain \in Seq(Cell) /\ ListUnbroken /\ PopControl
        /\ Len(chain) \in Nat \ {0} /\ chain[1] = Stub
    BY DEF QueueSound, Shape, CellsTyped, ListUnbroken
  <1>2. CASE Len(chain) = 1
    BY <1>1, <1>2, OnlyStub DEF NothingLinked
  <1>3. CASE Len(chain) > 1
    <2>1. 1 \in 1..(Len(chain) - 1) /\ 1 + 1 = 2 /\ chain[2] \in Cell
      BY <1>1, <1>3
    <2>2. chain[2] # Null
      BY <2>1, QueueAssumption DEF Cell
    <2>3. PICK p \in Pusher : Linking(p, 1)
      BY <1>1, <2>1, <2>2 DEF ListUnbroken
    <2>4. push[p].at = "link" /\ push[p].node = chain[2]
      BY <2>1, <2>3 DEF Linking
    <2>5. p \in Thread
      BY <1>1, <2>4 DEF PopControl, Pusher
    <2> QED
      BY <1>1, <1>3, <2>4, <2>5, BehindStub DEF NothingLinked
  <1>4. Len(chain) = 1 \/ Len(chain) > 1
    <2> DEFINE l == Len(chain)
    <2>1. l \in Nat \ {0}
      BY <1>1
    <2> HIDE DEF l
    <2>2. l = 1 \/ l > 1
      BY <2>1
    <2> QED
      BY <2>2 DEF l
  <1> QED
    BY <1>2, <1>3, <1>4

LEMMA EmptyStep ==
  ASSUME QueueInv, [Next]_vars, got' = Empty, got # Empty
  PROVE  NothingLinked
  <1>1. QueueSound /\ PopControl /\ tail \in Cell /\ Empty # Null /\ Empty \notin Node
    BY QueueAssumption DEF QueueInv, QueueSound, Shape, CellsTyped
  <1>2. CASE PopStep
    <2>1. CASE LoadNext
      <3>1. pop = "load" /\ tail = Stub /\ next[tail] = Null
        BY <1>1, <2>1 DEF LoadNext, Return, Cell
      <3> QED
        BY <1>1, <3>1, StubAlone
    <2>2. CASE ReloadNext \/ LoadHead \/ LoadLast
      BY <1>1, <2>2 DEF ReloadNext, LoadHead, LoadLast, Return, PopControl, Cell
    <2>3. CASE ClearStub \/ Swap(Popper) \/ LinkStub
      BY <2>3 DEF ClearStub, Clear, Swap, LinkStub, Link
    <2> QED
      BY <1>2, <2>1, <2>2, <2>3 DEF PopStep
  <1>3. CASE ~PopStep
    <2>1. CASE Retry \/ Unlock \/ \E c \in Consumer : StartLockedPop(c)
      BY <1>1, <2>1 DEF Retry, Unlock, StartLockedPop, StartPop
    <2>2. ASSUME NEW t \in Thread, Pushes(t) \/ \E n \in Node : StartPush(t, n)
          PROVE  NothingLinked
      BY <2>2 DEF Pushes, PushStep, Swap, Link, StartPush, Clear
    <2>3. CASE UNCHANGED vars
      BY <2>3 DEF vars, queueVars
    <2> QED
      BY <1>3, <2>1, <2>2, <2>3 DEF Next, Pops
  <1> QED
    BY <1>2, <1>3

(***************************************************************************)
(* gpr_mpscq_pop_and_check_end says empty only in a step at which nothing  *)
(* is queued or the oldest node's push is between its exchange and its     *)
(* store: never past a node that has been linked.  This is what is left of *)
(* "only if the queue was empty at some point" (EmptyMeansEmpty).          *)
(***************************************************************************)
THEOREM EmptyOnlyUnlinked ==
  Spec => [][got' = Empty /\ got # Empty => NothingLinked]_vars
  <1>1. QueueInv /\ [Next]_vars => [got' = Empty /\ got # Empty => NothingLinked]_vars
    BY EmptyStep
  <1> QED
    BY <1>1, QueueSafe, PTL DEF Spec
=============================================================================
