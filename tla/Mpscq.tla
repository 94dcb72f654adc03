------------------------------- MODULE Mpscq --------------------------------
(***************************************************************************)
(* gpr_mpscq of gRPC-Core, the lock-free queue (many producers, one        *)
(* consumer) under the combiner.  A step is one access to shared memory    *)
(* together with the thread's own work up to its next one.  The consumer   *)
(* owns q->tail, so it is no shared access.  Modules that extend this one  *)
(* say who pushes and who pops.                                            *)
(***************************************************************************)
EXTENDS Naturals, Sequences

CONSTANTS
  Node,       \* the nodes that are pushed, again once they were popped
  Stub,       \* q->stub
  Null,
  Thread,     \* the threads that push
  Popper      \* the consumer, when gpr_mpscq_pop pushes the stub

Empty == [empty |-> TRUE]   \* gpr_mpscq_pop_and_check_end: NULL with *empty

ASSUME QueueAssumption ==
  /\ Stub \notin Node /\ Null \notin Node \cup {Stub} /\ Empty \notin Node \cup {Null}
  /\ Popper \notin Thread

Cell == Node \cup {Stub}
Pusher == Thread \cup {Popper}

VARIABLES
  head, tail, next,  \* of gpr_mpscq, and every node's next
  push,              \* how far each gpr_mpscq_push is, its node and prev
  pop,               \* how far gpr_mpscq_pop_and_check_end is
  got,               \* what it returns: a node, Null, or Null with *empty
  chain              \* history: the cells from tail to head, as exchanged

queueVars == <<head, tail, next, push, pop, got, chain>>

Idle == [at |-> "idle", node |-> Null, prev |-> Null]

QueueInit ==
  /\ head = Stub /\ tail = Stub
  /\ next = [c \in Cell |-> Null]
  /\ push = [p \in Pusher |-> Idle]
  /\ pop = "idle" /\ got = Null
  /\ chain = <<Stub>>

InChain(c) == \E i \in DOMAIN chain : chain[i] = c
Free(n) == ~InChain(n) /\ \A p \in Pusher : push[p].node # n

ClearForgotten(p, n) ==
  /\ push[p].at = "idle"
  /\ push' = [push EXCEPT ![p] = [at |-> "swap", node |-> n, prev |-> Null]]
  /\ UNCHANGED <<head, tail, next, got, chain>>

(***************************************************************************)
(* gpr_mpscq_push: clear n->next, exchange the head, link the old head.    *)
(***************************************************************************)
Clear(p, n) ==
  /\ push[p].at = "idle"
  /\ next' = [next EXCEPT ![n] = Null]
  /\ push' = [push EXCEPT ![p] = [at |-> "swap", node |-> n, prev |-> Null]]
  /\ UNCHANGED <<head, tail, got, chain>>

Swap(p) ==
  /\ push[p].at = "swap"
  /\ push' = [push EXCEPT ![p].at = "link", ![p].prev = head]
  /\ head' = push[p].node
  /\ chain' = Append(chain, push[p].node)
  /\ UNCHANGED <<tail, next, pop, got>>

Link(p) ==
  /\ push[p].at = "link"
  /\ next' = [next EXCEPT ![push[p].prev] = push[p].node]
  /\ push' = [push EXCEPT ![p] = Idle]
  /\ UNCHANGED <<head, tail, got, chain>>

PushStep(t) == Swap(t) \/ (Link(t) /\ UNCHANGED pop)
StartPush(t, n) == Free(n) /\ Clear(t, n) /\ UNCHANGED pop

(***************************************************************************)
(* gpr_mpscq_pop_and_check_end.  Advance moves q->tail to a loaded next.   *)
(***************************************************************************)
Return(r) == pop' = "done" /\ got' = r

Advance ==
  /\ tail' = next[tail]
  /\ chain' = Tail(chain)
  /\ UNCHANGED <<head, next, push>>

StartPop ==
  /\ pop = "idle"
  /\ pop' = "load"
  /\ UNCHANGED <<head, tail, next, push, got, chain>>

LoadNext ==
  /\ pop = "load"
  /\ \/ /\ tail = Stub /\ next[tail] = Null
        /\ Return(Empty)
        /\ UNCHANGED <<head, tail, next, push, chain>>
     \/ /\ tail = Stub /\ next[tail] # Null
        /\ Advance /\ pop' = "reload" /\ UNCHANGED got
     \/ /\ tail # Stub /\ next[tail] # Null
        /\ Advance /\ Return(tail)
     \/ /\ tail # Stub /\ next[tail] = Null
        /\ pop' = "head" /\ UNCHANGED <<head, tail, next, push, got, chain>>

ReloadNext ==
  /\ pop = "reload"
  /\ IF next[tail] # Null THEN Advance /\ Return(tail)
     ELSE pop' = "head" /\ UNCHANGED <<head, tail, next, push, got, chain>>

LoadHeadTaking ==
  /\ pop = "head"
  /\ Return(IF tail # head THEN Null ELSE tail)
  /\ UNCHANGED <<head, tail, next, push, chain>>

LoadHead ==
  /\ pop = "head"
  /\ IF tail # head THEN Return(Null) ELSE pop' = "stub" /\ UNCHANGED got
  /\ UNCHANGED <<head, tail, next, push, chain>>

ClearStub == pop = "stub" /\ Clear(Popper, Stub) /\ pop' = "pushing"
LinkStub == pop = "pushing" /\ Link(Popper) /\ pop' = "last"

LoadLast ==
  /\ pop = "last"
  /\ IF next[tail] # Null THEN Advance /\ Return(tail)
     ELSE Return(Null) /\ UNCHANGED <<head, tail, next, push, chain>>

PopStep ==
  \/ LoadNext \/ ReloadNext \/ LoadHead
  \/ ClearStub \/ Swap(Popper) \/ LinkStub \/ LoadLast

-----------------------------------------------------------------------------
QueueTypeOK ==
  /\ head \in Cell /\ tail \in Cell
  /\ next \in [Cell -> Cell \cup {Null}]
  /\ push \in [Pusher -> [at : {"idle", "swap", "link"},
                          node : Cell \cup {Null}, prev : Cell \cup {Null}]]
  /\ pop \in {"idle", "load", "reload", "head", "stub", "pushing", "last", "done"}
  /\ got \in Node \cup {Null, Empty}
  /\ chain \in Seq(Cell)

(***************************************************************************)
(* The list never breaks: from tail to head every node leads to the one    *)
(* that was exchanged in next, or its next is still empty and exactly the  *)
(* thread that will fill it in is between its exchange and its store.      *)
(***************************************************************************)
Linking(p, i) ==
  push[p].at = "link" /\ push[p].prev = chain[i] /\ push[p].node = chain[i + 1]

ListUnbroken ==
  /\ chain # <<>> /\ tail = chain[1] /\ head = chain[Len(chain)]
  /\ next[head] = Null
  /\ \A i \in 1..(Len(chain) - 1) :
       \/ next[chain[i]] = chain[i + 1] /\ \A p \in Pusher : ~Linking(p, i)
       \/ next[chain[i]] = Null /\ \E p \in Pusher : Linking(p, i)

\* The nodes of the list in order; the stub is in it at most once.
WithoutStub(s) ==
  IF \E i \in DOMAIN s : s[i] = Stub
  THEN LET k == CHOOSE i \in DOMAIN s : s[i] = Stub
       IN  [i \in 1..(Len(s) - 1) |-> s[IF i < k THEN i ELSE i + 1]]
  ELSE s

Items == WithoutStub(chain)

(***************************************************************************)
(* What is popped is what was pushed, once, in the order of the exchanges. *)
(***************************************************************************)
Order == INSTANCE Fifo WITH
  items <- Items, out <- IF got \in Node THEN got ELSE Null

ImplementsFifo == Order!Spec
=============================================================================
