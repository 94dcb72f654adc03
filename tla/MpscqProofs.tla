---------------------------- MODULE MpscqProofs -----------------------------
(***************************************************************************)
(* The lock-free queue never breaks and keeps its order, whoever pushes    *)
(* and whoever pops, for any number of nodes and threads.  ListUnbroken    *)
(* alone is not inductive.  Shape adds that no cell is twice in the list   *)
(* and where every push stands: one about to exchange holds a cell outside *)
(* the list whose next is cleared, one about to store holds two neighbours *)
(* of it, and no two hold the same cell.  PopControl says what the         *)
(* consumer knows at each point of a pop.                                  *)
(***************************************************************************)
EXTENDS Mpscq, SequenceTheorems, TLAPS

PushState == [at : {"idle", "swap", "link"}, node : Cell \cup {Null}, prev : Cell \cup {Null}]

CellsTyped ==
  /\ head \in Cell /\ tail \in Cell
  /\ next \in [Cell -> Cell \cup {Null}]
  /\ push \in [Pusher -> PushState]
  /\ chain \in Seq(Cell)

Simple == \A i, j \in DOMAIN chain : chain[i] = chain[j] => i = j

Standing(p) ==
  /\ push[p].at = "idle" => push[p].node = Null
  /\ push[p].at = "swap" =>
       /\ push[p].node \in Cell /\ ~InChain(push[p].node)
       /\ next[push[p].node] = Null
  /\ push[p].at = "link" => \E i \in 1..(Len(chain) - 1) : Linking(p, i)

Apart == \A p, q \in Pusher : push[p].node # Null /\ push[p].node = push[q].node => p = q

Shape ==
  /\ CellsTyped /\ Simple /\ ListUnbroken /\ Apart
  /\ \A p \in Pusher : Standing(p)

PopControl ==
  /\ pop \in {"idle", "load", "reload", "head", "stub", "pushing", "last", "done"}
  /\ got \in Node \cup {Null, Empty} /\ (got # Null => pop = "done")
  /\ pop \in {"reload", "head", "stub", "pushing", "last"} => tail # Stub
  /\ pop = "stub" => ~InChain(Stub)
  /\ (pop = "pushing") = (push[Popper].at # "idle")
  /\ pop = "pushing" => push[Popper].node = Stub
  /\ \A t \in Thread : push[t].node # Stub

QueueSound == Shape /\ PopControl

LEMMA PushStates ==
  ASSUME push \in [Pusher -> PushState], NEW p \in Pusher
  PROVE  /\ push[p] \in PushState /\ Idle \in PushState
         /\ \A n \in Cell : [at |-> "swap", node |-> n, prev |-> Null] \in PushState
         /\ \A c \in Cell : [push[p] EXCEPT !.at = "link", !.prev = c] \in PushState
         /\ \A s \in PushState : [push EXCEPT ![p] = s] \in [Pusher -> PushState]
  <1>1. push[p] \in PushState
    OBVIOUS
  <1>2. Idle \in PushState
    BY DEF Idle, PushState
  <1>3. \A n \in Cell : [at |-> "swap", node |-> n, prev |-> Null] \in PushState
    BY DEF PushState
  <1>4. \A c \in Cell : [push[p] EXCEPT !.at = "link", !.prev = c] \in PushState
    BY <1>1 DEF PushState
  <1>5. \A s \in PushState : [push EXCEPT ![p] = s] \in [Pusher -> PushState]
    OBVIOUS
  <1> QED
    BY <1>1, <1>2, <1>3, <1>4, <1>5

LEMMA Facts ==
  ASSUME Shape
  PROVE  /\ chain \in Seq(Cell) /\ Len(chain) \in Nat \ {0} /\ DOMAIN chain = 1..Len(chain)
         /\ \A i \in 1..Len(chain) : chain[i] \in Cell
         /\ \A p \in Pusher : push[p].at \in {"idle", "swap", "link"}
         /\ DOMAIN next = Cell /\ DOMAIN push = Pusher /\ Null \notin Cell
  <1>1. chain \in Seq(Cell) /\ chain # <<>>
    BY DEF Shape, CellsTyped, ListUnbroken
  <1>2. Len(chain) \in Nat \ {0} /\ DOMAIN chain = 1..Len(chain)
    BY <1>1
  <1>3. \A i \in 1..Len(chain) : chain[i] \in Cell
    BY <1>1, <1>2, ElementOfSeq
  <1>4. \A p \in Pusher : push[p].at \in {"idle", "swap", "link"}
    BY DEF Shape, CellsTyped, PushState
  <1>5. DOMAIN next = Cell /\ DOMAIN push = Pusher /\ Null \notin Cell
    BY QueueAssumption DEF Shape, CellsTyped, Cell
  <1> QED
    BY <1>1, <1>2, <1>3, <1>4, <1>5

(***************************************************************************)
(* Clearing the next of a cell that is nowhere disturbs nothing.           *)
(***************************************************************************)
LEMMA ClearKeeps ==
  ASSUME Shape, NEW p \in Pusher, NEW n \in Cell, Clear(p, n),
         ~InChain(n), \A q \in Pusher : push[q].node # n
  PROVE  Shape'
  <1> USE Facts
  <1>1. /\ push[p].at = "idle"
        /\ next' = [next EXCEPT ![n] = Null]
        /\ push' = [push EXCEPT ![p] = [at |-> "swap", node |-> n, prev |-> Null]]
        /\ UNCHANGED <<head, tail, chain>>
    BY DEF Clear
  <1>2. /\ push'[p] = [at |-> "swap", node |-> n, prev |-> Null]
        /\ \A q \in Pusher : q # p => push'[q] = push[q]
    BY <1>1
  <1>3. next'[n] = Null /\ \A c \in Cell : c # n => next'[c] = next[c]
    BY <1>1
  <1>4. \A i \in 1..Len(chain) : chain[i] # n /\ next'[chain[i]] = next[chain[i]]
    BY <1>3 DEF InChain
  <1>5. CellsTyped'
    <2>1. push' \in [Pusher -> PushState]
      BY <1>1, PushStates DEF Shape, CellsTyped
    <2>2. next' \in [Cell -> Cell \cup {Null}]
      BY <1>1 DEF Shape, CellsTyped
    <2> QED
      BY <1>1, <2>1, <2>2 DEF Shape, CellsTyped
  <1>6. \A q \in Pusher, i \in 1..(Len(chain) - 1) : Linking(q, i)' <=> Linking(q, i)
    BY <1>1, <1>2 DEF Linking
  <1>7. ListUnbroken'
    <2>1. head = chain[Len(chain)] /\ next[head] = Null
      BY DEF Shape, ListUnbroken
    <2>2. next'[head] = Null
      BY <1>4, <2>1
    <2> QED
      BY <1>1, <1>4, <1>6, <2>2 DEF Shape, ListUnbroken
  <1>8. Simple' /\ Apart'
    BY <1>1, <1>2 DEF Shape, Simple, Apart
  <1>9. ASSUME NEW q \in Pusher PROVE Standing(q)'
    <2>1. CASE q = p
      BY <1>1, <1>2, <1>3, <2>1 DEF Standing, InChain
    <2>2. CASE q # p
      BY <1>1, <1>2, <1>3, <1>6, <2>2 DEF Shape, Standing, InChain
    <2> QED
      BY <2>1, <2>2
  <1> QED
    BY <1>5, <1>7, <1>8, <1>9 DEF Shape

(***************************************************************************)
(* The exchange of the head appends a cell that the pusher must still link *)
(***************************************************************************)
LEMMA SwapKeeps ==
  ASSUME Shape, NEW p \in Pusher, Swap(p)
  PROVE  Shape'
  <1> USE Facts
  <1> DEFINE n == push[p].node
             l == Len(chain)
  <1>1. n \in Cell /\ ~InChain(n) /\ next[n] = Null
    BY DEF Swap, Shape, Standing
  <1>2. /\ push[p].at = "swap"
        /\ push' = [push EXCEPT ![p].at = "link", ![p].prev = head]
        /\ head' = n /\ chain' = Append(chain, n) /\ UNCHANGED <<tail, next>>
    BY DEF Swap
  <1>3. /\ push'[p].at = "link" /\ push'[p].prev = head /\ push'[p].node = n
        /\ \A q \in Pusher : q # p => push'[q] = push[q]
    BY <1>2 DEF Shape, CellsTyped
  <1>4. /\ chain' \in Seq(Cell) /\ Len(chain') = l + 1 /\ chain'[l + 1] = n
        /\ \A i \in 1..l : chain'[i] = chain[i]
        /\ l \in Nat \ {0}
    BY <1>1, <1>2
  <1>5. chain[l] = head /\ chain[1] = tail /\ next[head] = Null
    BY DEF Shape, ListUnbroken
  <1> HIDE DEF n, l
  <1>l. DOMAIN chain = 1..l /\ DOMAIN chain' = 1..(l + 1) /\ \A i \in 1..l : chain[i] # n
    BY <1>1, <1>4 DEF l, InChain
  <1>6. CellsTyped'
    <2>1. head \in Cell /\ push \in [Pusher -> PushState]
      BY DEF Shape, CellsTyped
    <2>2. push' \in [Pusher -> PushState]
      <3>1. [push[p] EXCEPT !.at = "link", !.prev = head] \in PushState
        BY <2>1, PushStates
      <3>2. push' = [push EXCEPT ![p] = [push[p] EXCEPT !.at = "link", !.prev = head]]
        BY <1>2
      <3> QED
        BY <2>1, <3>1, <3>2, PushStates
    <2>3. head' \in Cell /\ chain' \in Seq(Cell)
      BY <1>1, <1>2, <1>4
    <2> QED
      BY <1>2, <2>2, <2>3 DEF Shape, CellsTyped
  <1>7. Simple'
    BY <1>4, <1>l DEF Shape, Simple
  <1>8. ASSUME NEW q \in Pusher, NEW i \in 1..l
        PROVE  Linking(q, i)' <=> IF i = l THEN q = p ELSE Linking(q, i)
    <2>1. i + 1 \in 1..(l + 1) /\ (i # l => i + 1 \in 1..l)
      BY <1>4
    <2>2. CASE q = p
      <3>1. Linking(p, i)' <=> head = chain[i] /\ n = chain'[i + 1]
        BY <1>3, <1>4 DEF Linking
      <3> QED
        BY <1>2, <1>4, <1>5, <1>l, <2>2, <3>1 DEF Shape, Simple, Linking
    <2>3. CASE q # p /\ i = l
      <3>1. push[q].node # n
        BY <1>1, <2>3 DEF Shape, Apart, n
      <3> QED
        BY <1>3, <1>4, <2>3, <3>1 DEF Linking
    <2>4. CASE q # p /\ i # l
      BY <1>3, <1>4, <2>1, <2>4 DEF Linking
    <2> QED
      BY <2>2, <2>3, <2>4
  <1>9. ListUnbroken'
    <2>1. chain' # <<>> /\ tail' = chain'[1] /\ head' = chain'[Len(chain')] /\ next'[head'] = Null
      BY <1>1, <1>2, <1>4, <1>5
    <2>2. ASSUME NEW i \in 1..l
          PROVE  \/ next'[chain'[i]] = chain'[i + 1] /\ \A q \in Pusher : ~Linking(q, i)'
                 \/ next'[chain'[i]] = Null /\ \E q \in Pusher : Linking(q, i)'
      <3>1. CASE i = l
        BY <1>2, <1>4, <1>5, <1>8, <3>1
      <3>2. CASE i # l
        <4>1. i \in 1..(Len(chain) - 1) /\ i + 1 \in 1..l
          BY <1>4, <3>2 DEF l
        <4>2. \/ next[chain[i]] = chain[i + 1] /\ \A q \in Pusher : ~Linking(q, i)
              \/ next[chain[i]] = Null /\ \E q \in Pusher : Linking(q, i)
          BY <4>1 DEF Shape, ListUnbroken
        <4> QED
          BY <1>2, <1>4, <1>8, <3>2, <4>1, <4>2
      <3> QED
        BY <3>1, <3>2
    <2>3. Len(chain') - 1 = l
      BY <1>4
    <2> QED
      BY <2>1, <2>2, <2>3 DEF ListUnbroken
  <1>10. Apart'
    BY <1>3 DEF Shape, Apart, n
  <1>11. ASSUME NEW q \in Pusher PROVE Standing(q)'
    <2>1. CASE q = p
      <3>1. \E i \in 1..(Len(chain') - 1) : Linking(p, i)'
        <4>1. \A i \in 1..l : i = l => Linking(p, i)'
          BY <1>8
        <4> QED
          BY <1>4, <4>1
      <3> QED
        BY <1>3, <2>1, <3>1 DEF Standing
    <2>2. CASE q # p
      <3>1. push[q].at = "swap" => push[q].node # n
        BY <1>1, <2>2 DEF Shape, Apart, n
      <3>2. \A c : c # n /\ ~InChain(c) => ~InChain(c)'
        BY <1>4, <1>l DEF InChain
      <3>3. push[q].at = "link" => \E i \in 1..(Len(chain') - 1) : Linking(q, i)'
        <4> SUFFICES ASSUME push[q].at = "link"
                     PROVE  \E i \in 1..(Len(chain') - 1) : Linking(q, i)'
          OBVIOUS
        <4>1. PICK i \in 1..(Len(chain) - 1) : Linking(q, i)
          BY DEF Shape, Standing
        <4>2. i \in 1..l /\ i # l /\ i \in 1..(Len(chain') - 1)
          BY <1>4 DEF l
        <4> QED
          BY <1>8, <4>1, <4>2
      <3> QED
        BY <1>2, <1>3, <2>2, <3>1, <3>2, <3>3 DEF Shape, Standing
    <2> QED
      BY <2>1, <2>2
  <1> QED
    BY <1>6, <1>7, <1>9, <1>10, <1>11 DEF Shape

(***************************************************************************)
(* The store into the old head's next closes the gap it was waiting at.    *)
(***************************************************************************)
LEMMA LinkKeeps ==
  ASSUME Shape, NEW p \in Pusher, Link(p)
  PROVE  Shape'
  <1> USE Facts
  <1>1. /\ push[p].at = "link"
        /\ next' = [next EXCEPT ![push[p].prev] = push[p].node]
        /\ push' = [push EXCEPT ![p] = Idle]
        /\ UNCHANGED <<head, tail, chain>>
    BY DEF Link
  <1>2. PICK k \in 1..(Len(chain) - 1) : Linking(p, k)
    BY <1>1 DEF Shape, Standing
  <1>3. /\ k \in 1..Len(chain) /\ k + 1 \in 1..Len(chain) /\ chain[k] \in Cell
        /\ chain[k + 1] \in Cell
        /\ next' = [next EXCEPT ![chain[k]] = chain[k + 1]]
    BY <1>1, <1>2 DEF Linking
  <1>4. next'[chain[k]] = chain[k + 1] /\ \A c \in Cell : c # chain[k] => next'[c] = next[c]
    BY <1>3
  <1>5. push'[p] = Idle /\ \A q \in Pusher : q # p => push'[q] = push[q]
    BY <1>1
  <1>6. \A q \in Pusher : q # p => ~Linking(q, k)
    <2>1. chain[k + 1] # Null
      BY <1>3
    <2> QED
      BY <1>2, <2>1 DEF Shape, Apart, Linking
  <1>7. \A i \in 1..(Len(chain) - 1) : i # k => ~Linking(p, i)
    BY <1>2 DEF Shape, Simple, Linking
  <1>8. CellsTyped'
    <2>1. push' \in [Pusher -> PushState]
      BY <1>1, PushStates DEF Shape, CellsTyped
    <2>2. next' \in [Cell -> Cell \cup {Null}]
      BY <1>3 DEF Shape, CellsTyped
    <2> QED
      BY <1>1, <2>1, <2>2 DEF Shape, CellsTyped
  <1>9. Simple' /\ Apart'
    <2>1. push'[p].node = Null
      BY <1>5 DEF Idle
    <2> QED
      BY <1>1, <1>5, <2>1 DEF Shape, Simple, Apart
  <1>10. \A q \in Pusher, i \in 1..(Len(chain) - 1) : Linking(q, i)' <=> q # p /\ Linking(q, i)
    BY <1>1, <1>5 DEF Linking, Idle
  <1>11. ListUnbroken'
    <2>1. head = chain[Len(chain)] /\ next[head] = Null /\ tail = chain[1] /\ chain # <<>>
      BY DEF Shape, ListUnbroken
    <2>2. head # chain[k]
      BY <1>3, <2>1 DEF Shape, Simple
    <2>3. next'[head] = Null
      BY <1>4, <2>1, <2>2 DEF Shape, CellsTyped
    <2>4. ASSUME NEW i \in 1..(Len(chain) - 1)
          PROVE  \/ next'[chain[i]] = chain[i + 1] /\ \A q \in Pusher : ~Linking(q, i)'
                 \/ next'[chain[i]] = Null /\ \E q \in Pusher : Linking(q, i)'
      <3>1. CASE i = k
        BY <1>4, <1>6, <1>10, <3>1
      <3>2. CASE i # k
        <4>1. chain[i] # chain[k] /\ chain[i] \in Cell
          BY <1>3, <3>2 DEF Shape, Simple
        <4>2. \/ next[chain[i]] = chain[i + 1] /\ \A q \in Pusher : ~Linking(q, i)
              \/ next[chain[i]] = Null /\ \E q \in Pusher : Linking(q, i)
          BY DEF Shape, ListUnbroken
        <4> QED
          BY <1>4, <1>7, <1>10, <3>2, <4>1, <4>2
      <3> QED
        BY <3>1, <3>2
    <2> QED
      BY <1>1, <2>1, <2>3, <2>4 DEF ListUnbroken
  <1>12. ASSUME NEW q \in Pusher PROVE Standing(q)'
    <2>1. CASE q = p
      BY <1>5, <2>1 DEF Standing, Idle
    <2>2. CASE q # p
      <3>1. push[q].at = "swap" => next'[push[q].node] = Null
        BY <1>3, <1>4, <2>2 DEF Shape, Standing, InChain
      <3>2. push[q].at = "link" => \E i \in 1..(Len(chain) - 1) : Linking(q, i)'
        BY <1>10, <2>2 DEF Shape, Standing
      <3> QED
        BY <1>1, <1>5, <2>2, <3>1, <3>2 DEF Shape, Standing, InChain
    <2> QED
      BY <2>1, <2>2
  <1> QED
    BY <1>8, <1>9, <1>11, <1>12 DEF Shape

(***************************************************************************)
(* The consumer moves the tail to a next that is filled in: the list only  *)
(* loses its first cell, at which nobody is linking.                       *)
(***************************************************************************)
LEMMA AdvanceKeeps ==
  ASSUME Shape, next[tail] # Null, Advance
  PROVE  /\ Shape' /\ tail' # tail /\ tail \in Cell
         /\ \A c : InChain(c)' <=> InChain(c) /\ c # tail
  <1> USE Facts
  <1> DEFINE l == Len(chain)
  <1>1. tail = chain[1] /\ head = chain[l] /\ next[head] = Null
    BY DEF Shape, ListUnbroken
  <1>2. l > 1 /\ 1 \in 1..(l - 1) /\ l - 1 \in Nat \ {0} /\ l \in Nat
    BY <1>1
  <1>3. next[chain[1]] = chain[2] /\ \A q \in Pusher : ~Linking(q, 1)
    BY <1>1, <1>2 DEF Shape, ListUnbroken
  <1>4. /\ chain' \in Seq(Cell) /\ Len(chain') = l - 1 /\ chain' # <<>>
        /\ \A i \in 1..(l - 1) : chain'[i] = chain[i + 1]
        /\ tail' = chain[2] /\ UNCHANGED <<head, next, push>>
    <2>1. tail' = next[tail] /\ chain' = Tail(chain) /\ UNCHANGED <<head, next, push>>
      BY DEF Advance
    <2>2. /\ Tail(chain) \in Seq(Cell) /\ Len(Tail(chain)) = Len(chain) - 1
          /\ \A i \in 1..Len(Tail(chain)) : Tail(chain)[i] = chain[i + 1]
      BY <1>2
    <2> HIDE DEF l
    <2>3. Len(chain') = l - 1
      BY <2>1, <2>2 DEF l
    <2> QED
      BY <1>1, <1>2, <1>3, <2>1, <2>2, <2>3
  <1> HIDE DEF l
  <1>l. DOMAIN chain = 1..l /\ DOMAIN chain' = 1..(l - 1)
    BY <1>4 DEF l
  <1>5. \A i \in 1..(l - 1) : i + 1 \in 1..l /\ chain'[i] = chain[i + 1] /\ chain'[i] # chain[1]
    <2>1. \A i \in 1..(l - 1) : i + 1 \in 1..l /\ i + 1 # 1 /\ 1 \in 1..l
      BY <1>2
    <2> QED
      BY <1>4, <1>l, <2>1 DEF Shape, Simple
  <1>6. CellsTyped'
    <2>1. chain[2] \in Cell
      BY <1>2 DEF l
    <2> QED
      BY <1>4, <2>1 DEF Shape, CellsTyped
  <1>7. Simple'
    <2>1. \A i, j \in 1..(l - 1) : i + 1 = j + 1 => i = j
      BY <1>2
    <2> QED
      BY <1>5, <1>l, <2>1 DEF Shape, Simple
  <1>8. \A q \in Pusher, i \in 1..(l - 2) : Linking(q, i)' <=> Linking(q, i + 1)
    <2>1. \A i \in 1..(l - 2) : i \in 1..(l - 1) /\ i + 1 \in 1..(l - 1)
      BY <1>2
    <2> QED
      BY <1>4, <1>5, <2>1 DEF Linking
  <1>9. ListUnbroken'
    <2>1. tail' = chain'[1] /\ head' = chain'[Len(chain')] /\ next'[head'] = Null
      <3>1. l - 1 \in 1..(l - 1) /\ (l - 1) + 1 = l
        BY <1>2
      <3> QED
        BY <1>1, <1>2, <1>4, <3>1
    <2>2. ASSUME NEW i \in 1..(Len(chain') - 1)
          PROVE  \/ next'[chain'[i]] = chain'[i + 1] /\ \A q \in Pusher : ~Linking(q, i)'
                 \/ next'[chain'[i]] = Null /\ \E q \in Pusher : Linking(q, i)'
      <3>1. i \in 1..(l - 2) /\ i + 1 \in 1..(Len(chain) - 1) /\ i \in 1..(l - 1) /\ i + 1 \in 1..(l - 1)
        BY <1>2, <1>4 DEF l
      <3>2. \/ next[chain[i + 1]] = chain[(i + 1) + 1] /\ \A q \in Pusher : ~Linking(q, i + 1)
            \/ next[chain[i + 1]] = Null /\ \E q \in Pusher : Linking(q, i + 1)
        BY <3>1 DEF Shape, ListUnbroken
      <3> QED
        BY <1>4, <1>8, <3>1, <3>2
    <2> QED
      BY <1>4, <2>1, <2>2 DEF ListUnbroken
  <1>10. Apart'
    BY <1>4 DEF Shape, Apart
  <1>11. \A c : InChain(c)' <=> InChain(c) /\ c # chain[1]
    <2>1. \A c : InChain(c)' => InChain(c) /\ c # chain[1]
      BY <1>5, <1>l DEF InChain
    <2>2. ASSUME NEW c, InChain(c), c # chain[1] PROVE InChain(c)'
      <3>1. PICK i \in 1..l : chain[i] = c
        BY <1>l, <2>2 DEF InChain
      <3>2. i - 1 \in 1..(l - 1) /\ (i - 1) + 1 = i
        BY <1>2, <2>2, <3>1
      <3>3. chain'[i - 1] = c
        BY <1>5, <3>1, <3>2
      <3> QED
        BY <1>l, <3>2, <3>3 DEF InChain
    <2> QED
      BY <2>1, <2>2
  <1>12. ASSUME NEW q \in Pusher PROVE Standing(q)'
    <2>1. push[q].at = "link" => \E i \in 1..(Len(chain') - 1) : Linking(q, i)'
      <3> SUFFICES ASSUME push[q].at = "link"
                   PROVE  \E i \in 1..(Len(chain') - 1) : Linking(q, i)'
        OBVIOUS
      <3>1. PICK k \in 1..(Len(chain) - 1) : Linking(q, k)
        BY DEF Shape, Standing
      <3>2. k # 1
        BY <1>3, <3>1
      <3>3. k - 1 \in 1..(l - 2) /\ (k - 1) + 1 = k /\ k - 1 \in 1..(Len(chain') - 1)
        BY <1>2, <1>4, <3>2 DEF l
      <3>4. Linking(q, (k - 1) + 1)
        BY <3>1, <3>3
      <3>5. \A i \in 1..(l - 2) : i = k - 1 => Linking(q, i)'
        BY <1>8, <3>4
      <3> QED
        BY <1>4, <3>3, <3>5
    <2> QED
      BY <1>4, <1>11, <2>1 DEF Shape, Standing
  <1>13. tail' # tail
    <2>1. tail' = chain'[1] /\ 1 \in 1..(l - 1)
      BY <1>2, <1>5, <1>4
    <2> QED
      BY <1>1, <1>5, <2>1
  <1> QED
    BY <1>1, <1>6, <1>7, <1>9, <1>10, <1>11, <1>12, <1>13 DEF Shape, CellsTyped

cells == <<head, tail, next, push, chain>>

LEMMA ShapeKept ==
  ASSUME Shape, UNCHANGED cells PROVE Shape'
  BY DEF Shape, CellsTyped, Simple, ListUnbroken, Apart, Standing, Linking, InChain, cells

(***************************************************************************)
(* A producer's steps, at any point of the consumer's.                     *)
(***************************************************************************)
LEMMA ThreadSwap ==
  ASSUME QueueSound, NEW t \in Thread, Swap(t)
  PROVE  QueueSound'
  <1>1. t \in Pusher /\ t # Popper /\ Popper \in Pusher /\ Shape /\ PopControl
    BY QueueAssumption DEF Pusher, QueueSound
  <1>2. push \in [Pusher -> PushState] /\ chain \in Seq(Cell)
    BY <1>1 DEF Shape, CellsTyped
  <1>3. Shape'
    BY <1>1, SwapKeeps
  <1>4. /\ UNCHANGED <<tail, pop, got>> /\ chain' = Append(chain, push[t].node)
        /\ push[t].node # Stub
    BY <1>1 DEF Swap, PopControl
  <1>5. push'[Popper] = push[Popper] /\ \A u \in Thread : push'[u].node = push[u].node
    BY <1>1, <1>2 DEF Swap, Pusher
  <1>6. ~InChain(Stub) => ~InChain(Stub)'
    BY <1>2, <1>4 DEF InChain
  <1>7. PopControl'
    BY <1>1, <1>4, <1>5, <1>6 DEF PopControl
  <1> QED
    BY <1>3, <1>7 DEF QueueSound

LEMMA ThreadLink ==
  ASSUME QueueSound, NEW t \in Thread, Link(t), UNCHANGED pop
  PROVE  QueueSound'
  <1>1. t \in Pusher /\ t # Popper /\ Popper \in Pusher /\ Shape /\ PopControl
    BY QueueAssumption DEF Pusher, QueueSound
  <1>2. push \in [Pusher -> PushState] /\ chain \in Seq(Cell)
    BY <1>1 DEF Shape, CellsTyped
  <1>3. Shape'
    BY <1>1, LinkKeeps
  <1>4. /\ UNCHANGED <<tail, pop, got, chain>> /\ push'[Popper] = push[Popper]
        /\ \A u \in Thread : push'[u].node \in {push[u].node, Null}
    BY <1>1, <1>2 DEF Link, Idle, Pusher
  <1>5. PopControl'
    BY <1>1, <1>4, QueueAssumption DEF PopControl, InChain
  <1> QED
    BY <1>3, <1>5 DEF QueueSound

LEMMA ThreadClear ==
  ASSUME QueueSound, NEW t \in Thread, NEW n \in Node, Free(n), Clear(t, n), UNCHANGED pop
  PROVE  QueueSound'
  <1>1. t \in Pusher /\ t # Popper /\ Popper \in Pusher /\ Shape /\ PopControl
    BY QueueAssumption DEF Pusher, QueueSound
  <1>2. push \in [Pusher -> PushState]
    BY <1>1 DEF Shape, CellsTyped
  <1>3. n \in Cell /\ n # Stub /\ ~InChain(n) /\ \A p \in Pusher : push[p].node # n
    BY QueueAssumption DEF Free, Cell
  <1>4. Shape'
    BY <1>1, <1>3, ClearKeeps
  <1>5. /\ UNCHANGED <<tail, got, chain>> /\ push'[Popper] = push[Popper]
        /\ \A u \in Thread : push'[u].node \in {push[u].node, n}
    BY <1>1, <1>2 DEF Clear, Pusher
  <1>6. PopControl'
    BY <1>1, <1>3, <1>5 DEF PopControl, InChain
  <1> QED
    BY <1>4, <1>6 DEF QueueSound

(***************************************************************************)
(* The consumer's steps: those that advance the tail, those that only      *)
(* look, and its own push of the stub.                                     *)
(***************************************************************************)
LEMMA Advancing ==
  ASSUME QueueSound, next[tail] # Null, Advance,
         \/ tail # Stub /\ Return(tail) /\ pop # "idle" /\ pop # "pushing"
         \/ tail = Stub /\ pop = "load" /\ pop' = "reload" /\ UNCHANGED got
  PROVE  QueueSound'
  <1>1. Shape /\ PopControl
    BY DEF QueueSound
  <1>2. /\ Shape' /\ tail' # tail /\ tail \in Cell
        /\ \A c : InChain(c)' => InChain(c) /\ c # tail
    BY <1>1, AdvanceKeeps
  <1>3. UNCHANGED push
    BY DEF Advance
  <1>4. PopControl'
    BY <1>1, <1>2, <1>3 DEF PopControl, Return, Cell
  <1> QED
    BY <1>2, <1>4 DEF QueueSound

LEMMA Looking ==
  ASSUME QueueSound, UNCHANGED cells,
         \/ pop' = "head" /\ tail # Stub /\ pop \in {"load", "reload"} /\ UNCHANGED got
         \/ pop' = "stub" /\ tail # Stub /\ ~InChain(Stub) /\ pop = "head" /\ UNCHANGED got
         \/ pop' = "load" /\ pop \in {"idle", "done"} /\ got' = Null
         \/ pop' = "idle" /\ pop \in {"idle", "done"} /\ got' = Null
         \/ (Return(Null) \/ Return(Empty)) /\ pop # "idle" /\ pop # "pushing"
  PROVE  QueueSound'
  <1>1. Shape /\ PopControl
    BY DEF QueueSound
  <1>2. Shape'
    BY <1>1, ShapeKept
  <1>3. UNCHANGED <<tail, push, chain>> /\ InChain(Stub)' = InChain(Stub)
    BY DEF cells, InChain
  <1>4. PopControl'
    BY <1>1, <1>3 DEF PopControl, Return
  <1> QED
    BY <1>2, <1>4 DEF QueueSound

LEMMA StubSteps ==
  ASSUME QueueSound, ClearStub \/ Swap(Popper) \/ LinkStub
  PROVE  QueueSound' /\ pop \in {"stub", "pushing"} /\ UNCHANGED got
  <1>1. Shape /\ PopControl /\ Popper \in Pusher
    BY DEF QueueSound, Pusher
  <1>2. push \in [Pusher -> PushState]
    BY <1>1 DEF Shape, CellsTyped
  <1>3. CASE ClearStub
    <2>1. /\ Stub \in Cell /\ ~InChain(Stub) /\ Clear(Popper, Stub) /\ pop = "stub"
          /\ pop' = "pushing" /\ tail # Stub
      BY <1>1, <1>3 DEF ClearStub, PopControl, Cell
    <2>2. \A q \in Pusher : push[q].node # Stub
      <3>1. push[Popper].node = Null
        BY <1>1, <2>1 DEF PopControl, Shape, Standing
      <3> QED
        BY <1>1, <3>1, QueueAssumption DEF PopControl, Pusher
    <2>3. Shape'
      BY <1>1, <2>1, <2>2, ClearKeeps
    <2>4. /\ UNCHANGED <<tail, got, chain>>
          /\ push'[Popper].at = "swap" /\ push'[Popper].node = Stub
          /\ \A u \in Thread : push'[u] = push[u]
      BY <1>1, <1>2, <2>1, QueueAssumption DEF Clear, Pusher
    <2>5. PopControl'
      BY <1>1, <2>1, <2>4 DEF PopControl
    <2> QED
      BY <2>1, <2>3, <2>4, <2>5 DEF QueueSound
  <1>4. CASE Swap(Popper)
    <2>1. pop = "pushing" /\ push[Popper].at = "swap"
      BY <1>1, <1>4 DEF Swap, PopControl
    <2>2. Shape'
      BY <1>1, <1>4, SwapKeeps
    <2>3. /\ UNCHANGED <<tail, pop, got>>
          /\ push'[Popper].at = "link" /\ push'[Popper].node = push[Popper].node
          /\ \A u \in Thread : push'[u] = push[u]
      BY <1>1, <1>2, <1>4, QueueAssumption DEF Swap, Pusher, PushState
    <2>4. PopControl'
      BY <1>1, <2>1, <2>3 DEF PopControl
    <2> QED
      BY <2>1, <2>2, <2>3, <2>4 DEF QueueSound
  <1>5. CASE LinkStub
    <2>1. pop = "pushing" /\ Link(Popper) /\ pop' = "last"
      BY <1>5 DEF LinkStub
    <2>2. Shape'
      BY <1>1, <2>1, LinkKeeps
    <2>3. /\ UNCHANGED <<tail, got, chain>> /\ push'[Popper].at = "idle"
          /\ \A u \in Thread : push'[u] = push[u]
      BY <1>1, <1>2, <2>1, QueueAssumption DEF Link, Idle, Pusher
    <2>4. PopControl'
      BY <1>1, <2>1, <2>3 DEF PopControl
    <2> QED
      BY <2>1, <2>2, <2>3, <2>4 DEF QueueSound
  <1> QED
    BY <1>3, <1>4, <1>5

(***************************************************************************)
(* What is in the queue, for any sequence of cells that holds the stub at  *)
(* most once: what WithoutStub is, and what appending a cell to it and     *)
(* dropping its first one do.                                              *)
(***************************************************************************)
Once(s) == \A i, j \in DOMAIN s : s[i] = s[j] => i = j

Without(s, k) == [i \in 1..(Len(s) - 1) |-> s[IF i < k THEN i ELSE i + 1]]

LEMMA WithoutIt ==
  ASSUME NEW s \in Seq(Cell), Once(s), NEW k \in 1..Len(s), s[k] = Stub
  PROVE  WithoutStub(s) = Without(s, k)
  <1>1. k \in DOMAIN s /\ \A i \in DOMAIN s : s[i] = Stub => i = k
    BY DEF Once
  <1>2. (CHOOSE i \in DOMAIN s : s[i] = Stub) = k
    BY <1>1
  <1> QED
    BY <1>1, <1>2 DEF WithoutStub, Without

LEMMA WithoutNothing ==
  ASSUME NEW s \in Seq(Cell), \A i \in 1..Len(s) : s[i] # Stub
  PROVE  WithoutStub(s) = s
  BY DEF WithoutStub

LEMMA FunctionIsSeq ==
  ASSUME NEW S, NEW n \in Nat, NEW f \in [1..n -> S]
  PROVE  f \in Seq(S) /\ Len(f) = n
  OBVIOUS

LEMMA WithoutIsSeq ==
  ASSUME NEW s \in Seq(Cell), Once(s), NEW k \in 1..Len(s), s[k] = Stub
  PROVE  /\ Without(s, k) \in Seq(Node) /\ Len(Without(s, k)) = Len(s) - 1
         /\ \A i \in 1..(Len(s) - 1) : Without(s, k)[i] = s[IF i < k THEN i ELSE i + 1]
  <1>1. Len(s) \in Nat \ {0} /\ DOMAIN s = 1..Len(s) /\ Len(s) - 1 \in Nat
    OBVIOUS
  <1>2. ASSUME NEW i \in 1..(Len(s) - 1)
        PROVE  s[IF i < k THEN i ELSE i + 1] \in Node
    <2> DEFINE j == IF i < k THEN i ELSE i + 1
    <2>1. j \in 1..Len(s) /\ j # k
      BY <1>1
    <2> HIDE DEF j
    <2>2. s[j] \in Cell
      BY <2>1, ElementOfSeq
    <2>3. s[j] # Stub
      BY <1>1, <2>1 DEF Once
    <2>4. s[j] \in Node
      BY <2>2, <2>3 DEF Cell
    <2> QED
      BY <2>4 DEF j
  <1>3. Without(s, k) \in [1..(Len(s) - 1) -> Node]
    BY <1>2 DEF Without
  <1>4. Without(s, k) \in Seq(Node) /\ Len(Without(s, k)) = Len(s) - 1
    BY <1>1, <1>3, FunctionIsSeq
  <1>5. \A i \in 1..(Len(s) - 1) : Without(s, k)[i] = s[IF i < k THEN i ELSE i + 1]
    BY Zenon DEF Without
  <1> QED
    BY <1>4, <1>5, Zenon

LEMMA NoStubIsSeq ==
  ASSUME NEW s \in Seq(Cell), \A i \in 1..Len(s) : s[i] # Stub
  PROVE  s \in Seq(Node)
  <1>1. \A i \in 1..Len(s) : s[i] \in Node
    BY ElementOfSeq DEF Cell
  <1> QED
    BY <1>1

LEMMA WithoutStubIsSeq ==
  ASSUME NEW s \in Seq(Cell), Once(s)
  PROVE  /\ WithoutStub(s) \in Seq(Node) /\ Len(WithoutStub(s)) \in Nat
         /\ s # <<>> /\ WithoutStub(s) = <<>> => Len(s) = 1 /\ s[1] = Stub
  <1>1. CASE \A i \in 1..Len(s) : s[i] # Stub
    BY <1>1, WithoutNothing, NoStubIsSeq
  <1>2. ASSUME NEW k \in 1..Len(s), s[k] = Stub
        PROVE  /\ WithoutStub(s) \in Seq(Node)
               /\ WithoutStub(s) = <<>> => Len(s) = 1 /\ s[1] = Stub
    <2>1. WithoutStub(s) = Without(s, k)
      BY <1>2, WithoutIt
    <2>2. Without(s, k) \in Seq(Node) /\ Len(Without(s, k)) = Len(s) - 1
      BY <1>2, WithoutIsSeq
    <2>3. ASSUME WithoutStub(s) = <<>> PROVE Len(s) = 1 /\ s[1] = Stub
      <3>1. Len(s) - 1 = 0
        BY <2>1, <2>2, <2>3
      <3>2. Len(s) \in Nat
        OBVIOUS
      <3>3. Len(s) = 1
        BY <3>1, <3>2
      <3>4. k = 1
        BY <3>3
      <3> QED
        BY <1>2, <3>3, <3>4
    <2> QED
      BY <2>1, <2>2, <2>3
  <1> QED
    BY <1>1, <1>2

LEMMA SameSeq ==
  ASSUME NEW S, NEW s \in Seq(S), NEW t \in Seq(S), Len(s) = Len(t),
         \A i \in 1..Len(s) : s[i] = t[i]
  PROVE  s = t
  OBVIOUS

LEMMA WithoutAppended ==
  ASSUME NEW s \in Seq(Cell), NEW c \in Cell, Once(s), Once(Append(s, c))
  PROVE  WithoutStub(Append(s, c)) = IF c = Stub THEN WithoutStub(s) ELSE Append(WithoutStub(s), c)
  <1> DEFINE l == Len(s)
             a == Append(s, c)
  <1>1. /\ l \in Nat /\ a \in Seq(Cell) /\ Len(a) = l + 1 /\ a[l + 1] = c
        /\ \A i \in 1..l : a[i] = s[i]
    OBVIOUS
  <1>2. DOMAIN s = 1..l /\ DOMAIN a = 1..(l + 1)
    BY <1>1
  <1>3. Once(a)
    OBVIOUS
  <1> HIDE DEF l, a
  <1>4. CASE c = Stub
    <2>1. ASSUME NEW i \in 1..l PROVE s[i] # Stub
      <3>1. i \in 1..(l + 1) /\ l + 1 \in 1..(l + 1) /\ i # l + 1
        BY <1>1
      <3>2. a[i] # a[l + 1]
        BY <1>2, <1>3, <3>1 DEF Once
      <3> QED
        BY <1>1, <1>4, <3>2
    <2>2. WithoutStub(s) = s
      BY <2>1, WithoutNothing DEF l
    <2>3. l + 1 \in 1..Len(a) /\ a[l + 1] = Stub
      BY <1>1, <1>4
    <2>4. WithoutStub(a) = Without(a, l + 1)
      BY <1>1, <1>3, <2>3, WithoutIt
    <2>5. /\ Without(a, l + 1) \in Seq(Node) /\ Len(Without(a, l + 1)) = Len(a) - 1
          /\ \A i \in 1..(Len(a) - 1) : Without(a, l + 1)[i] = a[IF i < l + 1 THEN i ELSE i + 1]
      BY <1>1, <1>3, <2>3, WithoutIsSeq
    <2>6. Len(a) - 1 = l /\ \A i \in 1..l : i < l + 1
      BY <1>1
    <2>7. \A i \in 1..l : Without(a, l + 1)[i] = s[i]
      BY <1>1, <2>5, <2>6
    <2>8. s \in Seq(Node)
      BY <2>1, NoStubIsSeq DEF l
    <2>9. Without(a, l + 1) = s
      BY <2>5, <2>6, <2>7, <2>8, SameSeq DEF l
    <2> QED
      BY <1>4, <2>2, <2>4, <2>9 DEF a
  <1>5. CASE c # Stub /\ \A i \in 1..l : s[i] # Stub
    <2>1. \A i \in 1..Len(a) : a[i] # Stub
      BY <1>1, <1>5
    <2> QED
      BY <1>1, <1>5, <2>1, WithoutNothing DEF l, a
  <1>6. ASSUME c # Stub, NEW k \in 1..l, s[k] = Stub
        PROVE  WithoutStub(a) = Append(WithoutStub(s), c)
    <2>1. k \in 1..Len(a) /\ k \in 1..Len(s) /\ a[k] = Stub
      BY <1>1, <1>6 DEF l
    <2>2. WithoutStub(a) = Without(a, k) /\ WithoutStub(s) = Without(s, k)
      BY <1>1, <1>3, <1>6, <2>1, WithoutIt
    <2>3. /\ Without(a, k) \in Seq(Node) /\ Len(Without(a, k)) = Len(a) - 1
          /\ \A i \in 1..(Len(a) - 1) : Without(a, k)[i] = a[IF i < k THEN i ELSE i + 1]
      BY <1>1, <1>3, <2>1, WithoutIsSeq
    <2>4. /\ Without(s, k) \in Seq(Node) /\ Len(Without(s, k)) = l - 1
          /\ \A i \in 1..(l - 1) : Without(s, k)[i] = s[IF i < k THEN i ELSE i + 1]
      BY <1>6, <2>1, WithoutIsSeq DEF l
    <2>5. Len(a) - 1 = l /\ (l - 1) + 1 = l /\ l - 1 \in Nat /\ c \in Node
      BY <1>1, <1>6 DEF Cell
    <2> DEFINE w == Without(s, k)
    <2>6. /\ Append(w, c) \in Seq(Node) /\ Len(Append(w, c)) = l
          /\ Append(w, c)[l] = c /\ \A i \in 1..(l - 1) : Append(w, c)[i] = w[i]
      BY <2>4, <2>5
    <2>7. ASSUME NEW i \in 1..l PROVE Without(a, k)[i] = Append(w, c)[i]
      <3>1. CASE i = l
        <4>1. ~(l < k) /\ l \in 1..(Len(a) - 1)
          BY <1>1, <2>5
        <4>2. Without(a, k)[l] = a[l + 1]
          BY <2>3, <4>1
        <4> QED
          BY <1>1, <2>6, <3>1, <4>2
      <3>2. CASE i # l
        <4>1. i \in 1..(l - 1) /\ i \in 1..(Len(a) - 1) /\ i + 1 \in 1..l
          BY <1>1, <2>5, <3>2
        <4>2. Without(a, k)[i] = a[IF i < k THEN i ELSE i + 1]
          BY <2>3, <4>1
        <4>3. w[i] = s[IF i < k THEN i ELSE i + 1]
          BY <2>4, <4>1
        <4> QED
          BY <1>1, <2>6, <4>1, <4>2, <4>3
      <3> QED
        BY <3>1, <3>2
    <2> HIDE DEF w
    <2>8. Without(a, k) = Append(w, c)
      BY <2>3, <2>5, <2>6, <2>7, SameSeq
    <2> QED
      BY <2>2, <2>8 DEF w
  <1> QED
    BY <1>4, <1>5, <1>6 DEF a

LEMMA WithoutTail ==
  ASSUME NEW s \in Seq(Cell), Once(s), Once(Tail(s)), s # <<>>
  PROVE  IF s[1] = Stub THEN WithoutStub(Tail(s)) = WithoutStub(s)
         ELSE /\ WithoutStub(s) # <<>> /\ Head(WithoutStub(s)) = s[1]
              /\ Tail(WithoutStub(s)) = WithoutStub(Tail(s))
  <1> DEFINE l == Len(s)
             t == Tail(s)
  <1>1. /\ l \in Nat \ {0} /\ l - 1 \in Nat /\ t \in Seq(Cell) /\ Len(t) = l - 1
        /\ \A i \in 1..(l - 1) : i + 1 \in 1..l /\ t[i] = s[i + 1]
    OBVIOUS
  <1>2. DOMAIN s = 1..l /\ DOMAIN t = 1..(l - 1) /\ 1 \in 1..l
    BY <1>1
  <1>3. Once(t)
    OBVIOUS
  <1> HIDE DEF l, t
  <1>4. CASE s[1] = Stub
    <2>1. \A i \in 1..(l - 1) : t[i] # Stub
      <3>1. \A i \in 1..(l - 1) : i + 1 # 1
        BY <1>1
      <3> QED
        BY <1>1, <1>2, <1>4, <3>1 DEF Once
    <2>2. WithoutStub(t) = t /\ t \in Seq(Node)
      BY <1>1, <2>1, WithoutNothing, NoStubIsSeq
    <2>3. WithoutStub(s) = Without(s, 1)
      BY <1>2, <1>4, WithoutIt DEF l
    <2>4. /\ Without(s, 1) \in Seq(Node) /\ Len(Without(s, 1)) = l - 1
          /\ \A i \in 1..(l - 1) : Without(s, 1)[i] = s[IF i < 1 THEN i ELSE i + 1]
      BY <1>2, <1>4, WithoutIsSeq DEF l
    <2>5. \A i \in 1..(l - 1) : Without(s, 1)[i] = t[i]
      <3>1. \A i \in 1..(l - 1) : ~(i < 1)
        BY <1>1
      <3> QED
        BY <1>1, <2>4, <3>1
    <2>6. Without(s, 1) = t
      BY <1>1, <2>2, <2>4, <2>5, SameSeq
    <2> QED
      BY <1>4, <2>2, <2>3, <2>6 DEF t
  <1>5. CASE s[1] # Stub /\ \A i \in 1..l : s[i] # Stub
    <2>1. \A i \in 1..(l - 1) : t[i] # Stub
      BY <1>1, <1>5
    <2>2. WithoutStub(t) = t /\ WithoutStub(s) = s
      BY <1>1, <1>5, <2>1, WithoutNothing DEF l
    <2>3. Head(s) = s[1]
      BY <1>1 DEF l
    <2> QED
      BY <1>5, <2>2, <2>3 DEF t
  <1>6. ASSUME s[1] # Stub, NEW k \in 1..l, s[k] = Stub
        PROVE  /\ WithoutStub(s) # <<>> /\ Head(WithoutStub(s)) = s[1]
               /\ Tail(WithoutStub(s)) = WithoutStub(t)
    <2> DEFINE w == Without(s, k)
               v == Without(t, k - 1)
    <2>1. k # 1 /\ k - 1 \in 1..(l - 1) /\ (k - 1) + 1 = k
      BY <1>1, <1>6
    <2>2. t[k - 1] = Stub
      BY <1>1, <1>6, <2>1
    <2>3. WithoutStub(s) = w /\ WithoutStub(t) = v
      BY <1>1, <1>3, <1>6, <2>1, <2>2, WithoutIt DEF l
    <2>4. /\ w \in Seq(Node) /\ Len(w) = l - 1
          /\ \A i \in 1..(l - 1) : w[i] = s[IF i < k THEN i ELSE i + 1]
      BY <1>6, WithoutIsSeq DEF l
    <2>5. /\ v \in Seq(Node) /\ Len(v) = (l - 1) - 1
          /\ \A i \in 1..((l - 1) - 1) : v[i] = t[IF i < k - 1 THEN i ELSE i + 1]
      <3>1. k - 1 \in 1..Len(t)
        BY <1>1, <2>1
      <3>2. /\ v \in Seq(Node) /\ Len(v) = Len(t) - 1
            /\ \A i \in 1..(Len(t) - 1) : v[i] = t[IF i < k - 1 THEN i ELSE i + 1]
        BY <1>1, <1>3, <2>2, <3>1, WithoutIsSeq
      <3> QED
        BY <1>1, <3>2
    <2> HIDE DEF w, v
    <2>6. l - 1 \in Nat \ {0} /\ 1 \in 1..(l - 1) /\ 1 < k
      BY <1>1, <2>1
    <2>7. w # <<>> /\ w[1] = s[1]
      BY <2>4, <2>6
    <2>8. Head(w) = s[1] /\ Tail(w) \in Seq(Node) /\ Len(Tail(w)) = (l - 1) - 1
          /\ \A i \in 1..((l - 1) - 1) : Tail(w)[i] = w[i + 1]
      BY <2>4, <2>6, <2>7
    <2>9. ASSUME NEW i \in 1..((l - 1) - 1) PROVE Tail(w)[i] = v[i]
      <3>1. i + 1 \in 1..(l - 1) /\ i \in 1..(l - 1) /\ (i < k - 1 <=> i + 1 < k)
        BY <1>1, <2>1
      <3>2. Tail(w)[i] = s[IF i + 1 < k THEN i + 1 ELSE (i + 1) + 1]
        BY <2>4, <2>8, <3>1
      <3>3. v[i] = t[IF i + 1 < k THEN i ELSE i + 1]
        BY <2>5, <3>1
      <3> QED
        BY <1>1, <3>1, <3>2, <3>3
    <2>10. Tail(w) = v
      BY <2>5, <2>8, <2>9, SameSeq
    <2> QED
      BY <2>3, <2>7, <2>8, <2>10
  <1> QED
    BY <1>4, <1>5, <1>6 DEF t

(***************************************************************************)
(* Items, the nodes of the list: what the steps of the queue do to it.     *)
(***************************************************************************)
LEMMA ItemsSound ==
  ASSUME QueueSound
  PROVE  /\ Items \in Seq(Node) /\ Len(Items) \in Nat
         /\ Items = <<>> => head = Stub /\ tail = Stub
  <1>1. /\ chain \in Seq(Cell) /\ Once(chain) /\ chain # <<>>
        /\ tail = chain[1] /\ head = chain[Len(chain)]
    BY DEF QueueSound, Shape, CellsTyped, Simple, Once, ListUnbroken
  <1>2. /\ Items \in Seq(Node) /\ Len(Items) \in Nat
        /\ Items = <<>> => Len(chain) = 1 /\ chain[1] = Stub
    BY <1>1, WithoutStubIsSeq DEF Items
  <1> QED
    BY <1>1, <1>2

\* A node in the list is one of the items.
LEMMA ChainShows ==
  ASSUME QueueSound, NEW n \in Node, InChain(n)
  PROVE  Items # <<>>
  <1>1. chain \in Seq(Cell) /\ Once(chain) /\ chain # <<>>
    BY DEF QueueSound, Shape, CellsTyped, Simple, Once, ListUnbroken
  <1>2. Items = <<>> => Len(chain) = 1 /\ chain[1] = Stub
    BY <1>1, WithoutStubIsSeq DEF Items
  <1>3. ASSUME Len(chain) = 1, chain[1] = Stub PROVE FALSE
    <2>1. \A i \in DOMAIN chain : i = 1
      BY <1>1, <1>3
    <2>2. n = Stub
      BY <1>3, <2>1 DEF InChain
    <2> QED
      BY <2>2, QueueAssumption
  <1> QED
    BY <1>2, <1>3

LEMMA SwapAppends ==
  ASSUME Shape, NEW p \in Pusher, Swap(p)
  PROVE  /\ Items' = IF push[p].node = Stub THEN Items ELSE Append(Items, push[p].node)
         /\ \A c : InChain(c)' <=> InChain(c) \/ c = push[p].node
         /\ push[p].node \in Cell /\ ~InChain(push[p].node)
  <1>1. Shape' /\ chain' = Append(chain, push[p].node)
    BY SwapKeeps DEF Swap
  <1>2. /\ chain \in Seq(Cell) /\ Once(chain) /\ Once(chain')
        /\ push[p].node \in Cell /\ ~InChain(push[p].node)
    BY <1>1 DEF Shape, CellsTyped, Simple, Once, Standing, Swap
  <1>3. Items' = IF push[p].node = Stub THEN Items ELSE Append(Items, push[p].node)
    BY <1>1, <1>2, WithoutAppended DEF Items
  <1>4. \A c : InChain(c)' <=> InChain(c) \/ c = push[p].node
    BY <1>1, <1>2 DEF InChain
  <1> QED
    BY <1>2, <1>3, <1>4

LEMMA AdvanceDrops ==
  ASSUME Shape, next[tail] # Null, Advance
  PROVE  IF tail = Stub THEN Items' = Items
         ELSE Items # <<>> /\ Head(Items) = tail /\ Items' = Tail(Items)
  <1>1. Shape' /\ chain' = Tail(chain)
    BY AdvanceKeeps DEF Advance
  <1>2. chain \in Seq(Cell) /\ Once(chain) /\ Once(chain') /\ chain # <<>> /\ tail = chain[1]
    BY <1>1 DEF Shape, CellsTyped, Simple, Once, ListUnbroken
  <1> QED
    BY <1>1, <1>2, WithoutTail DEF Items

(***************************************************************************)
(* A step of the consumer keeps the queue sound, and leaves what is in it  *)
(* as it is or hands out the oldest of it.                                 *)
(***************************************************************************)
Handed(r) ==
  \/ r \notin Node /\ Items' = Items /\ \A c \in Node : InChain(c)' <=> InChain(c)
  \/ /\ Items # <<>> /\ r \in Node /\ r = Head(Items) /\ Items' = Tail(Items)
     /\ InChain(r) /\ \A c \in Node : InChain(c)' <=> InChain(c) /\ c # r

Handing ==
  /\ QueueSound' /\ pop \notin {"idle", "done"} /\ pop' # "idle"
  /\ got = Null /\ Handed(got')

LEMMA LookingHands ==
  ASSUME UNCHANGED chain, got' \notin Node
  PROVE  Handed(got')
  BY DEF Handed, Items, InChain

LEMMA AdvancingHands ==
  ASSUME QueueSound, next[tail] # Null, Advance,
         \/ tail # Stub /\ got' = tail
         \/ tail = Stub /\ got' \notin Node
  PROVE  Handed(got')
  <1>1. Shape /\ tail = chain[1] /\ chain \in Seq(Cell) /\ chain # <<>>
    BY DEF QueueSound, Shape, ListUnbroken, CellsTyped
  <1>2. tail \in Cell /\ \A c : InChain(c)' <=> InChain(c) /\ c # tail
    BY <1>1, AdvanceKeeps
  <1>3. InChain(tail)
    BY <1>1 DEF InChain
  <1>4. CASE tail = Stub
    <2>1. got' \notin Node /\ Items' = Items
      BY <1>1, <1>2, <1>4, AdvanceDrops
    <2> QED
      BY <1>2, <1>4, <2>1, QueueAssumption DEF Handed
  <1>5. CASE tail # Stub
    <2>1. Items # <<>> /\ Head(Items) = tail /\ Items' = Tail(Items)
      BY <1>1, <1>5, AdvanceDrops
    <2>2. got' = tail /\ tail \in Node
      BY <1>2, <1>5 DEF Cell
    <2> QED
      BY <1>2, <1>3, <2>1, <2>2 DEF Handed
  <1> QED
    BY <1>4, <1>5

LEMMA PopKeeps ==
  ASSUME QueueSound, PopStep
  PROVE  Handing
  <1>1. Shape /\ PopControl
    BY DEF QueueSound
  <1>2. Null \notin Node /\ Empty \notin Node
    BY QueueAssumption
  <1>3. ASSUME Advance, next[tail] # Null, tail # Stub, Return(tail),
               pop \in {"load", "reload", "last"}
        PROVE  Handing
    <2>1. QueueSound'
      BY <1>3, Advancing
    <2>2. Handed(got')
      BY <1>3, AdvancingHands DEF Return
    <2> QED
      BY <1>1, <1>3, <2>1, <2>2 DEF Handing, Return, PopControl
  <1>4. ASSUME UNCHANGED cells, pop \in {"load", "reload", "head", "last"},
               \/ pop' = "head" /\ tail # Stub /\ pop \in {"load", "reload"} /\ UNCHANGED got
               \/ pop' = "stub" /\ tail # Stub /\ ~InChain(Stub) /\ pop = "head" /\ UNCHANGED got
               \/ Return(Null) \/ Return(Empty)
        PROVE  Handing
    <2>1. got = Null
      BY <1>1, <1>4 DEF PopControl
    <2>2. QueueSound'
      BY <1>4, Looking
    <2>3. got' \notin Node /\ pop' # "idle"
      BY <1>2, <1>4, <2>1 DEF Return
    <2>4. Handed(got')
      BY <1>4, <2>3, LookingHands DEF cells
    <2> QED
      BY <1>4, <2>1, <2>2, <2>3, <2>4 DEF Handing
  <1>5. CASE LoadNext
    <2>1. CASE tail = Stub /\ next[tail] = Null
      BY <1>4, <1>5, <2>1 DEF LoadNext, cells
    <2>2. CASE tail # Stub /\ next[tail] # Null
      BY <1>3, <1>5, <2>2 DEF LoadNext
    <2>3. CASE tail # Stub /\ next[tail] = Null
      BY <1>4, <1>5, <2>3 DEF LoadNext, cells
    <2>4. CASE tail = Stub /\ next[tail] # Null
      <3>1. Advance /\ pop = "load" /\ pop' = "reload" /\ UNCHANGED got
        BY <1>5, <2>4 DEF LoadNext
      <3>2. got = Null
        BY <1>1, <3>1 DEF PopControl
      <3>3. QueueSound'
        BY <2>4, <3>1, Advancing
      <3>4. Handed(got')
        BY <1>2, <2>4, <3>1, <3>2, AdvancingHands
      <3> QED
        BY <3>1, <3>2, <3>3, <3>4 DEF Handing
    <2> QED
      BY <2>1, <2>2, <2>3, <2>4
  <1>6. CASE ReloadNext
    <2>1. tail # Stub /\ pop = "reload"
      BY <1>1, <1>6 DEF ReloadNext, PopControl
    <2>2. CASE next[tail] # Null
      BY <1>3, <1>6, <2>1, <2>2 DEF ReloadNext
    <2>3. CASE next[tail] = Null
      BY <1>4, <1>6, <2>1, <2>3 DEF ReloadNext, cells
    <2> QED
      BY <2>2, <2>3
  <1>7. CASE LoadHead
    <2>1. tail # Stub /\ pop = "head"
      BY <1>1, <1>7 DEF LoadHead, PopControl
    <2>2. tail = head => ~InChain(Stub)
      <3>1. Len(chain) \in Nat \ {0} /\ DOMAIN chain = 1..Len(chain)
        BY <1>1, Facts
      <3>2. 1 \in DOMAIN chain /\ Len(chain) \in DOMAIN chain
        BY <3>1
      <3>3. tail = chain[1] /\ head = chain[Len(chain)]
        BY <1>1 DEF Shape, ListUnbroken
      <3>4. tail = head => Len(chain) = 1
        BY <1>1, <3>2, <3>3 DEF Shape, Simple
      <3>5. ASSUME tail = head, NEW i \in DOMAIN chain PROVE chain[i] # Stub
        <4>1. DOMAIN chain = 1..1
          BY <3>1, <3>4, <3>5, Zenon
        <4>2. i = 1
          BY <4>1
        <4> QED
          BY <2>1, <3>3, <4>2
      <3> QED
        BY <3>5 DEF InChain
    <2>3. CASE tail = head
      BY <1>4, <1>7, <2>1, <2>2, <2>3 DEF LoadHead, cells
    <2>4. CASE tail # head
      BY <1>4, <1>7, <2>1, <2>4 DEF LoadHead, cells
    <2> QED
      BY <2>3, <2>4
  <1>8. CASE LoadLast
    <2>1. tail # Stub /\ pop = "last"
      BY <1>1, <1>8 DEF LoadLast, PopControl
    <2>2. CASE next[tail] # Null
      BY <1>3, <1>8, <2>1, <2>2 DEF LoadLast
    <2>3. CASE next[tail] = Null
      BY <1>4, <1>8, <2>1, <2>3 DEF LoadLast, cells
    <2> QED
      BY <2>2, <2>3
  <1>9. CASE ClearStub \/ Swap(Popper) \/ LinkStub
    <2>1. QueueSound' /\ pop \in {"stub", "pushing"} /\ UNCHANGED got
      BY <1>9, StubSteps
    <2>2. got = Null /\ got' \notin Node
      BY <1>1, <1>2, <2>1 DEF PopControl
    <2>3. Handed(got')
      <3>1. CASE ClearStub \/ LinkStub
        <4>1. UNCHANGED chain
          BY <3>1 DEF ClearStub, LinkStub, Clear, Link
        <4> QED
          BY <2>2, <4>1, LookingHands
      <3>2. CASE Swap(Popper)
        <4>1. Popper \in Pusher /\ push[Popper].node = Stub
          BY <1>1, <2>1, <3>2 DEF Pusher, PopControl, Swap
        <4>2. Items' = Items /\ \A c : InChain(c)' <=> InChain(c) \/ c = Stub
          BY <1>1, <3>2, <4>1, SwapAppends
        <4> QED
          BY <2>2, <4>2, QueueAssumption DEF Handed
      <3> QED
        BY <1>9, <3>1, <3>2
    <2>4. pop' # "idle"
      BY <1>9, <2>1 DEF ClearStub, Swap, LinkStub
    <2> QED
      BY <2>1, <2>2, <2>3, <2>4 DEF Handing
  <1> QED
    BY <1>5, <1>6, <1>7, <1>8, <1>9 DEF PopStep

(***************************************************************************)
(* The consumer never moves the pushes of the threads.                     *)
(***************************************************************************)
LEMMA PopLeavesThreads ==
  ASSUME QueueSound, PopStep, NEW t \in Thread
  PROVE  push'[t] = push[t]
  <1>1. push \in [Pusher -> PushState] /\ t \in Pusher /\ t # Popper
    BY QueueAssumption DEF QueueSound, Shape, CellsTyped, Pusher
  <1>2. CASE ClearStub \/ Swap(Popper) \/ LinkStub
    BY <1>1, <1>2 DEF ClearStub, Clear, Swap, LinkStub, Link
  <1>3. CASE LoadNext \/ ReloadNext \/ LoadHead \/ LoadLast
    BY <1>3 DEF LoadNext, ReloadNext, LoadHead, LoadLast, Advance
  <1> QED
    BY <1>2, <1>3 DEF PopStep

LEMMA QueueBegins ==
  ASSUME QueueInit
  PROVE  QueueSound /\ Items = <<>> /\ \A c \in Node : ~InChain(c)
  <1>1. /\ head = Stub /\ tail = Stub /\ Stub \in Cell /\ Popper \in Pusher
        /\ next = [c \in Cell |-> Null] /\ push = [p \in Pusher |-> Idle]
        /\ pop = "idle" /\ got = Null
    BY DEF QueueInit, Cell, Pusher
  <1>2. chain = <<Stub>> /\ chain \in Seq(Cell) /\ Len(chain) = 1 /\ chain[1] = Stub
        /\ chain # <<>> /\ DOMAIN chain = 1..1
    BY <1>1 DEF QueueInit
  <1>3. next[Stub] = Null /\ \A p \in Pusher : push[p].at = "idle" /\ push[p].node = Null
    BY <1>1 DEF Idle
  <1>4. push \in [Pusher -> PushState] /\ next \in [Cell -> Cell \cup {Null}]
    BY <1>1 DEF Idle, PushState
  <1>5. CellsTyped
    BY <1>1, <1>2, <1>4 DEF CellsTyped
  <1>6. ListUnbroken /\ Simple
    BY <1>1, <1>2, <1>3 DEF ListUnbroken, Simple
  <1>7. Apart /\ \A p \in Pusher : Standing(p)
    BY <1>3 DEF Apart, Standing
  <1>8. PopControl
    BY <1>1, <1>3, QueueAssumption DEF PopControl, Pusher
  <1>9. \A c \in Node : ~InChain(c)
    BY <1>2, QueueAssumption DEF InChain
  <1>10. Items = <<>>
    <2>1. Once(chain) /\ 1 \in 1..Len(chain)
      BY <1>2 DEF Once
    <2>2. Items = Without(chain, 1)
      BY <1>2, <2>1, WithoutIt DEF Items
    <2>3. Without(chain, 1) \in Seq(Node) /\ Len(Without(chain, 1)) = Len(chain) - 1
      BY <1>2, <2>1, WithoutIsSeq
    <2>4. Len(Without(chain, 1)) = 0
      BY <1>2, <2>3
    <2> QED
      BY <2>2, <2>3, <2>4
  <1> QED
    BY <1>5, <1>6, <1>7, <1>8, <1>9, <1>10 DEF QueueSound, Shape

LEMMA SameListSameItems ==
  ASSUME UNCHANGED chain PROVE Items' = Items
  BY DEF Items

LEMMA SoundStutter ==
  ASSUME QueueSound, UNCHANGED queueVars PROVE QueueSound'
  <1>1. UNCHANGED cells /\ UNCHANGED <<pop, got>>
    BY DEF queueVars, cells
  <1> QED
    BY <1>1, ShapeKept DEF QueueSound, PopControl, cells, InChain
=============================================================================
