--------------------------- MODULE CombinerProofs ---------------------------
(***************************************************************************)
(* The combiner for any number of closures, threads and executor threads.  *)
(* OneOwner is not inductive without the count, and the count is not       *)
(* without knowing where every closure is.  CombinerInv joins to the       *)
(* queue's own invariant: how far each call of combiner_exec is (Calling), *)
(* who holds the combiner and what that says of the rest (Holding), that   *)
(* every scheduled closure is in one place (Placed), and the count.        *)
(***************************************************************************)
EXTENDS Combiner, MpscqProofs, FiniteSetTheorems

CombTyped ==
  /\ elems \in Nat /\ orphaned \in BOOLEAN /\ destroyed \in BOOLEAN
  /\ initiator \in Thread \cup {None}
  /\ finals \in Seq(Node) /\ finalTime \in BOOLEAN /\ batch \in Seq(Node)
  /\ active \subseteq Thread /\ offloads \in Nat
  /\ stage \in [Thread -> {"out", "peek", "popping", "running", "unref"}]
  /\ exec \in [Thread -> {"none", "initiate", "check", "contend", "push", "pushing"}]
  /\ sched \in [Thread -> Node \cup {Null}]
  /\ scheduled \subseteq Node

(***************************************************************************)
(* A call of combiner_exec, from its count to its push.  Waits(t): its     *)
(* closure is counted and not yet exchanged into the list.                 *)
(***************************************************************************)
Calling(t) ==
  /\ exec[t] = "none" => sched[t] = Null
  /\ exec[t] # "none" => sched[t] \in Node
  /\ exec[t] # "pushing" => push[t].at = "idle"
  /\ exec[t] = "pushing" => push[t].at # "idle" /\ push[t].node = sched[t]
  /\ stage[t] \in {"peek", "popping", "unref"} => exec[t] = "none"

Waits(t) == exec[t] # "none" /\ push[t].at # "link"
Waiting == {t \in Thread : exec[t] # "none" /\ push[t].at # "link"}

(***************************************************************************)
(* Who holds the combiner, and what the stage of its owner says of the     *)
(* consumer's side of the queue, of the batch and of the final list.       *)
(***************************************************************************)
Holding ==
  /\ \A t, u \in Owners : t = u
  /\ offloads \in {0, 1} /\ (Owners # {} => offloads = 0)
  /\ elems > 0 <=> Owners # {} \/ offloads = 1
  /\ \A t \in Thread : stage[t] # "out" => t \in active

Staged ==
  /\ pop = "idle" <=> \A t \in Thread : stage[t] # "popping"
  /\ batch = <<>> <=> \A t \in Thread : stage[t] # "running"
  /\ finalTime /\ finals = <<>> => \E t \in Thread : stage[t] \in {"running", "unref"}

Ending ==
  /\ orphaned => \A t \in Thread : exec[t] = "none"
  /\ destroyed => orphaned /\ elems = 0

(***************************************************************************)
(* A closure is scheduled while it is in a call, in the list, in the hands *)
(* of the consumer, kept for later, or due after the one that runs, and it *)
(* is never in two of these, nor twice in one.                             *)
(***************************************************************************)
Called(c) == \E t \in Thread : Waits(t) /\ sched[t] = c
After(s, c) == \E i \in 2..Len(s) : s[i] = c
Due(c) == After(batch, c)

Place(c) ==
  /\ c \in scheduled <=> InChain(c) \/ Called(c) \/ got = c \/ Kept(c) \/ Due(c)
  /\ InChain(c) => ~Called(c) /\ got # c /\ ~Kept(c) /\ ~Due(c)
  /\ Called(c) => got # c /\ ~Kept(c) /\ ~Due(c)
  /\ got = c => ~Kept(c) /\ ~Due(c)
  /\ Kept(c) => ~Due(c)

CalledOnce == \A t, u \in Thread : Waits(t) /\ Waits(u) /\ sched[t] = sched[u] => t = u
AfterOnce(s) == \A i, j \in 2..Len(s) : s[i] = s[j] => i = j
DueOnce == AfterOnce(batch)

Placed == (\A c \in Node : Place(c)) /\ CalledOnce /\ Once(finals) /\ DueOnce

Busy == got \in Node \/ \E t \in Thread : stage[t] \in {"running", "unref"}

Counted ==
  /\ IsFiniteSet(Waiting)
  /\ elems = Len(Items) + Cardinality(Waiting) + (IF Busy THEN 1 ELSE 0)
             + (IF finals # <<>> THEN 1 ELSE 0)

CombinerInv ==
  /\ QueueSound /\ CombTyped
  /\ \A t \in Thread : Calling(t)
  /\ Holding /\ Staged /\ Ending /\ Placed /\ Counted

(***************************************************************************)
(* Frames: what each part of the invariant depends on.                     *)
(***************************************************************************)
LEMMA QueueFrame ==
  ASSUME QueueSound, UNCHANGED queueVars
  PROVE  /\ QueueSound' /\ Items' = Items /\ UNCHANGED <<pop, got, push, chain>>
         /\ \A c : InChain(c)' <=> InChain(c)
  <1>1. QueueSound'
    BY SoundStutter
  <1>2. UNCHANGED <<pop, got, push, chain>>
    BY DEF queueVars
  <1> QED
    BY <1>1, <1>2 DEF Items, InChain

LEMMA PlacedFrame ==
  ASSUME Placed, UNCHANGED <<got, finals, batch, scheduled>>,
         \A c \in Node : InChain(c)' <=> InChain(c),
         \A t \in Thread : (Waits(t)' <=> Waits(t)) /\ (Waits(t) => sched'[t] = sched[t])
  PROVE  Placed'
  <1>1. \A c \in Node : Called(c)' <=> Called(c)
    BY DEF Called
  <1>2. \A c \in Node : (Kept(c)' <=> Kept(c)) /\ (Due(c)' <=> Due(c))
    BY DEF Kept, Due
  <1>3. \A c \in Node : Place(c)'
    BY <1>1, <1>2 DEF Placed, Place
  <1>4. CalledOnce'
    BY DEF Placed, CalledOnce
  <1>5. Once(finals)' /\ DueOnce'
    BY DEF Placed, Once, DueOnce
  <1> QED
    BY <1>3, <1>4, <1>5 DEF Placed

LEMMA CountedFrame ==
  ASSUME Counted, UNCHANGED <<elems, finals>>, Items' = Items, Busy' <=> Busy,
         \A t \in Thread : Waits(t)' <=> Waits(t)
  PROVE  Counted'
  <1>1. Waiting' = Waiting
    BY DEF Waiting, Waits
  <1>2. elems' = elems /\ finals' = finals
    OBVIOUS
  <1>3. IsFiniteSet(Waiting)' /\ Cardinality(Waiting)' = Cardinality(Waiting)
    BY <1>1 DEF Counted
  <1> QED
    BY <1>2, <1>3 DEF Counted

LEMMA NumbersOf ==
  ASSUME CombinerInv
  PROVE  /\ elems \in Nat /\ Items \in Seq(Node) /\ Len(Items) \in Nat
         /\ IsFiniteSet(Waiting) /\ Cardinality(Waiting) \in Nat
  BY ItemsSound, FS_CardinalityType DEF CombinerInv, CombTyped, Counted

(***************************************************************************)
(* The owner is alone: no other thread is past combiner_exec, nothing is   *)
(* in the executor, and the combiner is counted.                           *)
(***************************************************************************)
LEMMA Alone ==
  ASSUME CombinerInv, NEW t \in Thread, t \in Owners
  PROVE  /\ \A u \in Thread : u # t => u \notin active /\ exec[u] # "initiate" /\ stage[u] = "out"
         /\ offloads = 0 /\ elems > 0
  BY DEF CombinerInv, Holding, Owners

LEMMA ActiveOwns ==
  ASSUME CombinerInv, NEW t \in Thread, t \in active \/ stage[t] # "out"
  PROVE  /\ t \in active /\ t \in Owners
         /\ exec[t] # "initiate" \/ stage[t] = "out" \/ stage[t] = "running"
  BY DEF CombinerInv, Holding, Owners, Calling, CombTyped

(***************************************************************************)
(* combiner_exec counts the closure: the one that finds nothing counted    *)
(* becomes the owner.                                                      *)
(***************************************************************************)
LEMMA ExecKeeps ==
  ASSUME CombinerInv, NEW t \in Thread, NEW c \in Node, Exec(t, c)
  PROVE  CombinerInv'
  <1> DEFINE s == IF elems = 0 THEN "initiate" ELSE "check"
  <1>1. /\ exec[t] = "none" /\ stage[t] \in {"out", "running"} /\ ~orphaned /\ c \notin scheduled
        /\ scheduled' = scheduled \cup {c} /\ elems' = elems + 1
        /\ exec' = [exec EXCEPT ![t] = s] /\ sched' = [sched EXCEPT ![t] = c]
        /\ UNCHANGED <<orphaned, initiator, finals, finalTime, active, offloads, stage, batch, destroyed>>
        /\ UNCHANGED queueVars
    BY DEF Exec, Step
  <1>2. /\ QueueSound' /\ Items' = Items /\ UNCHANGED <<pop, got, push, chain>>
        /\ \A d : InChain(d)' <=> InChain(d)
    BY <1>1, QueueFrame DEF CombinerInv
  <1>3. CombTyped /\ (\A u \in Thread : Calling(u)) /\ Holding /\ Placed /\ Counted
    BY DEF CombinerInv
  <1>4. /\ exec'[t] = s /\ sched'[t] = c
        /\ \A u \in Thread : u # t => exec'[u] = exec[u] /\ sched'[u] = sched[u]
    BY <1>1, <1>3 DEF CombTyped
  <1>s. s \in {"initiate", "check"} /\ (s = "initiate" <=> elems = 0)
    OBVIOUS
  <1> HIDE DEF s
  <1>5. CombTyped'
    <2>1. exec' \in [Thread -> {"none", "initiate", "check", "contend", "push", "pushing"}]
      BY <1>1, <1>3, <1>s DEF CombTyped
    <2>2. sched' \in [Thread -> Node \cup {Null}] /\ elems' \in Nat /\ scheduled' \subseteq Node
      BY <1>1, <1>3 DEF CombTyped
    <2> QED
      BY <1>1, <1>3, <2>1, <2>2 DEF CombTyped
  <1>6. \A u \in Thread : Calling(u)'
    BY <1>1, <1>2, <1>3, <1>4, <1>s DEF Calling
  <1>7. Holding'
    <2>1. CASE elems = 0
      <3>1. Owners = {} /\ offloads = 0
        BY <1>3, <2>1 DEF Holding
      <3>2. Owners' = {t}
        BY <1>1, <1>4, <1>s, <2>1, <3>1 DEF Owners
      <3> QED
        BY <1>1, <1>3, <2>1, <3>1, <3>2 DEF Holding
    <2>2. CASE elems # 0
      <3>1. Owners' = Owners
        BY <1>1, <1>4, <1>s, <2>2 DEF Owners
      <3>2. elems > 0 /\ elems' > 0
        BY <1>1, <1>3, <2>2 DEF CombTyped
      <3> QED
        BY <1>1, <1>3, <3>1, <3>2 DEF Holding
    <2> QED
      BY <2>1, <2>2
  <1>8. Staged'
    BY <1>1, <1>2 DEF CombinerInv, Staged
  <1>9. Ending'
    BY <1>1 DEF CombinerInv, Ending
  <1>10. /\ ~Waits(t) /\ Waits(t)' /\ \A u \in Thread : u # t => (Waits(u)' <=> Waits(u))
    BY <1>1, <1>2, <1>3, <1>4, <1>s DEF Waits, Calling
  <1>11. Placed'
    <2>1. \A d \in Node : Called(d)' <=> Called(d) \/ d = c
      BY <1>4, <1>10 DEF Called
    <2>2. \A d \in Node : (Kept(d)' <=> Kept(d)) /\ (Due(d)' <=> Due(d))
      BY <1>1 DEF Kept, Due
    <2>3. ~InChain(c) /\ ~Called(c) /\ got # c /\ ~Kept(c) /\ ~Due(c)
      BY <1>1, <1>3 DEF Placed, Place
    <2>4. \A d \in Node : Place(d)'
      BY <1>1, <1>2, <1>3, <2>1, <2>2, <2>3 DEF Placed, Place
    <2>5. CalledOnce'
      BY <1>3, <1>4, <1>10, <2>3 DEF Placed, CalledOnce, Called
    <2>6. Once(finals)' /\ DueOnce'
      BY <1>1, <1>3 DEF Placed, Once, DueOnce
    <2> QED
      BY <2>4, <2>5, <2>6 DEF Placed
  <1>12. Counted'
    <2>1. Waiting' = Waiting \cup {t} /\ t \notin Waiting
      BY <1>10 DEF Waiting, Waits
    <2>2. IsFiniteSet(Waiting)' /\ Cardinality(Waiting)' = Cardinality(Waiting) + 1
      BY <1>3, <2>1, FS_AddElement DEF Counted
    <2>3. (Busy' <=> Busy) /\ finals' = finals
      BY <1>1, <1>2 DEF Busy
    <2> QED
      BY <1>1, <1>2, <1>3, <2>2, <2>3, NumbersOf DEF Counted
  <1> QED
    BY <1>2, <1>5, <1>6, <1>7, <1>8, <1>9, <1>11, <1>12 DEF CombinerInv

(***************************************************************************)
(* From the count to the push: the combiner is taken over, or marked       *)
(* contended.                                                              *)
(***************************************************************************)
LEMMA CallGoesOn ==
  ASSUME CombinerInv, NEW t \in Thread, Initiate(t) \/ Check(t) \/ Contend(t)
  PROVE  CombinerInv'
  <1>1. /\ exec[t] \in {"initiate", "check", "contend"} /\ initiator' \in {initiator, t, None}
        /\ UNCHANGED <<elems, orphaned, finals, finalTime, offloads, stage, sched, batch,
                       scheduled, destroyed>>
        /\ UNCHANGED queueVars
    BY DEF Initiate, Check, Contend
  <1>2. PICK s \in {"contend", "push"} : exec' = [exec EXCEPT ![t] = s]
    BY DEF Initiate, Check, Contend, Step
  <1>3. CombTyped /\ (\A u \in Thread : Calling(u)) /\ Holding /\ Placed /\ Counted
    BY DEF CombinerInv
  <1>4. exec'[t] = s /\ \A u \in Thread : u # t => exec'[u] = exec[u]
    BY <1>2, <1>3 DEF CombTyped
  <1>5. active \subseteq active' /\ active' \subseteq Thread /\ Owners' = Owners
    <2>1. CASE Initiate(t)
      <3>1. exec[t] = "initiate" /\ active' = active \cup {t}
        BY <2>1 DEF Initiate
      <3> QED
        BY <1>3, <1>4, <3>1 DEF Owners, CombTyped
    <2>2. CASE Check(t) \/ Contend(t)
      <3>1. exec[t] # "initiate" /\ active' = active
        BY <2>2 DEF Check, Contend
      <3> QED
        BY <1>3, <1>4, <3>1 DEF Owners, CombTyped
    <2> QED
      BY <2>1, <2>2
  <1>6. /\ QueueSound' /\ Items' = Items /\ UNCHANGED <<pop, got, push, chain>>
        /\ \A d : InChain(d)' <=> InChain(d)
    BY <1>1, QueueFrame DEF CombinerInv
  <1>7. CombTyped'
    <2>1. exec' \in [Thread -> {"none", "initiate", "check", "contend", "push", "pushing"}]
      BY <1>2, <1>3 DEF CombTyped
    <2>2. initiator' \in Thread \cup {None}
      BY <1>1, <1>3 DEF CombTyped
    <2> QED
      BY <1>1, <1>3, <1>5, <2>1, <2>2 DEF CombTyped
  <1>8. \A u \in Thread : Calling(u)'
    BY <1>1, <1>3, <1>4, <1>6 DEF Calling
  <1>9. Holding'
    BY <1>1, <1>3, <1>5 DEF Holding
  <1>10. Staged'
    BY <1>1, <1>6 DEF CombinerInv, Staged
  <1>11. Ending'
    BY <1>1, <1>4 DEF CombinerInv, Ending
  <1>12. \A u \in Thread : Waits(u)' <=> Waits(u)
    BY <1>1, <1>4, <1>6 DEF Waits
  <1>13. Placed'
    BY <1>1, <1>3, <1>6, <1>12, PlacedFrame
  <1>14. Counted'
    <2>1. Busy' <=> Busy
      BY <1>1, <1>6 DEF Busy
    <2> QED
      BY <1>1, <1>3, <1>6, <1>12, <2>1, CountedFrame
  <1> QED
    BY <1>6, <1>7, <1>8, <1>9, <1>10, <1>11, <1>13, <1>14 DEF CombinerInv

(***************************************************************************)
(* The closure of a call that has not begun its push is nowhere in the     *)
(* queue, which is what gpr_mpscq_push needs of it.                        *)
(***************************************************************************)
LEMMA CalledIsFree ==
  ASSUME CombinerInv, NEW t \in Thread, exec[t] = "push"
  PROVE  sched[t] \in Node /\ Free(sched[t])
  <1>1. /\ QueueSound /\ Shape /\ PopControl /\ CombTyped /\ Placed
        /\ \A u \in Thread : Calling(u)
    BY DEF CombinerInv, QueueSound
  <1>2. sched[t] \in Node /\ Waits(t) /\ push[t].at = "idle"
    BY <1>1 DEF Calling, Waits
  <1>3. Called(sched[t]) /\ ~InChain(sched[t])
    BY <1>1, <1>2 DEF Called, Placed, Place
  <1>4. ASSUME NEW p \in Pusher, push[p].node = sched[t] PROVE FALSE
    <2>1. sched[t] # Null /\ sched[t] # Stub
      BY <1>2, QueueAssumption
    <2>2. push[p].at \in {"idle", "swap", "link"} /\ Standing(p)
      BY <1>1, Facts DEF Shape
    <2>3. push[p].at # "idle"
      BY <1>4, <2>1, <2>2 DEF Standing
    <2>4. p # Popper
      BY <1>1, <1>4, <2>1, <2>3 DEF PopControl
    <2>5. p \in Thread /\ exec[p] = "pushing" /\ sched[p] = sched[t]
      BY <1>1, <1>4, <2>3, <2>4 DEF Pusher, Calling
    <2>6. CASE push[p].at = "swap"
      <3>1. Waits(p)
        BY <2>5, <2>6 DEF Waits
      <3> QED
        BY <1>1, <1>2, <2>5, <3>1 DEF Placed, CalledOnce
    <2>7. CASE push[p].at = "link"
      <3>1. PICK i \in 1..(Len(chain) - 1) : Linking(p, i)
        BY <2>2, <2>7 DEF Standing
      <3>2. i + 1 \in DOMAIN chain /\ chain[i + 1] = sched[t]
        BY <1>1, <1>4, <3>1, Facts DEF Linking
      <3> QED
        BY <1>3, <3>2 DEF InChain
    <2> QED
      BY <2>2, <2>3, <2>6, <2>7
  <1> QED
    BY <1>2, <1>3, <1>4 DEF Free

(***************************************************************************)
(* The push: its closure moves from the call into the list at the exchange *)
(* of the head.                                                            *)
(***************************************************************************)
LEMMA PushClears ==
  ASSUME CombinerInv, NEW t \in Thread, exec[t] = "push",
         Clear(t, sched[t]), UNCHANGED pop, Step(t, "pushing"), UNCHANGED sched,
         UNCHANGED <<elems, orphaned, initiator, finals, finalTime, active, offloads, stage,
                     batch, scheduled, destroyed>>
  PROVE  CombinerInv'
  <1>1. /\ QueueSound /\ CombTyped /\ (\A u \in Thread : Calling(u))
        /\ Holding /\ Placed /\ Counted /\ push \in [Pusher -> PushState] /\ t \in Pusher
    BY DEF CombinerInv, QueueSound, Shape, CellsTyped, Pusher
  <1>2. QueueSound'
    BY <1>1, CalledIsFree, ThreadClear
  <1>3. UNCHANGED <<pop, got, chain>> /\ Items' = Items /\ \A c : InChain(c)' <=> InChain(c)
    BY DEF Clear, Items, InChain
  <1>4. /\ push'[t] = [at |-> "swap", node |-> sched[t], prev |-> Null]
        /\ \A u \in Thread : u # t => push'[u] = push[u]
    BY <1>1 DEF Clear, Pusher
  <1>5. exec'[t] = "pushing" /\ \A u \in Thread : u # t => exec'[u] = exec[u]
    BY <1>1 DEF CombTyped, Step
  <1>6. CombTyped'
    <2>1. exec' \in [Thread -> {"none", "initiate", "check", "contend", "push", "pushing"}]
      BY <1>1 DEF CombTyped, Step
    <2> QED
      BY <1>1, <2>1 DEF CombTyped
  <1>7. \A u \in Thread : Calling(u)'
    BY <1>1, <1>4, <1>5 DEF Calling
  <1>8. Holding'
    <2>1. Owners' = Owners
      BY <1>5 DEF Owners
    <2> QED
      BY <1>1, <2>1 DEF Holding
  <1>9. Staged'
    BY <1>3 DEF CombinerInv, Staged
  <1>10. Ending'
    BY <1>5 DEF CombinerInv, Ending
  <1>11. \A u \in Thread : Waits(u)' <=> Waits(u)
    BY <1>1, <1>4, <1>5 DEF Waits, Calling
  <1>12. Placed'
    BY <1>1, <1>3, <1>11, PlacedFrame
  <1>13. Counted'
    <2>1. Busy' <=> Busy
      BY <1>3 DEF Busy
    <2> QED
      BY <1>1, <1>3, <1>11, <2>1, CountedFrame
  <1> QED
    BY <1>2, <1>6, <1>7, <1>8, <1>9, <1>10, <1>12, <1>13 DEF CombinerInv

LEMMA PushSwaps ==
  ASSUME CombinerInv, NEW t \in Thread, Swap(t), UNCHANGED combVars
  PROVE  CombinerInv' /\ push[t].node \in Node /\ Items' = Append(Items, push[t].node)
  <1>1. /\ QueueSound /\ Shape /\ PopControl /\ CombTyped /\ (\A u \in Thread : Calling(u))
        /\ Holding /\ Placed /\ Counted /\ push \in [Pusher -> PushState] /\ t \in Pusher
    BY DEF CombinerInv, QueueSound, Shape, CellsTyped, Pusher
  <1>2. UNCHANGED <<elems, orphaned, initiator, finals, finalTime, active, offloads, stage,
                    exec, sched, batch, scheduled, destroyed>>
    BY DEF combVars
  <1>3. QueueSound' /\ UNCHANGED <<pop, got>> /\ push[t].at = "swap"
    BY <1>1, ThreadSwap DEF Swap
  <1> DEFINE n == push[t].node
  <1>4. exec[t] = "pushing" /\ n = sched[t]
    BY <1>1, <1>3 DEF Calling
  <1>5. /\ Items' = Append(Items, n) /\ n \in Node /\ ~InChain(n)
        /\ \A c : InChain(c)' <=> InChain(c) \/ c = n
    <2>1. n # Stub
      BY <1>1 DEF PopControl
    <2> QED
      BY <1>1, <2>1, SwapAppends DEF Cell
  <1>6. /\ push'[t].at = "link" /\ push'[t].node = n
        /\ \A u \in Thread : u # t => push'[u] = push[u]
    BY <1>1 DEF Swap, Pusher, PushState
  <1> HIDE DEF n
  <1>7. CombTyped'
    BY <1>1, <1>2 DEF CombTyped
  <1>8. \A u \in Thread : Calling(u)'
    BY <1>1, <1>2, <1>4, <1>6 DEF Calling
  <1>9. Holding'
    BY <1>1, <1>2 DEF Holding, Owners
  <1>10. Staged' /\ Ending'
    BY <1>2, <1>3 DEF CombinerInv, Staged, Ending
  <1>11. Waits(t) /\ ~Waits(t)' /\ \A u \in Thread : u # t => (Waits(u)' <=> Waits(u))
    BY <1>2, <1>3, <1>4, <1>6 DEF Waits
  <1>12. Placed'
    <2>1. Called(n) /\ \A c \in Node : Called(c)' <=> Called(c) /\ c # n
      BY <1>1, <1>2, <1>4, <1>11 DEF Called, Placed, CalledOnce
    <2>2. \A c \in Node : (Kept(c)' <=> Kept(c)) /\ (Due(c)' <=> Due(c))
      BY <1>2 DEF Kept, Due
    <2>3. \A c \in Node : Place(c)'
      BY <1>1, <1>2, <1>3, <1>5, <2>1, <2>2 DEF Placed, Place
    <2>4. CalledOnce'
      BY <1>1, <1>2, <1>11 DEF Placed, CalledOnce
    <2>5. Once(finals)' /\ DueOnce'
      BY <1>1, <1>2 DEF Placed, Once, DueOnce
    <2> QED
      BY <2>3, <2>4, <2>5 DEF Placed
  <1>13. Counted'
    <2>1. Waiting' = Waiting \ {t} /\ t \in Waiting
      BY <1>11 DEF Waiting, Waits
    <2>2. IsFiniteSet(Waiting)' /\ Cardinality(Waiting)' = Cardinality(Waiting) - 1
      BY <1>1, <2>1, FS_RemoveElement DEF Counted
    <2>3. Len(Items') = Len(Items) + 1
      BY <1>5, NumbersOf
    <2>4. (Busy' <=> Busy) /\ finals' = finals /\ elems' = elems
      BY <1>2, <1>3 DEF Busy
    <2> QED
      BY <1>1, <2>2, <2>3, <2>4, NumbersOf DEF Counted
  <1> QED
    BY <1>3, <1>5, <1>7, <1>8, <1>9, <1>10, <1>12, <1>13 DEF CombinerInv, n

LEMMA PushLinks ==
  ASSUME CombinerInv, NEW t \in Thread, Link(t), UNCHANGED pop, Step(t, "none"),
         sched' = [sched EXCEPT ![t] = Null],
         UNCHANGED <<elems, orphaned, initiator, finals, finalTime, active, offloads, stage,
                     batch, scheduled, destroyed>>
  PROVE  CombinerInv'
  <1>1. /\ QueueSound /\ Shape /\ CombTyped /\ (\A u \in Thread : Calling(u))
        /\ Holding /\ Placed /\ Counted /\ push \in [Pusher -> PushState] /\ t \in Pusher
    BY DEF CombinerInv, QueueSound, Shape, CellsTyped, Pusher
  <1>2. QueueSound' /\ push[t].at = "link"
    BY <1>1, ThreadLink DEF Link
  <1>3. UNCHANGED <<pop, got, chain>> /\ Items' = Items /\ \A c : InChain(c)' <=> InChain(c)
    BY DEF Link, Items, InChain
  <1>4. push'[t] = Idle /\ \A u \in Thread : u # t => push'[u] = push[u]
    BY <1>1 DEF Link, Pusher
  <1>5. /\ exec'[t] = "none" /\ sched'[t] = Null
        /\ \A u \in Thread : u # t => exec'[u] = exec[u] /\ sched'[u] = sched[u]
    BY <1>1 DEF CombTyped, Step
  <1>6. exec[t] = "pushing"
    BY <1>1, <1>2 DEF Calling
  <1>7. CombTyped'
    <2>1. exec' \in [Thread -> {"none", "initiate", "check", "contend", "push", "pushing"}]
      BY <1>1 DEF CombTyped, Step
    <2>2. sched' \in [Thread -> Node \cup {Null}]
      BY <1>1 DEF CombTyped
    <2> QED
      BY <1>1, <2>1, <2>2 DEF CombTyped
  <1>8. \A u \in Thread : Calling(u)'
    BY <1>1, <1>4, <1>5 DEF Calling, Idle
  <1>9. Holding'
    <2>1. Owners' = Owners
      BY <1>5, <1>6 DEF Owners
    <2> QED
      BY <1>1, <2>1 DEF Holding
  <1>10. Staged'
    BY <1>3 DEF CombinerInv, Staged
  <1>11. Ending'
    BY <1>5 DEF CombinerInv, Ending
  <1>12. ~Waits(t) /\ \A u \in Thread : Waits(u)' <=> Waits(u)
    BY <1>2, <1>4, <1>5 DEF Waits
  <1>13. Placed'
    BY <1>1, <1>3, <1>5, <1>12, PlacedFrame
  <1>14. Counted'
    <2>1. Busy' <=> Busy
      BY <1>3 DEF Busy
    <2> QED
      BY <1>1, <1>3, <1>12, <2>1, CountedFrame
  <1> QED
    BY <1>2, <1>7, <1>8, <1>9, <1>10, <1>11, <1>13, <1>14 DEF CombinerInv

LEMMA PushKeeps ==
  ASSUME CombinerInv, NEW t \in Thread, Push(t)
  PROVE  CombinerInv'
  <1>1. CASE exec[t] = "push" /\ Clear(t, sched[t]) /\ UNCHANGED pop /\ Step(t, "pushing")
             /\ UNCHANGED sched
    BY <1>1, PushClears DEF Push
  <1>2. CASE Swap(t) /\ UNCHANGED <<exec, sched>>
    BY <1>2, PushSwaps DEF Push, combVars
  <1>3. CASE Link(t) /\ UNCHANGED pop /\ Step(t, "none") /\ sched' = [sched EXCEPT ![t] = Null]
    BY <1>3, PushLinks DEF Push
  <1> QED
    BY <1>1, <1>2, <1>3 DEF Push

(***************************************************************************)
(* Sequences of closures: what is after the first one, and what Append and *)
(* Tail do to it.                                                          *)
(***************************************************************************)
In(s, c) == \E i \in DOMAIN s : s[i] = c

LEMMA AppendIn ==
  ASSUME NEW s \in Seq(Node), NEW c \in Node, Once(s), ~In(s, c)
  PROVE  /\ Append(s, c) \in Seq(Node) /\ Append(s, c) # <<>> /\ Once(Append(s, c))
         /\ \A d : In(Append(s, c), d) <=> In(s, d) \/ d = c
  <1> DEFINE l == Len(s)
             a == Append(s, c)
  <1>1. /\ l \in Nat /\ a \in Seq(Node) /\ Len(a) = l + 1 /\ a[l + 1] = c
        /\ \A i \in 1..l : a[i] = s[i]
    OBVIOUS
  <1>2. DOMAIN s = 1..l /\ DOMAIN a = 1..(l + 1)
    BY <1>1
  <1> HIDE DEF l, a
  <1>3. a # <<>>
    BY <1>1
  <1>4. Once(a)
    <2>1. ASSUME NEW i \in 1..(l + 1), NEW j \in 1..(l + 1), a[i] = a[j] PROVE i = j
      <3>1. (i \in 1..l \/ i = l + 1) /\ (j \in 1..l \/ j = l + 1)
        BY <1>1
      <3>2. \A k \in 1..l : a[k] # c
        BY <1>1, <1>2 DEF In
      <3> QED
        BY <1>1, <1>2, <2>1, <3>1, <3>2 DEF Once
    <2> QED
      BY <1>2, <2>1 DEF Once
  <1>5. ASSUME NEW d PROVE In(a, d) <=> In(s, d) \/ d = c
    <2>1. \A i \in 1..(l + 1) : i \in 1..l \/ i = l + 1
      BY <1>1
    <2>2. l + 1 \in 1..(l + 1) /\ \A i \in 1..l : i \in 1..(l + 1)
      BY <1>1
    <2> QED
      BY <1>1, <1>2, <2>1, <2>2 DEF In
  <1> QED
    BY <1>1, <1>3, <1>4, <1>5 DEF a

LEMMA ShortAfter ==
  ASSUME NEW s \in Seq(Node), Len(s) \in {0, 1}
  PROVE  AfterOnce(s) /\ \A c : ~After(s, c)
  <1>1. 2..Len(s) = {}
    OBVIOUS
  <1> QED
    BY <1>1 DEF After, AfterOnce

LEMMA AllAfter ==
  ASSUME NEW s \in Seq(Node), s # <<>>, Once(s)
  PROVE  /\ AfterOnce(s) /\ s[1] \in Node /\ In(s, s[1])
         /\ \A c : After(s, c) <=> In(s, c) /\ c # s[1]
  <1> DEFINE l == Len(s)
  <1>1. l \in Nat \ {0} /\ DOMAIN s = 1..l /\ 1 \in 1..l
    OBVIOUS
  <1>2. s[1] \in Node
    BY <1>1, ElementOfSeq
  <1> HIDE DEF l
  <1>3. \A i : i \in 2..l <=> i \in 1..l /\ i # 1
    BY <1>1
  <1>4. AfterOnce(s) /\ In(s, s[1])
    BY <1>1, <1>3 DEF AfterOnce, Once, In, l
  <1>5. \A c : After(s, c) <=> In(s, c) /\ c # s[1]
    BY <1>1, <1>3 DEF After, Once, In, l
  <1> QED
    BY <1>2, <1>4, <1>5

LEMMA TailAfter ==
  ASSUME NEW s \in Seq(Node), Len(s) > 1, AfterOnce(s)
  PROVE  /\ Tail(s) \in Seq(Node) /\ Tail(s) # <<>> /\ AfterOnce(Tail(s))
         /\ s[2] \in Node /\ After(s, s[2])
         /\ \A c : After(Tail(s), c) <=> After(s, c) /\ c # s[2]
  <1> DEFINE l == Len(s)
             t == Tail(s)
  <1>1. /\ l \in Nat /\ l > 1 /\ 2 \in 2..l /\ t \in Seq(Node) /\ t # <<>> /\ Len(t) = l - 1
        /\ \A i \in 1..(l - 1) : t[i] = s[i + 1]
    OBVIOUS
  <1>2. s[2] \in Node
    BY <1>1, ElementOfSeq
  <1> HIDE DEF l, t
  <1>3. \A i \in 2..(l - 1) : i \in 1..(l - 1) /\ i + 1 \in 2..l /\ i + 1 # 2
    BY <1>1
  <1>4. \A j \in 2..l : j # 2 => j - 1 \in 2..(l - 1) /\ (j - 1) + 1 = j
    BY <1>1
  <1>5. \A i \in 2..(l - 1) : t[i] = s[i + 1]
    BY <1>1, <1>3
  <1>6. AfterOnce(t)
    <2>1. ASSUME NEW i \in 2..(l - 1), NEW j \in 2..(l - 1), t[i] = t[j] PROVE i = j
      <3>1. s[i + 1] = s[j + 1] /\ i + 1 \in 2..l /\ j + 1 \in 2..l
        BY <1>3, <1>5, <2>1
      <3>2. i + 1 = j + 1
        BY <3>1 DEF AfterOnce, l
      <3> QED
        BY <3>2
    <2> QED
      BY <1>1, <2>1 DEF AfterOnce
  <1>7. After(s, s[2])
    BY <1>1 DEF After, l
  <1>8. ASSUME NEW c PROVE After(t, c) <=> After(s, c) /\ c # s[2]
    <2>1. ASSUME After(t, c) PROVE After(s, c) /\ c # s[2]
      <3>1. PICK i \in 2..(l - 1) : t[i] = c
        BY <1>1, <2>1 DEF After
      <3>2. i + 1 \in 2..l /\ i + 1 # 2 /\ s[i + 1] = c
        BY <1>3, <1>5, <3>1
      <3> QED
        BY <1>1, <3>2 DEF After, AfterOnce, l
    <2>2. ASSUME After(s, c), c # s[2] PROVE After(t, c)
      <3>1. PICK j \in 2..l : s[j] = c
        BY <2>2 DEF After, l
      <3>2. j - 1 \in 2..(l - 1) /\ t[j - 1] = c
        BY <1>4, <1>5, <2>2, <3>1
      <3> QED
        BY <1>1, <3>2 DEF After
    <2> QED
      BY <2>1, <2>2
  <1> QED
    BY <1>1, <1>2, <1>6, <1>7, <1>8 DEF l, t

(***************************************************************************)
(* combiner_finally_exec: one more final closure, and one more count for   *)
(* the first of them.                                                      *)
(***************************************************************************)
LEMMA FinallyKeeps ==
  ASSUME CombinerInv, NEW t \in Thread, NEW c \in Node, Finally(t, c)
  PROVE  CombinerInv'
  <1>1. /\ stage[t] = "running" /\ c \notin scheduled /\ scheduled' = scheduled \cup {c}
        /\ elems' = (IF finals = <<>> THEN elems + 1 ELSE elems) /\ finals' = Append(finals, c)
        /\ UNCHANGED <<orphaned, initiator, finalTime, active, offloads, stage, exec, sched, batch,
                       destroyed>>
        /\ UNCHANGED queueVars
    BY DEF Finally
  <1>2. /\ QueueSound' /\ Items' = Items /\ UNCHANGED <<pop, got, push, chain>>
        /\ \A d : InChain(d)' <=> InChain(d)
    BY <1>1, QueueFrame DEF CombinerInv
  <1>3. CombTyped /\ (\A u \in Thread : Calling(u)) /\ Holding /\ Staged /\ Ending /\ Placed /\ Counted
    BY DEF CombinerInv
  <1>4. elems \in Nat /\ elems > 0 /\ elems' \in Nat /\ elems' > 0
    <2>1. elems > 0 /\ elems \in Nat
      BY <1>1, <1>3, ActiveOwns, Alone DEF CombTyped
    <2> QED
      BY <1>1, <2>1
  <1>5. ~InChain(c) /\ ~Called(c) /\ got # c /\ ~Kept(c) /\ ~Due(c)
    BY <1>1, <1>3 DEF Placed, Place
  <1>6. /\ finals' \in Seq(Node) /\ finals' # <<>> /\ Once(finals')
        /\ \A d \in Node : Kept(d)' <=> Kept(d) \/ d = c
    <2>1. \A d : (Kept(d) <=> In(finals, d)) /\ (Kept(d)' <=> In(finals', d))
      BY DEF Kept, In
    <2>2. finals \in Seq(Node) /\ Once(finals) /\ ~In(finals, c)
      BY <1>3, <1>5, <2>1 DEF CombTyped, Placed
    <2>3. /\ finals' \in Seq(Node) /\ finals' # <<>> /\ Once(finals')
          /\ \A d : In(finals', d) <=> In(finals, d) \/ d = c
      BY <1>1, <2>2, AppendIn
    <2> QED
      BY <2>1, <2>3
  <1>7. CombTyped'
    BY <1>1, <1>3, <1>4, <1>6 DEF CombTyped
  <1>8. \A u \in Thread : Calling(u)'
    BY <1>1, <1>2, <1>3 DEF Calling
  <1>9. Holding'
    BY <1>1, <1>3, <1>4 DEF Holding, Owners
  <1>10. Staged'
    BY <1>1, <1>2, <1>3, <1>6 DEF Staged
  <1>11. Ending'
    BY <1>1, <1>3, <1>4 DEF Ending
  <1>12. \A u \in Thread : Waits(u)' <=> Waits(u)
    BY <1>1, <1>2 DEF Waits
  <1>13. Placed'
    <2>1. \A d \in Node : (Called(d)' <=> Called(d)) /\ (Due(d)' <=> Due(d))
      BY <1>1, <1>12 DEF Called, Due
    <2>2. \A d \in Node : Place(d)'
      BY <1>1, <1>2, <1>3, <1>5, <1>6, <2>1 DEF Placed, Place
    <2>3. CalledOnce' /\ DueOnce'
      BY <1>1, <1>3, <1>12 DEF Placed, CalledOnce, DueOnce
    <2> QED
      BY <1>6, <2>2, <2>3 DEF Placed
  <1>14. Counted'
    <2>1. Waiting' = Waiting
      BY <1>12 DEF Waiting, Waits
    <2>2. IsFiniteSet(Waiting)' /\ Cardinality(Waiting)' = Cardinality(Waiting)
      BY <1>3, <2>1 DEF Counted
    <2>3. Busy' <=> Busy
      BY <1>1, <1>2 DEF Busy
    <2> QED
      BY <1>1, <1>2, <1>3, <1>6, <2>2, <2>3, NumbersOf DEF Counted
  <1> QED
    BY <1>2, <1>7, <1>8, <1>9, <1>10, <1>11, <1>13, <1>14 DEF CombinerInv

(***************************************************************************)
(* grpc_combiner_continue_exec_ctx: the owner goes to the queue, or leaves *)
(* the combiner to the executor.                                           *)
(***************************************************************************)
LEMMA ContinueKeeps ==
  ASSUME CombinerInv, NEW t \in Thread, Continue(t)
  PROVE  CombinerInv'
  <1>1. /\ stage[t] = "out" /\ exec[t] = "none" /\ t \in active
        /\ UNCHANGED <<elems, orphaned, initiator, finals, finalTime, exec, sched, batch,
                       scheduled, destroyed>>
        /\ UNCHANGED queueVars
    BY DEF Continue
  <1>2. /\ QueueSound' /\ Items' = Items /\ UNCHANGED <<pop, got, push, chain>>
        /\ \A d : InChain(d)' <=> InChain(d)
    BY <1>1, QueueFrame DEF CombinerInv
  <1>3. CombTyped /\ (\A u \in Thread : Calling(u)) /\ Holding /\ Staged /\ Ending /\ Placed /\ Counted
    BY DEF CombinerInv
  <1>4. /\ offloads = 0 /\ elems > 0
        /\ \A u \in Thread : u # t => u \notin active /\ exec[u] # "initiate" /\ stage[u] = "out"
    BY <1>1, ActiveOwns, Alone
  <1>5. PICK s \in {"out", "peek"} :
          /\ stage' = [stage EXCEPT ![t] = s]
          /\ s = "out" => active' = active \ {t} /\ offloads' = offloads + 1
          /\ s = "peek" => UNCHANGED <<active, offloads>>
    BY DEF Continue, QueueOffload, Stage
  <1>6. stage'[t] = s /\ \A u \in Thread : u # t => stage'[u] = stage[u]
    BY <1>3, <1>5 DEF CombTyped
  <1>7. CombTyped'
    <2>1. stage' \in [Thread -> {"out", "peek", "popping", "running", "unref"}]
      BY <1>3, <1>5 DEF CombTyped
    <2>2. active' \subseteq Thread /\ offloads' \in Nat
      BY <1>3, <1>5 DEF CombTyped
    <2> QED
      BY <1>1, <1>3, <2>1, <2>2 DEF CombTyped
  <1>8. \A u \in Thread : Calling(u)'
    BY <1>1, <1>2, <1>3, <1>6 DEF Calling
  <1>9. Holding'
    <2>1. CASE s = "out"
      <3>1. Owners' = {} /\ offloads' = 1
        BY <1>1, <1>3, <1>4, <1>5, <2>1 DEF Owners, CombTyped
      <3>2. \A u \in Thread : stage'[u] = "out"
        BY <1>4, <1>6, <2>1
      <3> QED
        BY <1>1, <1>4, <3>1, <3>2 DEF Holding
    <2>2. CASE s = "peek"
      BY <1>1, <1>3, <1>5, <1>6, <2>2 DEF Holding, Owners
    <2> QED
      BY <2>1, <2>2
  <1>10. Staged'
    BY <1>1, <1>2, <1>3, <1>4, <1>6 DEF Staged
  <1>11. Ending'
    BY <1>1, <1>3 DEF Ending
  <1>12. \A u \in Thread : Waits(u)' <=> Waits(u)
    BY <1>1, <1>2 DEF Waits
  <1>13. Placed'
    BY <1>1, <1>2, <1>3, <1>12, PlacedFrame
  <1>14. Counted'
    <2>1. Busy' <=> Busy
      BY <1>1, <1>2, <1>6 DEF Busy
    <2> QED
      BY <1>1, <1>2, <1>3, <1>12, <2>1, CountedFrame
  <1> QED
    BY <1>2, <1>7, <1>8, <1>9, <1>10, <1>11, <1>13, <1>14 DEF CombinerInv

(***************************************************************************)
(* The owner starts to pop.                                                *)
(***************************************************************************)
LEMMA PeekPops ==
  ASSUME CombinerInv, NEW t \in Thread, stage[t] = "peek", StartPop, Stage(t, "popping"),
         UNCHANGED <<elems, orphaned, initiator, finals, finalTime, active, offloads, exec, sched,
                     batch, scheduled, destroyed>>
  PROVE  CombinerInv' /\ Items' = Items /\ UNCHANGED got
  <1>1. QueueSound /\ CombTyped /\ (\A u \in Thread : Calling(u)) /\ Holding /\ Staged /\ Ending
        /\ Placed /\ Counted /\ PopControl
    BY DEF CombinerInv, QueueSound
  <1>2. \A u \in Thread : u # t => u \notin active /\ exec[u] # "initiate" /\ stage[u] = "out"
    BY ActiveOwns, Alone
  <1>3. /\ pop = "idle" /\ pop' = "load" /\ UNCHANGED <<got, push, chain>> /\ UNCHANGED cells
        /\ Items' = Items /\ \A d : InChain(d)' <=> InChain(d)
    BY DEF StartPop, cells, Items, InChain
  <1>4. QueueSound'
    <2>1. got' = Null
      BY <1>1, <1>3 DEF PopControl
    <2> QED
      BY <1>1, <1>3, <2>1, Looking
  <1>5. stage'[t] = "popping" /\ \A u \in Thread : u # t => stage'[u] = stage[u]
    BY <1>1 DEF CombTyped, Stage
  <1>6. CombTyped'
    <2>1. stage' \in [Thread -> {"out", "peek", "popping", "running", "unref"}]
      BY <1>1 DEF CombTyped, Stage
    <2> QED
      BY <1>1, <2>1 DEF CombTyped
  <1>7. \A u \in Thread : Calling(u)'
    BY <1>1, <1>3, <1>5 DEF Calling
  <1>8. Holding'
    BY <1>1, <1>5 DEF Holding, Owners
  <1>9. Staged'
    BY <1>1, <1>2, <1>3, <1>5 DEF Staged
  <1>10. Ending'
    BY <1>1 DEF Ending
  <1>11. \A u \in Thread : Waits(u)' <=> Waits(u)
    BY <1>3 DEF Waits
  <1>12. Placed'
    BY <1>1, <1>3, <1>11, PlacedFrame
  <1>13. Counted'
    <2>1. Busy' <=> Busy
      BY <1>3, <1>5 DEF Busy
    <2> QED
      BY <1>1, <1>3, <1>11, <2>1, CountedFrame
  <1> QED
    BY <1>3, <1>4, <1>6, <1>7, <1>8, <1>9, <1>10, <1>12, <1>13 DEF CombinerInv

(***************************************************************************)
(* The owner takes the final list: it is time to, and what is counted is   *)
(* that list alone.                                                        *)
(***************************************************************************)
LEMMA FinalTimeIsQuiet ==
  ASSUME CombinerInv, NEW t \in Thread, stage[t] = "peek", finalTime, ~(elems > 1)
  PROVE  /\ finals # <<>> /\ Items = <<>> /\ batch = <<>> /\ got \notin Node
         /\ elems = 1 /\ Waiting = {}
         /\ \A u \in Thread : u # t => u \notin active /\ exec[u] # "initiate" /\ stage[u] = "out"
  <1>1. CombTyped /\ Staged /\ Counted /\ PopControl
    BY DEF CombinerInv, QueueSound
  <1>2. /\ \A u \in Thread : u # t => u \notin active /\ exec[u] # "initiate" /\ stage[u] = "out"
        /\ elems > 0
    BY ActiveOwns, Alone
  <1>3. finals # <<>> /\ batch = <<>> /\ pop = "idle"
    BY <1>1, <1>2 DEF Staged
  <1>4. got \notin Node /\ ~Busy
    <2>1. got = Null
      BY <1>1, <1>3 DEF PopControl
    <2> QED
      BY <1>2, <2>1, QueueAssumption DEF Busy
  <1>5. elems = Len(Items) + Cardinality(Waiting) + 1 /\ elems = 1
    BY <1>1, <1>2, <1>3, <1>4, NumbersOf DEF Counted
  <1>6. Len(Items) = 0 /\ Cardinality(Waiting) = 0
    BY <1>5, NumbersOf
  <1>7. Items = <<>> /\ Waiting = {}
    BY <1>6, NumbersOf, FS_EmptySet
  <1> QED
    BY <1>2, <1>3, <1>4, <1>5, <1>7

LEMMA PeekTakesFinals ==
  ASSUME CombinerInv, NEW t \in Thread, stage[t] = "peek", finalTime, ~(elems > 1),
         batch' = finals, finals' = <<>>, scheduled' = scheduled \ {finals[1]},
         Stage(t, "running"), UNCHANGED queueVars,
         UNCHANGED <<elems, orphaned, initiator, finalTime, active, offloads, exec, sched, destroyed>>
  PROVE  CombinerInv'
  <1>1. QueueSound /\ CombTyped /\ (\A u \in Thread : Calling(u)) /\ Holding /\ Staged /\ Ending
        /\ Placed /\ Counted
    BY DEF CombinerInv
  <1>2. /\ finals # <<>> /\ Items = <<>> /\ batch = <<>> /\ got \notin Node
        /\ elems = 1 /\ Waiting = {}
        /\ \A u \in Thread : u # t => u \notin active /\ exec[u] # "initiate" /\ stage[u] = "out"
    BY FinalTimeIsQuiet
  <1>3. /\ QueueSound' /\ Items' = Items /\ UNCHANGED <<pop, got, push, chain>>
        /\ \A d : InChain(d)' <=> InChain(d)
    BY <1>1, QueueFrame
  <1>4. stage'[t] = "running" /\ \A u \in Thread : u # t => stage'[u] = stage[u]
    BY <1>1 DEF CombTyped, Stage
  <1>5. CombTyped'
    <2>1. stage' \in [Thread -> {"out", "peek", "popping", "running", "unref"}]
      BY <1>1 DEF CombTyped, Stage
    <2>2. finals' \in Seq(Node) /\ batch' \in Seq(Node)
      BY <1>1 DEF CombTyped
    <2> QED
      BY <1>1, <2>1, <2>2 DEF CombTyped
  <1>6. \A u \in Thread : Calling(u)'
    BY <1>1, <1>3, <1>4 DEF Calling
  <1>7. Holding'
    BY <1>1, <1>4 DEF Holding, Owners
  <1>8. Staged'
    BY <1>1, <1>2, <1>3, <1>4 DEF Staged
  <1>9. Ending'
    BY <1>1 DEF Ending
  <1>10. \A u \in Thread : Waits(u)' <=> Waits(u)
    BY <1>3 DEF Waits
  <1>11. Placed'
    <2>1. \A d \in Node : Called(d)' <=> Called(d)
      BY <1>10 DEF Called
    <2>2. /\ AfterOnce(finals) /\ finals[1] \in Node /\ In(finals, finals[1])
          /\ \A d : After(finals, d) <=> In(finals, d) /\ d # finals[1]
      BY <1>1, <1>2, AllAfter DEF CombTyped, Placed
    <2>3. \A d : (Kept(d) <=> In(finals, d)) /\ ~Kept(d)'
      BY DEF Kept, In
    <2>4. \A d : ~Due(d)
      <3>1. batch \in Seq(Node) /\ Len(batch) = 0
        BY <1>1, <1>2 DEF CombTyped
      <3> QED
        BY <3>1, ShortAfter DEF Due
    <2>5. \A d \in Node : (Due(d)' <=> Kept(d) /\ d # finals[1]) /\ Kept(finals[1])
      BY <2>2, <2>3 DEF Due
    <2>6. \A d \in Node : Place(d)'
      BY <1>1, <1>3, <2>1, <2>2, <2>3, <2>4, <2>5 DEF Placed, Place
    <2>7. CalledOnce'
      BY <1>1, <1>10 DEF Placed, CalledOnce
    <2>8. Once(finals)' /\ DueOnce'
      BY <2>2 DEF Once, DueOnce
    <2> QED
      BY <2>6, <2>7, <2>8 DEF Placed
  <1>12. Counted'
    <2>1. Waiting' = {}
      BY <1>2, <1>10 DEF Waiting, Waits
    <2>2. Busy' /\ Len(Items') = 0
      BY <1>2, <1>3, <1>4 DEF Busy
    <2>3. IsFiniteSet(Waiting)' /\ Cardinality(Waiting)' = 0
      BY <2>1, FS_EmptySet
    <2> QED
      BY <1>2, <2>2, <2>3 DEF Counted
  <1> QED
    BY <1>3, <1>5, <1>6, <1>7, <1>8, <1>9, <1>11, <1>12 DEF CombinerInv

LEMMA PeekKeeps ==
  ASSUME CombinerInv, NEW t \in Thread, Peek(t)
  PROVE  CombinerInv'
  <1>1. CASE ~finalTime \/ elems > 1
    BY <1>1, PeekPops DEF Peek
  <1>2. CASE ~(~finalTime \/ elems > 1)
    <2>1. finalTime /\ ~(elems > 1)
      BY <1>2 DEF CombinerInv, CombTyped
    <2> QED
      BY <1>2, <2>1, PeekTakesFinals DEF Peek
  <1> QED
    BY <1>1, <1>2

(***************************************************************************)
(* The pop itself, and what the owner does with its result.                *)
(***************************************************************************)
LEMMA PoppingKeeps ==
  ASSUME CombinerInv, NEW t \in Thread, Popping(t)
  PROVE  CombinerInv' /\ batch = <<>>
  <1>1. QueueSound /\ CombTyped /\ (\A u \in Thread : Calling(u)) /\ Holding /\ Staged /\ Ending
        /\ Placed /\ Counted
    BY DEF CombinerInv
  <1>2. stage[t] = "popping" /\ PopStep
        /\ UNCHANGED <<elems, orphaned, initiator, finals, finalTime, active, offloads, stage,
                       exec, sched, batch, scheduled, destroyed>>
    BY DEF Popping, combVars
  <1>3. \A u \in Thread : u # t => u \notin active /\ exec[u] # "initiate" /\ stage[u] = "out"
    BY <1>2, ActiveOwns, Alone
  <1>4. QueueSound' /\ pop # "idle" /\ pop' # "idle" /\ got = Null /\ Handed(got')
    BY <1>1, <1>2, PopKeeps DEF Handing
  <1>5. \A u \in Thread : push'[u] = push[u]
    BY <1>1, <1>2, PopLeavesThreads
  <1>6. batch = <<>>
    BY <1>1, <1>2, <1>3 DEF Staged
  <1>7. CombTyped' /\ \A u \in Thread : Calling(u)'
    BY <1>1, <1>2, <1>5 DEF CombTyped, Calling
  <1>8. Holding' /\ Ending'
    BY <1>1, <1>2 DEF Holding, Owners, Ending
  <1>9. Staged'
    BY <1>1, <1>2, <1>4 DEF Staged
  <1>10. \A u \in Thread : Waits(u)' <=> Waits(u)
    BY <1>2, <1>5 DEF Waits
  <1>11. Null \notin Node
    BY QueueAssumption
  <1>12. Placed'
    <2>1. \A d \in Node : (Called(d)' <=> Called(d)) /\ (Kept(d)' <=> Kept(d)) /\ (Due(d)' <=> Due(d))
      BY <1>2, <1>10 DEF Called, Kept, Due
    <2>2. \A d \in Node : Place(d)'
      BY <1>1, <1>2, <1>4, <1>11, <2>1 DEF Placed, Place, Handed
    <2>3. CalledOnce' /\ Once(finals)' /\ DueOnce'
      BY <1>1, <1>2, <1>10 DEF Placed, CalledOnce, DueOnce
    <2> QED
      BY <2>2, <2>3 DEF Placed
  <1>13. Counted'
    <2>1. ~Busy /\ (Busy' <=> got' \in Node)
      BY <1>2, <1>3, <1>4, <1>11 DEF Busy
    <2>2. Waiting' = Waiting
      BY <1>10 DEF Waiting, Waits
    <2>3. IsFiniteSet(Waiting)' /\ Cardinality(Waiting)' = Cardinality(Waiting)
      BY <1>1, <2>2 DEF Counted
    <2>4. Len(Items) = Len(Items') + IF got' \in Node THEN 1 ELSE 0
      BY <1>4, NumbersOf DEF Handed
    <2>5. Len(Items') \in Nat
      BY <1>4, NumbersOf DEF Handed
    <2> QED
      BY <1>1, <1>2, <2>1, <2>3, <2>4, <2>5, NumbersOf DEF Counted
  <1> QED
    BY <1>4, <1>6, <1>7, <1>8, <1>9, <1>12, <1>13 DEF CombinerInv

LEMMA PoppedKeeps ==
  ASSUME CombinerInv, NEW t \in Thread, Popped(t)
  PROVE  CombinerInv' /\ batch = <<>> /\ Items' = Items
  <1>1. QueueSound /\ CombTyped /\ (\A u \in Thread : Calling(u)) /\ Holding /\ Staged /\ Ending
        /\ Placed /\ Counted
    BY DEF CombinerInv
  <1>2. /\ stage[t] = "popping" /\ pop = "done" /\ pop' = "idle" /\ got' = Null
        /\ UNCHANGED <<elems, orphaned, initiator, finals, finalTime, exec, sched, destroyed>>
        /\ UNCHANGED <<head, tail, next, push, chain>>
    BY DEF Popped
  <1>3. /\ \A u \in Thread : u # t => u \notin active /\ exec[u] # "initiate" /\ stage[u] = "out"
        /\ t \in active /\ offloads = 0 /\ elems > 0 /\ exec[t] = "none"
    BY <1>1, <1>2, ActiveOwns, Alone DEF Calling
  <1>4. QueueSound'
    BY <1>1, <1>2, Looking DEF cells
  <1>5. Items' = Items /\ \A d : InChain(d)' <=> InChain(d)
    BY <1>2 DEF Items, InChain
  <1>6. batch = <<>> /\ \A d : ~Due(d)
    <2>1. batch = <<>> /\ Len(batch) = 0 /\ batch \in Seq(Node)
      BY <1>1, <1>2, <1>3 DEF Staged, CombTyped
    <2> QED
      BY <2>1, ShortAfter DEF Due
  <1>7. \A u \in Thread : Waits(u)' <=> Waits(u)
    BY <1>2 DEF Waits
  <1>8. Null \notin Node
    BY QueueAssumption
  <1>9. IsFiniteSet(Waiting)' /\ Cardinality(Waiting)' = Cardinality(Waiting)
    <2>1. Waiting' = Waiting
      BY <1>7 DEF Waiting, Waits
    <2> QED
      BY <1>1, <2>1 DEF Counted
  <1>10. Ending'
    BY <1>1, <1>2 DEF Ending
  <1>11. \A d \in Node : (Called(d)' <=> Called(d)) /\ (Kept(d)' <=> Kept(d))
    BY <1>2, <1>7 DEF Called, Kept
  <1>12. CalledOnce' /\ Once(finals)'
    BY <1>1, <1>2, <1>7 DEF Placed, CalledOnce
  <1>13. CASE got \in Node
    <2>1. /\ batch' = <<got>> /\ scheduled' = scheduled \ {got}
          /\ Stage(t, "running") /\ UNCHANGED <<active, offloads>>
      BY <1>13 DEF Popped
    <2>2. stage'[t] = "running" /\ \A u \in Thread : u # t => stage'[u] = stage[u]
      BY <1>1, <2>1 DEF CombTyped, Stage
    <2>3. batch' \in Seq(Node) /\ Len(batch') = 1 /\ batch' # <<>>
      BY <1>13, <2>1
    <2>4. CombTyped'
      <3>1. stage' \in [Thread -> {"out", "peek", "popping", "running", "unref"}]
        BY <1>1, <2>1 DEF CombTyped, Stage
      <3> QED
        BY <1>1, <1>2, <2>1, <2>3, <3>1 DEF CombTyped
    <2>5. \A u \in Thread : Calling(u)'
      BY <1>1, <1>2, <2>2 DEF Calling
    <2>6. Holding'
      BY <1>1, <1>2, <1>3, <2>1, <2>2 DEF Holding, Owners
    <2>7. Staged'
      BY <1>1, <1>2, <1>3, <2>2, <2>3 DEF Staged
    <2>8. Placed'
      <3>1. DueOnce' /\ \A d : ~Due(d)'
        BY <2>3, ShortAfter DEF Due, DueOnce
      <3>2. \A d \in Node : Place(d)'
        BY <1>1, <1>2, <1>5, <1>6, <1>8, <1>11, <2>1, <3>1 DEF Placed, Place
      <3> QED
        BY <1>12, <3>1, <3>2 DEF Placed
    <2>9. Counted'
      <3>1. Busy /\ Busy'
        BY <1>13, <2>2 DEF Busy
      <3> QED
        BY <1>1, <1>2, <1>5, <1>9, <3>1 DEF Counted
    <2> QED
      BY <1>4, <1>5, <1>6, <1>10, <2>4, <2>5, <2>6, <2>7, <2>8, <2>9 DEF CombinerInv
  <1>14. CASE got \notin Node
    <2>1. /\ active' = active \ {t} /\ offloads' = offloads + 1 /\ Stage(t, "out")
          /\ UNCHANGED <<batch, scheduled>>
      BY <1>14 DEF Popped, QueueOffload
    <2>2. stage'[t] = "out" /\ \A u \in Thread : u # t => stage'[u] = stage[u]
      BY <1>1, <2>1 DEF CombTyped, Stage
    <2>3. \A u \in Thread : stage'[u] = "out"
      BY <1>3, <2>2
    <2>4. CombTyped'
      <3>1. stage' \in [Thread -> {"out", "peek", "popping", "running", "unref"}]
        BY <1>1, <2>1 DEF CombTyped, Stage
      <3>2. active' \subseteq Thread /\ offloads' \in Nat
        BY <1>1, <2>1 DEF CombTyped
      <3> QED
        BY <1>1, <1>2, <2>1, <3>1, <3>2 DEF CombTyped
    <2>5. \A u \in Thread : Calling(u)'
      BY <1>1, <1>2, <2>3 DEF Calling
    <2>6. Holding'
      <3>1. Owners' = {} /\ offloads' = 1
        BY <1>1, <1>2, <1>3, <2>1 DEF Owners, CombTyped
      <3> QED
        BY <1>2, <1>3, <2>3, <3>1 DEF Holding
    <2>7. Staged'
      <3>1. finalTime => finals # <<>>
        BY <1>1, <1>2, <1>3 DEF Staged
      <3> QED
        BY <1>2, <1>6, <2>1, <2>3, <3>1 DEF Staged
    <2>8. Placed'
      <3>1. \A d : Due(d)' <=> Due(d)
        BY <2>1 DEF Due
      <3>2. \A d \in Node : Place(d)'
        BY <1>1, <1>2, <1>5, <1>8, <1>11, <1>14, <2>1, <3>1 DEF Placed, Place
      <3>3. DueOnce'
        BY <1>1, <2>1 DEF Placed, DueOnce
      <3> QED
        BY <1>12, <3>2, <3>3 DEF Placed
    <2>9. Counted'
      <3>1. ~Busy /\ ~Busy'
        BY <1>2, <1>3, <1>8, <1>14, <2>3 DEF Busy
      <3> QED
        BY <1>1, <1>2, <1>5, <1>9, <3>1 DEF Counted
    <2> QED
      BY <1>4, <1>5, <1>6, <1>10, <2>4, <2>5, <2>6, <2>7, <2>8, <2>9 DEF CombinerInv
  <1> QED
    BY <1>13, <1>14

(***************************************************************************)
(* A closure returns: the next of its batch runs, or the batch is over.    *)
(***************************************************************************)
LEMMA ClosureReturnsKeeps ==
  ASSUME CombinerInv, NEW t \in Thread, ClosureReturns(t)
  PROVE  CombinerInv' /\ batch # <<>> /\ Items' = Items
  <1>1. QueueSound /\ CombTyped /\ (\A u \in Thread : Calling(u)) /\ Holding /\ Staged /\ Ending
        /\ Placed /\ Counted
    BY DEF CombinerInv
  <1> DEFINE s == IF Len(batch) > 1 THEN "running" ELSE "unref"
  <1>2. /\ stage[t] = "running" /\ exec[t] = "none" /\ batch' = Tail(batch)
        /\ scheduled' = scheduled \ (IF Len(batch) > 1 THEN {batch[2]} ELSE {})
        /\ stage' = [stage EXCEPT ![t] = s]
        /\ UNCHANGED <<elems, orphaned, initiator, finals, finalTime, active, offloads, exec, sched, destroyed>>
        /\ UNCHANGED queueVars
    BY DEF ClosureReturns, Stage
  <1>3. \A u \in Thread : u # t => u \notin active /\ exec[u] # "initiate" /\ stage[u] = "out"
    BY <1>2, ActiveOwns, Alone
  <1>4. /\ QueueSound' /\ Items' = Items /\ UNCHANGED <<pop, got, push, chain>>
        /\ \A d : InChain(d)' <=> InChain(d)
    BY <1>1, <1>2, QueueFrame
  <1>5. /\ batch # <<>> /\ batch \in Seq(Node) /\ Len(batch) \in Nat \ {0} /\ batch' \in Seq(Node)
        /\ Len(batch) > 1 \/ (Len(batch) = 1 /\ batch' = <<>>)
    <2>1. batch # <<>> /\ batch \in Seq(Node)
      BY <1>1, <1>2 DEF Staged, CombTyped
    <2>2. Len(batch) \in Nat \ {0} /\ Tail(batch) \in Seq(Node) /\ Len(Tail(batch)) = Len(batch) - 1
      BY <2>1
    <2>3. Len(batch) > 1 \/ Len(batch) = 1
      BY <2>2
    <2>4. ASSUME Len(batch) = 1 PROVE Tail(batch) = <<>>
      <3>1. Len(Tail(batch)) = 0
        BY <2>2, <2>4
      <3>2. Tail(batch) # <<>> => Len(Tail(batch)) \in Nat \ {0}
        BY <2>2, EmptySeq
      <3> QED
        BY <3>1, <3>2
    <2> QED
      BY <1>2, <2>1, <2>2, <2>3, <2>4
  <1>s. (s = "running" /\ Len(batch) > 1) \/ (s = "unref" /\ ~(Len(batch) > 1))
    OBVIOUS
  <1> HIDE DEF s
  <1>6. stage'[t] = s /\ \A u \in Thread : u # t => stage'[u] = stage[u]
    BY <1>1, <1>2 DEF CombTyped
  <1>7. CombTyped'
    <2>1. stage' \in [Thread -> {"out", "peek", "popping", "running", "unref"}]
      BY <1>1, <1>2, <1>s DEF CombTyped
    <2>2. scheduled' \subseteq Node
      BY <1>1, <1>2 DEF CombTyped
    <2> QED
      BY <1>1, <1>2, <1>5, <2>1, <2>2 DEF CombTyped
  <1>8. \A u \in Thread : Calling(u)'
    BY <1>1, <1>2, <1>4, <1>6 DEF Calling
  <1>9. Holding'
    BY <1>1, <1>2, <1>6 DEF Holding, Owners
  <1>10. Ending'
    BY <1>1, <1>2 DEF Ending
  <1>11. \A u \in Thread : Waits(u)' <=> Waits(u)
    BY <1>2, <1>4 DEF Waits
  <1>12. \A d \in Node : (Called(d)' <=> Called(d)) /\ (Kept(d)' <=> Kept(d))
    BY <1>2, <1>11 DEF Called, Kept
  <1>13. CalledOnce' /\ Once(finals)'
    BY <1>1, <1>2, <1>11 DEF Placed, CalledOnce
  <1>14. Staged' /\ Placed'
    <2>1. CASE Len(batch) > 1
      <3>1. /\ batch' # <<>> /\ AfterOnce(batch') /\ batch[2] \in Node /\ After(batch, batch[2])
            /\ \A d : After(batch', d) <=> After(batch, d) /\ d # batch[2]
        BY <1>1, <1>2, <1>5, <2>1, TailAfter DEF Placed, DueOnce
      <3>2. Staged'
        BY <1>1, <1>2, <1>4, <1>6, <1>s, <2>1, <3>1 DEF Staged
      <3>3. \A d \in Node : (Due(d)' <=> Due(d) /\ d # batch[2]) /\ Due(batch[2])
        BY <3>1 DEF Due
      <3>4. scheduled' = scheduled \ {batch[2]}
        BY <1>2, <2>1
      <3>5. \A d \in Node : Place(d)'
        BY <1>1, <1>4, <1>12, <3>1, <3>3, <3>4 DEF Placed, Place
      <3> QED
        BY <1>13, <3>1, <3>2, <3>5 DEF Placed, DueOnce
    <2>2. CASE ~(Len(batch) > 1)
      <3>1. Len(batch) = 1 /\ batch' = <<>> /\ Len(batch') = 0
        BY <1>5, <2>2
      <3>2. Staged'
        BY <1>1, <1>2, <1>3, <1>4, <1>6, <1>s, <2>2, <3>1 DEF Staged
      <3>3. DueOnce' /\ \A d : ~Due(d) /\ ~Due(d)'
        BY <1>5, <3>1, ShortAfter DEF Due, DueOnce
      <3>4. scheduled' = scheduled
        BY <1>2, <2>2
      <3>5. \A d \in Node : Place(d)'
        BY <1>1, <1>4, <1>12, <3>3, <3>4 DEF Placed, Place
      <3> QED
        BY <1>13, <3>2, <3>3, <3>5 DEF Placed
    <2> QED
      BY <2>1, <2>2
  <1>15. Counted'
    <2>1. Busy' <=> Busy
      BY <1>2, <1>6, <1>s DEF Busy
    <2> QED
      BY <1>1, <1>2, <1>4, <1>11, <2>1, CountedFrame
  <1> QED
    BY <1>4, <1>5, <1>7, <1>8, <1>9, <1>10, <1>14, <1>15 DEF CombinerInv

(***************************************************************************)
(* The count is given back: the last of it ends the ownership.             *)
(***************************************************************************)
LEMMA UnlockKeeps ==
  ASSUME CombinerInv, NEW t \in Thread, Unlock(t)
  PROVE  CombinerInv'
  <1>1. QueueSound /\ CombTyped /\ (\A u \in Thread : Calling(u)) /\ Holding /\ Staged /\ Ending
        /\ Placed /\ Counted
    BY DEF CombinerInv
  <1>2. /\ stage[t] = "unref" /\ elems' = elems - 1 /\ finalTime' = (elems = 2 /\ finals # <<>>)
        /\ active' = (IF elems = 1 THEN active \ {t} ELSE active)
        /\ destroyed' = (elems = 1 /\ orphaned) /\ Stage(t, "out")
        /\ UNCHANGED <<orphaned, initiator, finals, offloads, exec, sched, batch, scheduled>>
        /\ UNCHANGED queueVars
    BY DEF Unlock
  <1>3. /\ \A u \in Thread : u # t => u \notin active /\ exec[u] # "initiate" /\ stage[u] = "out"
        /\ t \in active /\ offloads = 0 /\ elems > 0 /\ exec[t] = "none"
    BY <1>1, <1>2, ActiveOwns, Alone DEF Calling
  <1>4. /\ QueueSound' /\ Items' = Items /\ UNCHANGED <<pop, got, push, chain>>
        /\ \A d : InChain(d)' <=> InChain(d)
    BY <1>1, <1>2, QueueFrame
  <1>5. stage'[t] = "out" /\ \A u \in Thread : u # t => stage'[u] = stage[u]
    BY <1>1, <1>2 DEF CombTyped, Stage
  <1>6. \A u \in Thread : stage'[u] = "out"
    BY <1>3, <1>5
  <1>7. elems \in Nat /\ elems' \in Nat /\ (elems = 1 <=> elems' = 0)
    BY <1>1, <1>2, <1>3 DEF CombTyped
  <1>8. CombTyped'
    <2>1. stage' \in [Thread -> {"out", "peek", "popping", "running", "unref"}]
      BY <1>1, <1>2 DEF CombTyped, Stage
    <2>2. active' \subseteq Thread /\ finalTime' \in BOOLEAN /\ destroyed' \in BOOLEAN
      BY <1>1, <1>2 DEF CombTyped
    <2> QED
      BY <1>1, <1>2, <1>7, <2>1, <2>2 DEF CombTyped
  <1>9. \A u \in Thread : Calling(u)'
    BY <1>1, <1>2, <1>4, <1>6 DEF Calling
  <1>10. Holding'
    <2>1. CASE elems = 1
      <3>1. Owners' = {}
        BY <1>1, <1>2, <1>3, <2>1 DEF Owners, CombTyped
      <3> QED
        BY <1>2, <1>3, <1>6, <1>7, <2>1, <3>1 DEF Holding
    <2>2. CASE elems # 1
      <3>1. Owners' = Owners /\ elems' > 0
        BY <1>2, <1>7, <2>2 DEF Owners
      <3> QED
        BY <1>1, <1>2, <1>3, <1>6, <3>1 DEF Holding
    <2> QED
      BY <2>1, <2>2
  <1>11. Staged'
    BY <1>1, <1>2, <1>3, <1>4, <1>6 DEF Staged
  <1>12. Ending'
    BY <1>1, <1>2, <1>7 DEF Ending
  <1>13. \A u \in Thread : Waits(u)' <=> Waits(u)
    BY <1>2, <1>4 DEF Waits
  <1>14. Placed'
    BY <1>1, <1>2, <1>4, <1>13, PlacedFrame
  <1>15. Counted'
    <2>1. Busy
      BY <1>2 DEF Busy
    <2>2. ~Busy'
      <3>1. got = Null
        <4>1. pop = "idle"
          BY <1>1, <1>2, <1>3 DEF Staged
        <4> QED
          BY <1>1, <4>1 DEF QueueSound, PopControl
      <3> QED
        BY <1>4, <1>6, <3>1, QueueAssumption DEF Busy
    <2>3. Waiting' = Waiting
      BY <1>13 DEF Waiting, Waits
    <2>4. IsFiniteSet(Waiting)' /\ Cardinality(Waiting)' = Cardinality(Waiting)
      BY <1>1, <2>3 DEF Counted
    <2> QED
      BY <1>1, <1>2, <1>4, <2>1, <2>2, <2>4, NumbersOf DEF Counted
  <1> QED
    BY <1>4, <1>8, <1>9, <1>10, <1>11, <1>12, <1>14, <1>15 DEF CombinerInv

(***************************************************************************)
(* An executor thread takes the combiner over, and the last reference goes.*)
(***************************************************************************)
LEMMA OffloadKeeps ==
  ASSUME CombinerInv, NEW t \in Thread, Offload(t)
  PROVE  CombinerInv'
  <1>1. QueueSound /\ CombTyped /\ (\A u \in Thread : Calling(u)) /\ Holding /\ Staged /\ Ending
        /\ Placed /\ Counted
    BY DEF CombinerInv
  <1>2. /\ offloads > 0 /\ offloads' = offloads - 1 /\ active' = active \cup {t}
        /\ UNCHANGED <<elems, orphaned, initiator, finals, finalTime, stage, exec, sched, batch,
                       scheduled, destroyed>>
        /\ UNCHANGED queueVars
    BY DEF Offload
  <1>3. /\ QueueSound' /\ Items' = Items /\ UNCHANGED <<pop, got, push, chain>>
        /\ \A d : InChain(d)' <=> InChain(d)
    BY <1>1, <1>2, QueueFrame
  <1>4. offloads = 1 /\ Owners = {} /\ offloads' = 0 /\ elems > 0
    BY <1>1, <1>2 DEF Holding
  <1>5. CombTyped'
    BY <1>1, <1>2, <1>4 DEF CombTyped
  <1>6. Holding'
    <2>1. Owners' = {t}
      BY <1>2, <1>4 DEF Owners
    <2> QED
      BY <1>1, <1>2, <1>4, <2>1 DEF Holding
  <1>7. \A u \in Thread : Calling(u)' /\ (Waits(u)' <=> Waits(u))
    BY <1>1, <1>2, <1>3 DEF Calling, Waits
  <1>8. Staged' /\ Ending'
    BY <1>1, <1>2, <1>3 DEF Staged, Ending
  <1>9. Placed'
    BY <1>1, <1>2, <1>3, <1>7, PlacedFrame
  <1>10. Counted'
    <2>1. Busy' <=> Busy
      BY <1>2, <1>3 DEF Busy
    <2> QED
      BY <1>1, <1>2, <1>3, <1>7, <2>1, CountedFrame
  <1> QED
    BY <1>3, <1>5, <1>6, <1>7, <1>8, <1>9, <1>10 DEF CombinerInv

LEMMA StartDestroyKeeps ==
  ASSUME CombinerInv, StartDestroy
  PROVE  CombinerInv'
  <1>1. QueueSound /\ CombTyped /\ (\A u \in Thread : Calling(u)) /\ Holding /\ Staged /\ Ending
        /\ Placed /\ Counted
    BY DEF CombinerInv
  <1>2. /\ \A t \in Thread : exec[t] = "none"
        /\ orphaned' = TRUE /\ destroyed' = (elems = 0)
        /\ UNCHANGED <<elems, initiator, finals, finalTime, active, offloads, stage, exec, sched,
                       batch, scheduled>>
        /\ UNCHANGED queueVars
    BY DEF StartDestroy
  <1>3. /\ QueueSound' /\ Items' = Items /\ UNCHANGED <<pop, got, push, chain>>
        /\ \A d : InChain(d)' <=> InChain(d)
    BY <1>1, <1>2, QueueFrame
  <1>4. CombTyped'
    BY <1>1, <1>2 DEF CombTyped
  <1>5. \A u \in Thread : Calling(u)' /\ (Waits(u)' <=> Waits(u))
    BY <1>1, <1>2, <1>3 DEF Calling, Waits
  <1>6. Holding' /\ Staged' /\ Ending'
    BY <1>1, <1>2, <1>3 DEF Holding, Owners, Staged, Ending
  <1>7. Placed'
    BY <1>1, <1>2, <1>3, <1>5, PlacedFrame
  <1>8. Counted'
    <2>1. Busy' <=> Busy
      BY <1>2, <1>3 DEF Busy
    <2> QED
      BY <1>1, <1>2, <1>3, <1>5, <2>1, CountedFrame
  <1> QED
    BY <1>3, <1>4, <1>5, <1>6, <1>7, <1>8 DEF CombinerInv

LEMMA CombinerStutters ==
  ASSUME CombinerInv, UNCHANGED vars
  PROVE  CombinerInv' /\ Items' = Items
  <1>1. QueueSound /\ CombTyped /\ (\A u \in Thread : Calling(u)) /\ Holding /\ Staged /\ Ending
        /\ Placed /\ Counted
    BY DEF CombinerInv
  <1>2. /\ UNCHANGED queueVars
        /\ UNCHANGED <<elems, orphaned, initiator, finals, finalTime, active, offloads, stage,
                       exec, sched, batch, scheduled, destroyed>>
    BY DEF vars, combVars
  <1>3. /\ QueueSound' /\ Items' = Items /\ UNCHANGED <<pop, got, push, chain>>
        /\ \A d : InChain(d)' <=> InChain(d)
    BY <1>1, <1>2, QueueFrame
  <1>4. CombTyped' /\ \A u \in Thread : Calling(u)' /\ (Waits(u)' <=> Waits(u))
    BY <1>1, <1>2, <1>3 DEF CombTyped, Calling, Waits
  <1>5. Holding' /\ Staged' /\ Ending'
    BY <1>1, <1>2, <1>3 DEF Holding, Owners, Staged, Ending
  <1>6. Placed'
    BY <1>1, <1>2, <1>3, <1>4, PlacedFrame
  <1>7. Counted'
    <2>1. Busy' <=> Busy
      BY <1>2, <1>3 DEF Busy
    <2> QED
      BY <1>1, <1>2, <1>3, <1>4, <2>1, CountedFrame
  <1> QED
    BY <1>3, <1>4, <1>5, <1>6, <1>7 DEF CombinerInv

LEMMA CombinerBegins == Init => CombinerInv
  <1> SUFFICES ASSUME Init PROVE CombinerInv
    OBVIOUS
  <1>1. /\ elems = 0 /\ orphaned = FALSE /\ initiator = None /\ finals = <<>> /\ finalTime = FALSE
        /\ active = {} /\ offloads = 0 /\ stage = [t \in Thread |-> "out"]
        /\ exec = [t \in Thread |-> "none"] /\ sched = [t \in Thread |-> Null]
        /\ batch = <<>> /\ scheduled = {} /\ destroyed = FALSE
        /\ QueueInit
    BY DEF Init
  <1>2. QueueSound /\ Items = <<>> /\ \A c \in Node : ~InChain(c)
    BY <1>1, QueueBegins
  <1>3. pop = "idle" /\ got = Null /\ Null \notin Node /\ \A t \in Thread : push[t].at = "idle"
    BY <1>1, QueueAssumption DEF QueueInit, Idle, Pusher
  <1>4. finals \in Seq(Node) /\ batch \in Seq(Node) /\ Len(batch) = 0 /\ Len(Items) = 0
        /\ DOMAIN finals = {}
    BY <1>1, <1>2
  <1>5. CombTyped
    BY <1>1, <1>4 DEF CombTyped
  <1>6. \A t \in Thread : Calling(t)
    BY <1>1, <1>3 DEF Calling
  <1>7. Holding
    <2>1. Owners = {}
      BY <1>1 DEF Owners
    <2> QED
      BY <1>1, <2>1 DEF Holding
  <1>8. Staged /\ Ending
    BY <1>1, <1>3 DEF Staged, Ending
  <1>9. Placed
    <2>1. \A c : ~Called(c) /\ ~Kept(c)
      BY <1>1, <1>4 DEF Called, Waits, Kept
    <2>2. DueOnce /\ \A c : ~Due(c)
      BY <1>4, ShortAfter DEF Due, DueOnce
    <2>3. \A c \in Node : Place(c)
      BY <1>1, <1>2, <1>3, <2>1, <2>2 DEF Place
    <2>4. CalledOnce /\ Once(finals)
      BY <1>1, <1>4 DEF CalledOnce, Waits, Once
    <2> QED
      BY <2>2, <2>3, <2>4 DEF Placed
  <1>10. Counted
    <2>1. Waiting = {}
      BY <1>1 DEF Waiting
    <2>2. IsFiniteSet(Waiting) /\ Cardinality(Waiting) = 0
      BY <2>1, FS_EmptySet
    <2>3. ~Busy
      BY <1>1, <1>3 DEF Busy
    <2> QED
      BY <1>1, <1>4, <2>2, <2>3 DEF Counted
  <1> QED
    BY <1>2, <1>5, <1>6, <1>7, <1>8, <1>9, <1>10 DEF CombinerInv

LEMMA CombinerSafe == Spec => []CombinerInv
  <1>1. CombinerInv /\ [Next]_vars => CombinerInv'
    <2> SUFFICES ASSUME CombinerInv, [Next]_vars PROVE CombinerInv'
      OBVIOUS
    <2>1. ASSUME NEW t \in Thread, Works(t) PROVE CombinerInv'
      BY <2>1, CallGoesOn, PushKeeps, ContinueKeeps, PeekKeeps, PoppingKeeps, PoppedKeeps,
         ClosureReturnsKeeps, UnlockKeeps, OffloadKeeps DEF Works
    <2>2. ASSUME NEW t \in Thread, NEW c \in Node, Exec(t, c) \/ Finally(t, c) PROVE CombinerInv'
      BY <2>2, ExecKeeps, FinallyKeeps
    <2>3. CASE StartDestroy
      BY <2>3, StartDestroyKeeps
    <2>4. CASE UNCHANGED vars
      BY <2>4, CombinerStutters
    <2> QED
      BY <2>1, <2>2, <2>3, <2>4 DEF Next
  <1> QED
    BY <1>1, CombinerBegins, PTL DEF Spec

(***************************************************************************)
(* The combiner's state is well formed.                                    *)
(***************************************************************************)
THEOREM CombinerTyped == Spec => []TypeOK
  <1>1. CombinerInv => TypeOK
    BY DEF CombinerInv, QueueSound, Shape, CellsTyped, PushState, PopControl, CombTyped,
           TypeOK, QueueTypeOK
  <1> QED
    BY <1>1, CombinerSafe, PTL

(***************************************************************************)
(* However many threads schedule closures, the combiner is held once or,   *)
(* when nothing is counted, not at all; only its owner pops and runs.      *)
(***************************************************************************)
THEOREM CombinerHasOneOwner == Spec => []OneOwner
  <1>1. CombinerInv => OneOwner
    <2> SUFFICES ASSUME CombinerInv PROVE OneOwner
      OBVIOUS
    <2>1. Holding /\ elems \in Nat
      BY DEF CombinerInv, CombTyped
    <2>2. CASE Owners = {}
      <3>1. Cardinality(Owners) = 0
        BY <2>2, FS_EmptySet
      <3> QED
        BY <2>1, <2>2, <3>1 DEF OneOwner, Holding
    <2>3. CASE Owners # {}
      <3>1. PICK t \in Owners : TRUE
        BY <2>3
      <3>2. Owners = {t}
        BY <2>1, <3>1 DEF Holding
      <3>3. Cardinality(Owners) = 1
        BY <3>2, FS_Singleton
      <3>4. offloads = 0 /\ elems > 0
        BY <2>1, <2>3 DEF Holding
      <3> QED
        BY <2>1, <3>3, <3>4 DEF OneOwner, Holding
    <2> QED
      BY <2>2, <2>3
  <1> QED
    BY <1>1, CombinerSafe, PTL

(***************************************************************************)
(* The count in lock->state is what is queued, being pushed or running,    *)
(* and one for the final list: it reaches zero exactly when nothing is.    *)
(***************************************************************************)
THEOREM CombinerCountsRight == Spec => []CountRight
  <1>1. CombinerInv => CountRight
    BY DEF CombinerInv, Counted, CountRight, Waiting, Busy
  <1> QED
    BY <1>1, CombinerSafe, PTL

(***************************************************************************)
(* When a combiner is destroyed nothing is left in it: no closure in its   *)
(* queue, its batch or its final list, and its queue is at the stub.       *)
(***************************************************************************)
THEOREM CombinerDiesEmpty == Spec => []DestroyedEmpty
  <1>1. CombinerInv => DestroyedEmpty
    <2> SUFFICES ASSUME CombinerInv, destroyed PROVE DestroyedEmpty
      BY DEF DestroyedEmpty
    <2>1. Holding /\ Staged /\ Ending /\ Placed /\ Counted /\ CombTyped
      BY DEF CombinerInv
    <2>2. elems = 0 /\ \A t \in Thread : exec[t] = "none"
      BY <2>1 DEF Ending
    <2>3. Owners = {} /\ offloads = 0 /\ \A t \in Thread : stage[t] = "out"
      BY <2>1, <2>2 DEF Holding, Owners
    <2>4. batch = <<>> /\ pop = "idle"
      BY <2>1, <2>3 DEF Staged
    <2>5. Len(Items) = 0 /\ finals = <<>> /\ ~Busy
      BY <2>1, <2>2, NumbersOf DEF Counted
    <2>6. Items = <<>>
      BY <2>5, NumbersOf
    <2>7. head = Stub /\ tail = Stub
      BY <2>6, ItemsSound DEF CombinerInv
    <2>8. ASSUME NEW c \in Node PROVE c \notin scheduled
      <3>1. ~InChain(c)
        <4>1. chain = <<>> \/ (Len(chain) = 1 /\ chain[1] = Stub)
          BY <2>6, WithoutStubIsSeq DEF CombinerInv, QueueSound, Shape, CellsTyped, Simple, Once, Items
        <4>2. chain # <<>> /\ DOMAIN chain = 1..Len(chain)
          BY Facts DEF CombinerInv, QueueSound
        <4> QED
          BY <4>1, <4>2, QueueAssumption DEF InChain
      <3>2. ~Called(c)
        BY <2>2 DEF Called, Waits
      <3>3. got # c
        BY <2>5 DEF Busy
      <3>4. ~Kept(c)
        <4>1. DOMAIN finals = {}
          BY <2>5
        <4> QED
          BY <4>1 DEF Kept
      <3>5. ~Due(c)
        <4>1. batch \in Seq(Node) /\ Len(batch) = 0
          BY <2>1, <2>4 DEF CombTyped
        <4> QED
          BY <4>1, ShortAfter DEF Due
      <3> QED
        BY <2>1, <3>1, <3>2, <3>3, <3>4, <3>5 DEF Placed, Place
    <2>9. scheduled = {}
      BY <2>1, <2>8 DEF CombTyped
    <2> QED
      BY <2>2, <2>3, <2>4, <2>5, <2>7, <2>9 DEF DestroyedEmpty
  <1> QED
    BY <1>1, CombinerSafe, PTL

(***************************************************************************)
(* The refinement.  The exchange of the head queues a closure; the pop's   *)
(* advance past it, or the taking of the final list, starts a batch; every *)
(* other step is a stutter of the serializer, but for a closure that       *)
(* returns and one that is kept for later.                                 *)
(***************************************************************************)
Runs == IF got \in Node THEN <<got>> ELSE batch

LEMMA SameWork ==
  ASSUME Items' = Items, UNCHANGED finals, Runs' = Runs
  PROVE  UNCHANGED Serial!work
  BY DEF Serial!work, Runs

LEMMA SerialBegins == Init => Serial!Init
  <1> SUFFICES ASSUME Init PROVE Serial!Init
    OBVIOUS
  <1>1. Items = <<>> /\ got = Null /\ finals = <<>> /\ batch = <<>> /\ Null \notin Node
    BY QueueBegins, QueueAssumption DEF Init, QueueInit
  <1> QED
    BY <1>1 DEF Serial!Init

\* The queue is left alone, and so are the batch and the final list.
LEMMA QuietSteps ==
  ASSUME CombinerInv, UNCHANGED <<chain, got, finals, batch>>
  PROVE  UNCHANGED Serial!work
  BY SameListSameItems, SameWork DEF Runs

LEMMA PushIsSerial ==
  ASSUME CombinerInv, NEW t \in Thread, Push(t)
  PROVE  (\E c \in Node : Serial!Enqueue(c)) \/ UNCHANGED Serial!work
  <1>1. UNCHANGED <<finals, batch>>
    BY DEF Push
  <1>2. CASE Swap(t) /\ UNCHANGED <<exec, sched>>
    <2>1. push[t].node \in Node /\ Items' = Append(Items, push[t].node)
      BY <1>2, PushSwaps DEF Push, combVars
    <2>2. UNCHANGED got
      BY <1>2 DEF Swap
    <2> QED
      BY <1>1, <2>1, <2>2 DEF Serial!Enqueue
  <1>3. CASE Clear(t, sched[t]) \/ Link(t)
    <2>1. UNCHANGED <<chain, got>>
      BY <1>3 DEF Clear, Link
    <2> QED
      BY <1>1, <2>1, QuietSteps
  <1> QED
    BY <1>2, <1>3 DEF Push

LEMMA PeekIsSerial ==
  ASSUME CombinerInv, NEW t \in Thread, Peek(t)
  PROVE  Serial!RunLater \/ UNCHANGED Serial!work
  <1>1. CASE ~finalTime \/ elems > 1
    <2>1. UNCHANGED <<chain, got, finals, batch>>
      BY <1>1 DEF Peek, StartPop
    <2> QED
      BY <2>1, QuietSteps
  <1>2. CASE ~(~finalTime \/ elems > 1)
    <2>1. finalTime /\ ~(elems > 1) /\ stage[t] = "peek"
      BY <1>2 DEF CombinerInv, CombTyped, Peek
    <2>2. batch' = finals /\ finals' = <<>> /\ UNCHANGED <<chain, got>>
      BY <1>2 DEF Peek, queueVars
    <2>3. finals # <<>> /\ Items = <<>> /\ batch = <<>> /\ got \notin Node
      BY <2>1, FinalTimeIsQuiet
    <2>4. Items' = Items
      BY <2>2, SameListSameItems
    <2> QED
      BY <2>2, <2>3, <2>4 DEF Serial!RunLater
  <1> QED
    BY <1>1, <1>2

LEMMA PoppingIsSerial ==
  ASSUME CombinerInv, NEW t \in Thread, Popping(t)
  PROVE  Serial!RunNext \/ UNCHANGED Serial!work
  <1>1. batch = <<>> /\ got = Null /\ Null \notin Node /\ Handed(got') /\ UNCHANGED <<finals, batch>>
    <2>1. QueueSound /\ PopStep /\ UNCHANGED <<finals, batch>>
      BY DEF CombinerInv, Popping, combVars
    <2> QED
      BY <2>1, PopKeeps, PoppingKeeps, QueueAssumption DEF Handing
  <1>2. CASE got' \notin Node /\ Items' = Items
    BY <1>1, <1>2, SameWork DEF Runs
  <1>3. CASE Items # <<>> /\ got' \in Node /\ got' = Head(Items) /\ Items' = Tail(Items)
    BY <1>1, <1>3 DEF Serial!RunNext
  <1> QED
    BY <1>1, <1>2, <1>3 DEF Handed

LEMMA PoppedIsSerial ==
  ASSUME CombinerInv, NEW t \in Thread, Popped(t)
  PROVE  UNCHANGED Serial!work
  <1>1. batch = <<>> /\ Items' = Items
    BY PoppedKeeps
  <1>2. /\ got' = Null /\ Null \notin Node /\ UNCHANGED finals
        /\ batch' = IF got \in Node THEN <<got>> ELSE batch
    BY QueueAssumption DEF Popped
  <1>3. Runs' = Runs
    BY <1>2 DEF Runs
  <1> QED
    BY <1>1, <1>2, <1>3, SameWork

\* While a closure runs nothing is in the hands of the consumer.
LEMMA RunningIsOut ==
  ASSUME CombinerInv, NEW t \in Thread, stage[t] = "running"
  PROVE  batch # <<>> /\ got \notin Node
  <1>1. batch # <<>> /\ pop = "idle"
    BY ActiveOwns, Alone DEF CombinerInv, Staged
  <1>2. got = Null
    BY <1>1 DEF CombinerInv, QueueSound, PopControl
  <1> QED
    BY <1>1, <1>2, QueueAssumption

LEMMA RunningIsSerial ==
  ASSUME CombinerInv, NEW t \in Thread
  PROVE  /\ ClosureReturns(t) => Serial!Done
         /\ \A c \in Node : Finally(t, c) => Serial!Defer(c)
  <1>1. ASSUME ClosureReturns(t) PROVE Serial!Done
    <2>1. stage[t] = "running" /\ batch' = Tail(batch) /\ UNCHANGED <<finals, got, chain>>
      BY <1>1 DEF ClosureReturns, queueVars
    <2>2. batch # <<>> /\ got \notin Node /\ Items' = Items
      BY <2>1, RunningIsOut, SameListSameItems
    <2> QED
      BY <2>1, <2>2 DEF Serial!Done
  <1>2. ASSUME NEW c \in Node, Finally(t, c) PROVE Serial!Defer(c)
    <2>1. stage[t] = "running" /\ finals' = Append(finals, c) /\ UNCHANGED <<batch, got, chain>>
      BY <1>2 DEF Finally, queueVars
    <2>2. batch # <<>> /\ got \notin Node /\ Items' = Items
      BY <2>1, RunningIsOut, SameListSameItems
    <2> QED
      BY <2>1, <2>2 DEF Serial!Defer
  <1> QED
    BY <1>1, <1>2

(***************************************************************************)
(* For any closures and threads and every interleaving, closures run one   *)
(* at a time in the order of their exchanges, and those kept for later run *)
(* together when nothing else is queued: the combiner is a serializer.     *)
(***************************************************************************)
THEOREM CombinerSerializes == Spec => ImplementsSerializer
  <1>1. CombinerInv /\ [Next]_vars => [Serial!Next]_(Serial!work)
    <2> SUFFICES ASSUME CombinerInv, [Next]_vars PROVE Serial!Next \/ UNCHANGED Serial!work
      OBVIOUS
    <2>1. ASSUME NEW t \in Thread, Works(t) PROVE Serial!Next \/ UNCHANGED Serial!work
      <3>1. CASE Initiate(t) \/ Check(t) \/ Contend(t) \/ Continue(t) \/ Unlock(t) \/ Offload(t)
        <4>1. UNCHANGED <<chain, got, finals, batch>>
          BY <3>1 DEF Initiate, Check, Contend, Continue, Unlock, Offload, queueVars
        <4> QED
          BY <4>1, QuietSteps
      <3>2. CASE Push(t)
        BY <3>2, PushIsSerial DEF Serial!Next
      <3>3. CASE Peek(t)
        BY <3>3, PeekIsSerial DEF Serial!Next
      <3>4. CASE Popping(t)
        BY <3>4, PoppingIsSerial DEF Serial!Next
      <3>5. CASE Popped(t)
        BY <3>5, PoppedIsSerial
      <3>6. CASE ClosureReturns(t)
        BY <3>6, RunningIsSerial DEF Serial!Next
      <3> QED
        BY <2>1, <3>1, <3>2, <3>3, <3>4, <3>5, <3>6 DEF Works
    <2>2. ASSUME NEW t \in Thread, NEW c \in Node, Exec(t, c) \/ Finally(t, c)
          PROVE  Serial!Next \/ UNCHANGED Serial!work
      <3>1. CASE Exec(t, c)
        <4>1. UNCHANGED <<chain, got, finals, batch>>
          BY <3>1 DEF Exec, queueVars
        <4> QED
          BY <4>1, QuietSteps
      <3>2. CASE Finally(t, c)
        BY <3>2, RunningIsSerial DEF Serial!Next
      <3> QED
        BY <2>2, <3>1, <3>2
    <2>3. CASE StartDestroy \/ UNCHANGED vars
      <3>1. UNCHANGED <<chain, got, finals, batch>>
        BY <2>3 DEF StartDestroy, vars, combVars, queueVars
      <3> QED
        BY <3>1, QuietSteps
    <2> QED
      BY <2>1, <2>2, <2>3 DEF Next
  <1> QED
    BY <1>1, SerialBegins, CombinerSafe, PTL DEF Spec, ImplementsSerializer, Serial!Spec

-----------------------------------------------------------------------------
(***************************************************************************)
(* What EveryClosureRuns and FinalsRunWhenQuiet rest on.  While a closure  *)
(* is scheduled, or a thread is at work on the combiner, the combiner is   *)
(* counted and with somebody who will go on with it; and once a final list *)
(* is all that is counted, its time has come.                              *)
(***************************************************************************)
Attended == elems > 0 /\ (Owners # {} \/ offloads = 1)
FinalsDue == finals # <<>> /\ elems = 1 => finalTime

LEMMA CountedPlaces ==
  ASSUME CombinerInv
  PROVE  /\ elems > 0 <=> Items # <<>> \/ Waiting # {} \/ Busy \/ finals # <<>>
         /\ finals # <<>> /\ Busy => elems > 1
  <1>1. /\ Len(Items) \in Nat /\ Cardinality(Waiting) \in Nat /\ Counted
        /\ Items \in Seq(Node) /\ IsFiniteSet(Waiting)
    BY NumbersOf DEF CombinerInv
  <1>2. /\ elems = Len(Items) + Cardinality(Waiting) + (IF Busy THEN 1 ELSE 0)
                   + (IF finals # <<>> THEN 1 ELSE 0)
    BY <1>1 DEF Counted
  <1>3. Items = <<>> <=> Len(Items) = 0
    BY <1>1, EmptySeq
  <1>4. Waiting = {} <=> Cardinality(Waiting) = 0
    BY <1>1, FS_EmptySet
  <1> DEFINE n == Len(Items)
             m == Cardinality(Waiting)
             b == IF Busy THEN 1 ELSE 0
             f == IF finals # <<>> THEN 1 ELSE 0
  <1>5. /\ b \in Nat /\ (b > 0 <=> Busy) /\ f \in Nat /\ (f > 0 <=> finals # <<>>)
        /\ n \in Nat /\ m \in Nat /\ elems = n + m + b + f
    BY <1>1, <1>2
  <1> HIDE DEF n, m, b, f
  <1>6. elems > 0 <=> n > 0 \/ m > 0 \/ b > 0 \/ f > 0
    BY <1>5
  <1>7. f > 0 /\ b > 0 => elems > 1
    BY <1>5
  <1>8. (n > 0 <=> Items # <<>>) /\ (m > 0 <=> Waiting # {})
    BY <1>1, <1>3, <1>4, <1>5 DEF n, m
  <1> QED
    BY <1>5, <1>6, <1>7, <1>8

LEMMA ScheduledCounts ==
  ASSUME CombinerInv, NEW c \in scheduled
  PROVE  elems > 0
  <1>1. /\ QueueSound /\ CombTyped /\ Staged /\ Placed /\ c \in Node
    BY DEF CombinerInv, CombTyped
  <1>2. InChain(c) \/ Called(c) \/ got = c \/ Kept(c) \/ Due(c)
    BY <1>1 DEF Placed, Place
  <1>3. CASE InChain(c)
    <2>1. Items # <<>>
      BY <1>1, <1>3, ChainShows
    <2> QED
      BY <2>1, CountedPlaces
  <1>4. CASE Called(c)
    <2>1. Waiting # {}
      BY <1>4 DEF Called, Waits, Waiting
    <2> QED
      BY <2>1, CountedPlaces
  <1>5. CASE got = c
    <2>1. Busy
      BY <1>1, <1>5 DEF Busy
    <2> QED
      BY <2>1, CountedPlaces
  <1>6. CASE Kept(c)
    <2>1. finals # <<>>
      BY <1>6 DEF Kept
    <2> QED
      BY <2>1, CountedPlaces
  <1>7. CASE Due(c)
    <2>1. batch # <<>>
      BY <1>7 DEF Due, After
    <2>2. Busy
      BY <1>1, <2>1 DEF Staged, Busy
    <2> QED
      BY <2>2, CountedPlaces
  <1> QED
    BY <1>2, <1>3, <1>4, <1>5, <1>6, <1>7

(***************************************************************************)
(* No closure is left behind: from the count in combiner_exec to its start *)
(* a scheduled closure keeps the combiner with a thread or the executor.   *)
(***************************************************************************)
THEOREM NothingStranded ==
  Spec => [](scheduled # {} \/ (\E t \in Thread : stage[t] # "out") => Attended)
  <1>1. CombinerInv => (scheduled # {} \/ (\E t \in Thread : stage[t] # "out") => Attended)
    <2> SUFFICES ASSUME CombinerInv, scheduled # {} \/ (\E t \in Thread : stage[t] # "out")
                 PROVE  Attended
      OBVIOUS
    <2>1. CASE scheduled # {}
      BY <2>1, ScheduledCounts DEF CombinerInv, Holding, Attended
    <2>2. CASE \E t \in Thread : stage[t] # "out"
      BY <2>2, ActiveOwns DEF CombinerInv, Holding, Attended
    <2> QED
      BY <2>1, <2>2
  <1> QED
    BY <1>1, CombinerSafe, PTL

LEMMA DueKept ==
  ASSUME CombinerInv, CombinerInv', FinalsDue, [Next]_vars
  PROVE  FinalsDue'
  <1>1. ASSUME NEW t \in Thread, Works(t) PROVE FinalsDue'
    <2>1. CASE Peek(t)
      BY <2>1 DEF Peek, FinalsDue
    <2>2. CASE Unlock(t)
      <3>1. /\ elems' = elems - 1 /\ finals' = finals
            /\ finalTime' = (elems = 2 /\ finals # <<>>)
        BY <2>2 DEF Unlock
      <3>2. elems \in Nat
        BY DEF CombinerInv, CombTyped
      <3>3. elems' = 1 => elems = 2
        BY <3>1, <3>2
      <3> QED
        BY <3>1, <3>3 DEF FinalsDue
    <2>3. CASE Popping(t)
      BY <2>3 DEF Popping, combVars, FinalsDue
    <2>4. CASE ~(Peek(t) \/ Unlock(t) \/ Popping(t))
      BY <1>1, <2>4 DEF Works, Initiate, Check, Contend, Push, Continue, Popped, ClosureReturns,
         Offload, FinalsDue
    <2> QED
      BY <2>1, <2>2, <2>3, <2>4
  <1>2. ASSUME NEW t \in Thread, NEW c \in Node, Exec(t, c) PROVE FinalsDue'
    <2>1. elems' = elems + 1 /\ finals' = finals /\ elems \in Nat
      BY <1>2 DEF Exec, CombinerInv, CombTyped
    <2>2. finals # <<>> => elems > 0
      BY CountedPlaces
    <2> QED
      BY <2>1, <2>2 DEF FinalsDue
  <1>3. ASSUME NEW t \in Thread, NEW c \in Node, Finally(t, c) PROVE FinalsDue'
    <2>1. /\ stage[t] = "running" /\ finals' = Append(finals, c)
          /\ elems' = IF finals = <<>> THEN elems + 1 ELSE elems
      BY <1>3 DEF Finally
    <2>2. elems \in Nat /\ elems > 0 /\ (finals # <<>> => elems > 1)
      BY <2>1, CountedPlaces DEF CombinerInv, CombTyped, Busy
    <2>3. elems' > 1
      BY <2>1, <2>2
    <2> QED
      BY <2>3 DEF FinalsDue
  <1>4. CASE StartDestroy
    BY <1>4 DEF StartDestroy, FinalsDue
  <1>5. CASE UNCHANGED vars
    BY <1>5 DEF vars, combVars, FinalsDue
  <1> QED
    BY <1>1, <1>2, <1>3, <1>4, <1>5 DEF Next

(***************************************************************************)
(* The final list is not forgotten: as soon as nothing but the list is     *)
(* counted, time_to_execute_final_list is set, whatever was scheduled and  *)
(* run in between.                                                         *)
(***************************************************************************)
THEOREM FinalsNotForgotten == Spec => []FinalsDue
  <1>1. Init => FinalsDue
    BY DEF Init, FinalsDue
  <1>2. CombinerInv /\ CombinerInv' /\ FinalsDue /\ [Next]_vars => FinalsDue'
    BY DueKept
  <1> QED
    BY <1>1, <1>2, CombinerSafe, PTL DEF Spec
=============================================================================
