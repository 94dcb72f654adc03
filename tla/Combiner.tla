------------------------------ MODULE Combiner ------------------------------
(***************************************************************************)
(* grpc_combiner: closures scheduled by any thread run one at a time,      *)
(* without a lock.  `elems' counts what is queued or running; whoever      *)
(* raises it from zero takes the combiner into its ExecCtx and runs what   *)
(* it pops from the gpr_mpscq, or hands the rest to an executor thread.    *)
(* A thread's ExecCtx is the thread here.  One step is one access to       *)
(* shared memory, with what the thread does alone up to its next one.      *)
(***************************************************************************)
EXTENDS Mpscq, FiniteSets

CONSTANTS
  Executor,   \* the threads of the executor; they are never in a hurry
  None,       \* initiating_exec_ctx_or_null is NULL: contended
  MaxElems    \* bound: closures scheduled at a time

ASSUME CombinerAssumption ==
  /\ Executor \subseteq Thread /\ None \notin Thread /\ MaxElems \in Nat

VARIABLES
  elems, orphaned,  \* grpc_combiner.state
  initiator,        \* initiating_exec_ctx_or_null
  finals,           \* final_list
  finalTime,        \* time_to_execute_final_list
  active,           \* threads with the combiner in their ExecCtx
  offloads,         \* times lock->offload waits in the executor
  stage,            \* how far a thread is in grpc_combiner_continue_exec_ctx
  exec, sched,      \* how far it is in combiner_exec, and with which closure
  batch,            \* the closures being run, the running one first
  scheduled,        \* closures scheduled and not yet started
  destroyed

combVars == <<elems, orphaned, initiator, finals, finalTime, active, offloads,
              stage, exec, sched, batch, scheduled, destroyed>>
vars == <<queueVars, combVars>>

Init ==
  /\ QueueInit
  /\ elems = 0 /\ orphaned = FALSE /\ initiator = None
  /\ finals = <<>> /\ finalTime = FALSE
  /\ active = {} /\ offloads = 0
  /\ stage = [t \in Thread |-> "out"]
  /\ exec = [t \in Thread |-> "none"] /\ sched = [t \in Thread |-> Null]
  /\ batch = <<>> /\ scheduled = {} /\ destroyed = FALSE

Step(t, s) == exec' = [exec EXCEPT ![t] = s]
Stage(t, s) == stage' = [stage EXCEPT ![t] = s]

(***************************************************************************)
(* combiner_exec: count the closure, then take the combiner over or mark   *)
(* it contended, then push.  It is called by a thread outside, or by the   *)
(* closure that runs; the caller holds a reference until it returns.       *)
(***************************************************************************)
Exec(t, c) ==
  /\ exec[t] = "none" /\ stage[t] \in {"out", "running"}
  /\ ~orphaned /\ c \notin scheduled /\ Cardinality(scheduled) < MaxElems
  /\ scheduled' = scheduled \cup {c}
  /\ elems' = elems + 1
  /\ Step(t, IF elems = 0 THEN "initiate" ELSE "check")
  /\ sched' = [sched EXCEPT ![t] = c]
  /\ UNCHANGED <<orphaned, initiator, finals, finalTime, active, offloads, stage, batch, destroyed>>
  /\ UNCHANGED queueVars

Initiate(t) ==
  /\ exec[t] = "initiate"
  /\ initiator' = t
  /\ active' = active \cup {t}
  /\ Step(t, "push")
  /\ UNCHANGED <<elems, orphaned, finals, finalTime, offloads, stage, sched, batch, scheduled, destroyed>>
  /\ UNCHANGED queueVars

Check(t) ==
  /\ exec[t] = "check"
  /\ Step(t, IF initiator \notin {None, t} THEN "contend" ELSE "push")
  /\ UNCHANGED <<elems, orphaned, initiator, finals, finalTime, active, offloads, stage, sched, batch, scheduled, destroyed>>
  /\ UNCHANGED queueVars

Contend(t) ==
  /\ exec[t] = "contend"
  /\ initiator' = None
  /\ Step(t, "push")
  /\ UNCHANGED <<elems, orphaned, finals, finalTime, active, offloads, stage, sched, batch, scheduled, destroyed>>
  /\ UNCHANGED queueVars

Push(t) ==
  /\ \/ /\ exec[t] = "push"
        /\ Clear(t, sched[t]) /\ UNCHANGED pop
        /\ Step(t, "pushing") /\ UNCHANGED sched
     \/ /\ Swap(t) /\ UNCHANGED <<exec, sched>>
     \/ /\ Link(t) /\ UNCHANGED pop
        /\ Step(t, "none") /\ sched' = [sched EXCEPT ![t] = Null]
  /\ UNCHANGED <<elems, orphaned, initiator, finals, finalTime, active, offloads, stage, batch, scheduled, destroyed>>

FinallyCountsAll(t, c) ==
  /\ exec[t] = "none" /\ stage[t] = "running"
  /\ c \notin scheduled /\ Cardinality(scheduled) < MaxElems
  /\ scheduled' = scheduled \cup {c}
  /\ elems' = elems + 1
  /\ finals' = Append(finals, c)
  /\ UNCHANGED <<orphaned, initiator, finalTime, active, offloads, stage, exec, sched, batch, destroyed>>
  /\ UNCHANGED queueVars

(***************************************************************************)
(* combiner_finally_exec by the closure that runs.  From elsewhere the     *)
(* code schedules a closure that calls it, which is Exec and this.         *)
(***************************************************************************)
Finally(t, c) ==
  /\ exec[t] = "none" /\ stage[t] = "running"
  /\ c \notin scheduled /\ Cardinality(scheduled) < MaxElems
  /\ scheduled' = scheduled \cup {c}
  /\ elems' = IF finals = <<>> THEN elems + 1 ELSE elems
  /\ finals' = Append(finals, c)
  /\ UNCHANGED <<orphaned, initiator, finalTime, active, offloads, stage, exec, sched, batch, destroyed>>
  /\ UNCHANGED queueVars

OffloadInPlace(t) ==
  /\ UNCHANGED active
  /\ offloads' = offloads + 1
  /\ Stage(t, "out")

(***************************************************************************)
(* grpc_combiner_continue_exec_ctx.  A thread in a hurry leaves contended  *)
(* work to the executor (queue_offload).                                   *)
(***************************************************************************)
QueueOffload(t) ==
  /\ active' = active \ {t}
  /\ offloads' = offloads + 1
  /\ Stage(t, "out")

Continue(t) ==
  /\ stage[t] = "out" /\ exec[t] = "none" /\ t \in active
  /\ \/ /\ t \notin Executor /\ initiator = None
        /\ QueueOffload(t)
     \/ Stage(t, "peek") /\ UNCHANGED <<active, offloads>>
  /\ UNCHANGED <<elems, orphaned, initiator, finals, finalTime, exec, sched, batch, scheduled, destroyed>>
  /\ UNCHANGED queueVars

PeekOnce(t) ==
  /\ stage[t] = "peek"
  /\ IF ~finalTime
     THEN /\ StartPop /\ Stage(t, "popping")
          /\ UNCHANGED <<finals, batch, scheduled>>
     ELSE /\ batch' = finals /\ finals' = <<>>
          /\ scheduled' = scheduled \ {finals[1]}
          /\ Stage(t, "running") /\ UNCHANGED queueVars
  /\ UNCHANGED <<elems, orphaned, initiator, finalTime, active, offloads, exec, sched, destroyed>>

Peek(t) ==
  /\ stage[t] = "peek"
  /\ IF ~finalTime \/ elems > 1
     THEN /\ StartPop /\ Stage(t, "popping")
          /\ UNCHANGED <<finals, batch, scheduled>>
     ELSE /\ batch' = finals /\ finals' = <<>>
          /\ scheduled' = scheduled \ {finals[1]}
          /\ Stage(t, "running") /\ UNCHANGED queueVars
  /\ UNCHANGED <<elems, orphaned, initiator, finalTime, active, offloads, exec, sched, destroyed>>

Popping(t) ==
  /\ stage[t] = "popping" /\ PopStep
  /\ UNCHANGED combVars

PoppedGivesUp(t) ==
  /\ stage[t] = "popping" /\ pop = "done"
  /\ pop' = "idle" /\ got' = Null
  /\ IF got \in Node
     THEN /\ batch' = <<got>> /\ scheduled' = scheduled \ {got}
          /\ Stage(t, "running") /\ UNCHANGED active
     ELSE active' = active \ {t} /\ Stage(t, "out") /\ UNCHANGED <<batch, scheduled>>
  /\ UNCHANGED <<elems, orphaned, initiator, finals, finalTime, offloads, exec, sched, destroyed>>
  /\ UNCHANGED <<head, tail, next, push, chain>>

Popped(t) ==
  /\ stage[t] = "popping" /\ pop = "done"
  /\ pop' = "idle" /\ got' = Null
  /\ IF got \in Node
     THEN /\ batch' = <<got>> /\ scheduled' = scheduled \ {got}
          /\ Stage(t, "running") /\ UNCHANGED <<active, offloads>>
     ELSE QueueOffload(t) /\ UNCHANGED <<batch, scheduled>>
  /\ UNCHANGED <<elems, orphaned, initiator, finals, finalTime, exec, sched, destroyed>>
  /\ UNCHANGED <<head, tail, next, push, chain>>

ClosureReturns(t) ==
  /\ stage[t] = "running" /\ exec[t] = "none"
  /\ batch' = Tail(batch)
  /\ scheduled' = scheduled \ (IF Len(batch) > 1 THEN {batch[2]} ELSE {})
  /\ Stage(t, IF Len(batch) > 1 THEN "running" ELSE "unref")
  /\ UNCHANGED <<elems, orphaned, initiator, finals, finalTime, active, offloads, exec, sched, destroyed>>
  /\ UNCHANGED queueVars

UnlockNoFinals(t) ==
  /\ stage[t] = "unref"
  /\ elems' = elems - 1
  /\ finalTime' = FALSE
  /\ active' = IF elems = 1 THEN active \ {t} ELSE active
  /\ destroyed' = (elems = 1 /\ orphaned)
  /\ Stage(t, "out")
  /\ UNCHANGED <<orphaned, initiator, finals, offloads, exec, sched, batch, scheduled>>
  /\ UNCHANGED queueVars

Unlock(t) ==
  /\ stage[t] = "unref"
  /\ elems' = elems - 1
  /\ finalTime' = (elems = 2 /\ finals # <<>>)
  /\ active' = IF elems = 1 THEN active \ {t} ELSE active
  /\ destroyed' = (elems = 1 /\ orphaned)
  /\ Stage(t, "out")
  /\ UNCHANGED <<orphaned, initiator, finals, offloads, exec, sched, batch, scheduled>>
  /\ UNCHANGED queueVars

(***************************************************************************)
(* The executor runs lock->offload, and the last reference is given back   *)
(* (start_destroy) when no caller of combiner_exec holds one.              *)
(***************************************************************************)
Offload(t) ==
  /\ t \in Executor /\ stage[t] = "out" /\ exec[t] = "none"
  /\ offloads > 0
  /\ offloads' = offloads - 1
  /\ active' = active \cup {t}
  /\ UNCHANGED <<elems, orphaned, initiator, finals, finalTime, stage, exec, sched, batch, scheduled, destroyed>>
  /\ UNCHANGED queueVars

StartDestroyEarly ==
  /\ ~orphaned /\ \A t \in Thread : exec[t] = "none"
  /\ orphaned' = TRUE
  /\ destroyed' = (elems <= 1)
  /\ UNCHANGED <<elems, initiator, finals, finalTime, active, offloads, stage, exec, sched, batch, scheduled>>
  /\ UNCHANGED queueVars

StartDestroy ==
  /\ ~orphaned /\ \A t \in Thread : exec[t] = "none"
  /\ orphaned' = TRUE
  /\ destroyed' = (elems = 0)
  /\ UNCHANGED <<elems, initiator, finals, finalTime, active, offloads, stage, exec, sched, batch, scheduled>>
  /\ UNCHANGED queueVars

(***************************************************************************)
(* What a thread does once it has begun: it finishes combiner_exec, its    *)
(* ExecCtx is flushed (ExecCtx::Flush), closures return, and executor      *)
(* threads pick up what was offloaded.                                     *)
(***************************************************************************)
Works(t) ==
  \/ Initiate(t) \/ Check(t) \/ Contend(t) \/ Push(t)
  \/ Continue(t) \/ Peek(t) \/ Popping(t) \/ Popped(t)
  \/ ClosureReturns(t) \/ Unlock(t) \/ Offload(t)

Next ==
  \/ \E t \in Thread :
       Works(t) \/ \E c \in Node : Exec(t, c) \/ Finally(t, c)
  \/ StartDestroy

Spec == Init /\ [][Next]_vars /\ \A t \in Thread : WF_vars(Works(t))

-----------------------------------------------------------------------------
TypeOK ==
  /\ QueueTypeOK
  /\ elems \in Nat /\ orphaned \in BOOLEAN /\ destroyed \in BOOLEAN
  /\ initiator \in Thread \cup {None}
  /\ finals \in Seq(Node) /\ finalTime \in BOOLEAN /\ batch \in Seq(Node)
  /\ active \subseteq Thread /\ offloads \in Nat
  /\ stage \in [Thread -> {"out", "peek", "popping", "running", "unref"}]
  /\ exec \in [Thread -> {"none", "initiate", "check", "contend", "push", "pushing"}]
  /\ sched \in [Thread -> Node \cup {Null}]
  /\ scheduled \subseteq Node

(***************************************************************************)
(* The combiner is in one place: with the thread that found it idle and is *)
(* about to take it, in one ExecCtx, or in the executor, and nowhere when  *)
(* nothing is counted.  Only its owner pops, runs closures and touches the *)
(* final list, and lock->offload is never scheduled twice.                 *)
(***************************************************************************)
Owners == {t \in Thread : exec[t] = "initiate"} \cup active

OneOwner ==
  /\ Cardinality(Owners) + offloads = IF elems > 0 THEN 1 ELSE 0
  /\ \A t \in Thread : stage[t] # "out" => t \in active

(***************************************************************************)
(* The count is right: closures queued, being pushed or running, and one   *)
(* for a final list that waits.                                            *)
(***************************************************************************)
CountRight ==
  elems = Len(Items) + Cardinality({t \in Thread : exec[t] # "none" /\ push[t].at # "link"})
          + (IF got \in Node \/ \E t \in Thread : stage[t] \in {"running", "unref"} THEN 1 ELSE 0)
          + (IF finals # <<>> THEN 1 ELSE 0)

(***************************************************************************)
(* A combiner is destroyed with nothing left in it: really_destroy and     *)
(* gpr_mpscq_destroy assert the state, the head and the tail.              *)
(***************************************************************************)
DestroyedEmpty ==
  destroyed => /\ elems = 0 /\ head = Stub /\ tail = Stub
               /\ finals = <<>> /\ batch = <<>> /\ offloads = 0 /\ scheduled = {}

(***************************************************************************)
(* Every closure that was queued is run, by one thread or another, however *)
(* many others are.  Those kept for later wait for them, so they run once  *)
(* nobody schedules any more.                                              *)
(***************************************************************************)
Kept(c) == \E i \in DOMAIN finals : finals[i] = c

EveryClosureRuns == \A c \in Node : c \in scheduled /\ ~Kept(c) ~> c \notin scheduled

FinalsRunWhenQuiet == <>[](\A t \in Thread : exec[t] = "none") => []<>(finals = <<>>)

(***************************************************************************)
(* Closures run one at a time and in order; final ones when no other is    *)
(* queued.                                                                 *)
(***************************************************************************)
Serial == INSTANCE Serializer WITH
  Closure <- Node, queue <- Items, later <- finals,
  batch <- IF got \in Node THEN <<got>> ELSE batch

ImplementsSerializer == Serial!Spec
=============================================================================
