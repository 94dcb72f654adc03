---------------------------- MODULE GroupCommit -----------------------------
(***************************************************************************)
(* DBImpl of the leveldb library: writers queue up, the one at the front   *)
(* appends the batches of several to the log and to the memtable, and a    *)
(* background thread turns a full memtable into a table.  After a crash    *)
(* the logs are replayed.  A write is a number, 0 the NULL batch with      *)
(* which CompactRange forces a new memtable.  A step is what one thread    *)
(* does while it holds mutex_, or one file operation without it.           *)
(***************************************************************************)
EXTENDS Naturals, Sequences, FiniteSets

CONSTANTS
  Writer,         \* threads that call DB::Write
  None,           \* imm_ == NULL
  BufferSize,     \* options_.write_buffer_size, in writes
  L0Compact,      \* config::kL0_CompactionTrigger
  L0Stop,         \* config::kL0_StopWritesTrigger
  OldFiles,       \* numbers of level-0 files a database may be opened with
  MaxWrites,      \* bound: calls of Write
  MaxCrashes,     \* bound: crashes
  MaxFaults,      \* bound: failing calls of Sync, NewWritableFile, BuildTable
  MaxAppendFaults \* bound: failing calls of AddRecord

ASSUME SizesAssumption ==
  /\ BufferSize \in Nat \ {0} /\ L0Compact \in Nat \ {0} /\ L0Stop \in Nat
  /\ L0Compact <= L0Stop /\ OldFiles \subseteq Nat
  /\ MaxWrites \in Nat /\ MaxCrashes \in Nat
  /\ MaxFaults \in Nat /\ MaxAppendFaults \in Nat
ASSUME NoneAssumption == \A S \in SUBSET (1..MaxWrites) : None # S

Id == 1..MaxWrites

VARIABLES
  writers,        \* writers_
  at,             \* where each writer is in Write
  job,            \* its batch and sync
  group,          \* what the front writer logs, for how many writers
  mem, imm,       \* the memtables
  logs,           \* the logs recovery would read: their records, how many
                  \* are synced, and the first one after a failed append
  level0, tables, \* NumLevelFiles(0), and the writes in all tables
  bgError, bg,    \* bg_error_, bg_compaction_scheduled_ and how far it is
  inputs,         \* level-0 files being compacted
  calls, crashes, faults, appendFaults,
  acked, synced   \* history: writes reported done, and done with sync

writing == <<writers, at, job, group>>
counts == <<calls, crashes, faults, appendFaults>>
vars == <<writing, mem, imm, logs, level0, tables, bgError, bg, inputs, counts, acked, synced>>

NewLog == [recs |-> <<>>, durable |-> 0, torn |-> 0]
NoGroup == [writes |-> {}, members |-> 0, ok |-> TRUE]
NoJob == [write |-> 0, sync |-> FALSE]

Last == logs[Len(logs)]
WithLast(l) == [logs EXCEPT ![Len(logs)] = l]
First(l, k) == UNION {l.recs[i] : i \in 1..k}
Memory == mem \cup (IF imm = None THEN {} ELSE imm) \cup tables
Front(w) == writers # <<>> /\ Head(writers) = w

Init ==
  /\ writers = <<>> /\ at = [w \in Writer |-> "idle"]
  /\ job = [w \in Writer |-> NoJob] /\ group = NoGroup
  /\ mem = {} /\ imm = None /\ logs = <<NewLog>>
  /\ level0 \in OldFiles /\ tables = {} /\ bgError = FALSE /\ inputs = 0
  /\ bg = IF level0 >= L0Compact THEN "scheduled" ELSE "idle"
  /\ calls = 0 /\ crashes = 0 /\ faults = 0 /\ appendFaults = 0
  /\ acked = {} /\ synced = {}

(***************************************************************************)
(* MaybeScheduleCompaction in the state a step leads to.                   *)
(***************************************************************************)
Work == imm' # None \/ level0' >= L0Compact
Scheduled(b) == bg' = IF b = "idle" /\ ~bgError' /\ Work THEN "scheduled" ELSE b

Wake(as) == [w \in Writer |-> IF as[w] = "room" THEN "awake" ELSE as[w]]

CallAwake(w, sync, batch) ==
  /\ at[w] = "idle" /\ calls < MaxWrites
  /\ calls' = calls + 1
  /\ job' = [job EXCEPT ![w] = [write |-> IF batch THEN calls + 1 ELSE 0, sync |-> sync]]
  /\ writers' = Append(writers, w)
  /\ at' = [at EXCEPT ![w] = "awake"]
  /\ UNCHANGED <<group, mem, imm, logs, level0, tables, bgError, bg, inputs>>
  /\ UNCHANGED <<crashes, faults, appendFaults, acked, synced>>

(***************************************************************************)
(* DBImpl::Write puts the writer into the queue, where it sleeps unless it *)
(* is at the front.                                                        *)
(***************************************************************************)
Call(w, sync, batch) ==
  /\ at[w] = "idle" /\ calls < MaxWrites
  /\ calls' = calls + 1
  /\ job' = [job EXCEPT ![w] = [write |-> IF batch THEN calls + 1 ELSE 0, sync |-> sync]]
  /\ writers' = Append(writers, w)
  /\ at' = [at EXCEPT ![w] = IF writers = <<>> THEN "awake" ELSE "asleep"]
  /\ UNCHANGED <<group, mem, imm, logs, level0, tables, bgError, bg, inputs>>
  /\ UNCHANGED <<crashes, faults, appendFaults, acked, synced>>

(***************************************************************************)
(* The first n writers are told the result and leave the queue, and the    *)
(* new front one is signalled.                                             *)
(***************************************************************************)
Complete(n, ok) ==
  LET told == {writers[i] : i \in 1..n}
      rest == SubSeq(writers, n + 1, Len(writers))
      done == IF ok THEN {j \in {job[w] : w \in told} : j.write # 0} ELSE {}
  IN  /\ writers' = rest
      /\ at' = [w \in Writer |-> IF w \in told THEN "idle"
                                 ELSE IF rest # <<>> /\ Head(rest) = w THEN "awake" ELSE at[w]]
      /\ job' = [w \in Writer |-> IF w \in told THEN NoJob ELSE job[w]]
      /\ group' = NoGroup
      /\ acked' = acked \cup {j.write : j \in done}
      /\ synced' = synced \cup {j.write : j \in {d \in done : d.sync}}

AnyGroups == 1..Len(writers)

(***************************************************************************)
(* BuildBatchGroup: a run of writers from the front, as many as fit, and   *)
(* none that wants a sync if the front one does not.                       *)
(***************************************************************************)
Groups ==
  {n \in 1..Len(writers) :
     \A i \in 1..n : job[writers[i]].sync => job[writers[1]].sync}

Build(w) ==
  IF job[w].write = 0
  THEN Complete(1, TRUE)
  ELSE \E n \in Groups :
         /\ group' = [writes |-> {job[writers[i]].write : i \in 1..n} \ {0},
                      members |-> n, ok |-> TRUE]
         /\ at' = [at EXCEPT ![w] = "logging"]
         /\ UNCHANGED <<writers, job, acked, synced>>

(***************************************************************************)
(* MakeRoomForWrite by the front writer: an earlier error is its own, room *)
(* lets it go on, a full memtable is swapped for a new one with a new log  *)
(* unless the last one or the level-0 files are still being compacted.     *)
(***************************************************************************)
Room(w) == job[w].write # 0 /\ Cardinality(mem) <= BufferSize
BlockedByTables == level0 >= L0Stop

Blocked == imm # None \/ level0 >= L0Stop

Refuse(w) ==
  /\ Front(w) /\ at[w] = "awake" /\ bgError
  /\ Complete(1, FALSE)
  /\ UNCHANGED <<mem, imm, logs, level0, tables, bgError, bg, inputs, counts>>

Proceed(w) ==
  /\ Front(w) /\ at[w] = "awake" /\ ~bgError /\ Room(w)
  /\ Build(w)
  /\ UNCHANGED <<mem, imm, logs, level0, tables, bgError, bg, inputs, counts>>

WaitForRoom(w) ==
  /\ Front(w) /\ at[w] = "awake" /\ ~bgError /\ ~Room(w) /\ Blocked
  /\ at' = [at EXCEPT ![w] = "room"]
  /\ UNCHANGED <<writers, job, group, mem, imm, logs, level0, tables, bgError, bg, inputs>>
  /\ UNCHANGED <<counts, acked, synced>>

SwitchDroppingLog(w) ==
  /\ Front(w) /\ at[w] = "awake" /\ ~bgError /\ ~Room(w) /\ ~Blocked
  /\ logs' = <<NewLog>>
  /\ imm' = mem /\ mem' = {}
  /\ UNCHANGED <<level0, tables, bgError, inputs, counts>>
  /\ Scheduled(bg)
  /\ Build(w)

SwitchMemtable(w) ==
  /\ Front(w) /\ at[w] = "awake" /\ ~bgError /\ ~Room(w) /\ ~Blocked
  /\ logs' = Append(logs, NewLog)
  /\ imm' = mem /\ mem' = {}
  /\ UNCHANGED <<level0, tables, bgError, inputs, counts>>
  /\ Scheduled(bg)
  /\ Build(w)

NoNewLog(w) ==
  /\ Front(w) /\ at[w] = "awake" /\ ~bgError /\ ~Room(w) /\ ~Blocked
  /\ faults < MaxFaults /\ faults' = faults + 1
  /\ Complete(1, FALSE)
  /\ UNCHANGED <<mem, imm, logs, level0, tables, bgError, bg, inputs>>
  /\ UNCHANGED <<calls, crashes, appendFaults>>

(***************************************************************************)
(* Without the mutex the front writer appends the record and syncs it.  A  *)
(* failed append leaves part of a record, or none where the log's writer   *)
(* counts one: what is appended after it may not be readable.              *)
(***************************************************************************)
AddRecord(w) ==
  /\ at[w] = "logging"
  /\ logs' = WithLast([Last EXCEPT !.recs = Append(@, group.writes)])
  /\ at' = [at EXCEPT ![w] = IF job[w].sync THEN "syncing" ELSE "insert"]
  /\ UNCHANGED <<writers, job, group, mem, imm, level0, tables, bgError, bg, inputs>>
  /\ UNCHANGED <<counts, acked, synced>>

AppendFails(w) ==
  /\ at[w] = "logging"
  /\ appendFaults < MaxAppendFaults /\ appendFaults' = appendFaults + 1
  /\ logs' = WithLast([Last EXCEPT !.torn = IF @ = 0 THEN Len(Last.recs) + 1 ELSE @])
  /\ group' = [group EXCEPT !.ok = FALSE]
  /\ at' = [at EXCEPT ![w] = "insert"]
  /\ UNCHANGED <<writers, job, mem, imm, level0, tables, bgError, bg, inputs>>
  /\ UNCHANGED <<calls, crashes, faults, acked, synced>>

Sync(w) ==
  /\ at[w] = "syncing"
  /\ logs' = WithLast([Last EXCEPT !.durable = Len(Last.recs)])
  /\ at' = [at EXCEPT ![w] = "insert"]
  /\ UNCHANGED <<writers, job, group, mem, imm, level0, tables, bgError, bg, inputs>>
  /\ UNCHANGED <<counts, acked, synced>>

(***************************************************************************)
(* The record may or may not be on the disk: every later write fails.      *)
(***************************************************************************)
SyncFails(w) ==
  /\ at[w] = "syncing"
  /\ faults < MaxFaults /\ faults' = faults + 1
  /\ bgError' = TRUE
  /\ Complete(group.members, FALSE)
  /\ UNCHANGED <<mem, imm, logs, level0, tables, bg, inputs, calls, crashes, appendFaults>>

Insert(w) ==
  /\ at[w] = "insert"
  /\ mem' = IF group.ok THEN mem \cup group.writes ELSE mem
  /\ Complete(group.members, group.ok)
  /\ UNCHANGED <<imm, logs, level0, tables, bgError, bg, inputs, counts>>

(***************************************************************************)
(* How many level-0 files a compaction takes: one and those it overlaps,   *)
(* so any number of them, and none (no compaction) below the trigger.      *)
(***************************************************************************)
PickCompaction == IF level0 >= L0Compact THEN 1..level0 ELSE {0}

(***************************************************************************)
(* BackgroundCall: nothing after an error; a memtable to be saved goes     *)
(* before a compaction of level 0, and is saved in the middle of one.      *)
(***************************************************************************)
BackgroundCall ==
  /\ bg = "scheduled"
  /\ \/ bgError /\ bg' = "idle" /\ at' = Wake(at) /\ UNCHANGED inputs
     \/ ~bgError /\ imm # None /\ bg' = "table" /\ UNCHANGED <<at, inputs>>
     \/ ~bgError /\ imm = None /\ bg' = "major" /\ inputs' \in PickCompaction /\ UNCHANGED at
  /\ UNCHANGED <<writers, job, group, mem, imm, logs, level0, tables, bgError, counts, acked, synced>>

CompactKeepingLogs(b) ==
  /\ imm # None
  /\ tables' = tables \cup imm /\ imm' = None
  /\ level0' \in IF imm = {} THEN {level0} ELSE {level0, level0 + 1}
  /\ logs' = logs
  /\ at' = Wake(at)
  /\ UNCHANGED <<writers, job, group, mem, bgError, inputs, counts, acked, synced>>
  /\ Scheduled(b)

CompactMemTable(b) ==
  /\ imm # None
  /\ tables' = tables \cup imm /\ imm' = None
  /\ level0' \in IF imm = {} THEN {level0} ELSE {level0, level0 + 1}
  /\ logs' = <<Last>>
  /\ at' = Wake(at)
  /\ UNCHANGED <<writers, job, group, mem, bgError, inputs, counts, acked, synced>>
  /\ Scheduled(b)

SaveMemTable == bg = "table" /\ CompactMemTable("idle")
SaveBetween == bg = "major" /\ CompactMemTable("major")

MajorDone ==
  /\ bg = "major"
  /\ level0' = level0 - inputs /\ inputs' = 0
  /\ at' = Wake(at)
  /\ UNCHANGED <<writers, job, group, mem, imm, logs, tables, bgError, counts, acked, synced>>
  /\ Scheduled("idle")

BackgroundFailsSilently ==
  /\ bg \in {"table", "major"}
  /\ faults < MaxFaults /\ faults' = faults + 1
  /\ bgError' = TRUE /\ bg' = "idle" /\ inputs' = 0
  /\ UNCHANGED <<writers, at, job, group, mem, imm, logs, level0, tables>>
  /\ UNCHANGED <<calls, crashes, appendFaults, acked, synced>>

(***************************************************************************)
(* A table that cannot be written stops the background work, but the       *)
(* memtable failing in the middle of a compaction does not end that.       *)
(***************************************************************************)
BackgroundFails ==
  /\ bg \in {"table", "major"}
  /\ faults < MaxFaults /\ faults' = faults + 1
  /\ bgError' = TRUE
  /\ \/ bg' = "idle" /\ inputs' = 0
     \/ bg = "major" /\ imm # None /\ UNCHANGED <<bg, inputs>>
  /\ at' = Wake(at)
  /\ UNCHANGED <<writers, job, group, mem, imm, logs, level0, tables>>
  /\ UNCHANGED <<calls, crashes, appendFaults, acked, synced>>

(***************************************************************************)
(* The process dies, alone or with the machine, and the database is opened *)
(* again (Recover, RecoverLogFile): of every log a run of records is read, *)
(* all that were written or all that were synced and perhaps more, but     *)
(* after a failed append perhaps nothing, and they become tables.          *)
(***************************************************************************)
Readable(l, machine) ==
  {k \in 0..Len(l.recs) :
     \/ (IF machine THEN l.durable ELSE Len(l.recs)) <= k
     \/ l.torn # 0 /\ l.torn - 1 <= k}

Crash(machine) ==
  /\ crashes < MaxCrashes /\ crashes' = crashes + 1
  /\ \E read \in [DOMAIN logs -> 0..MaxWrites] :
       /\ \A i \in DOMAIN logs : read[i] \in Readable(logs[i], machine)
       /\ tables' = tables \cup UNION {First(logs[i], read[i]) : i \in DOMAIN logs}
       /\ level0' = level0 + Cardinality({i \in DOMAIN logs : read[i] > 0})
  /\ acked' = IF machine THEN synced ELSE acked
  /\ writers' = <<>> /\ at' = [w \in Writer |-> "idle"]
  /\ job' = [w \in Writer |-> NoJob] /\ group' = NoGroup
  /\ mem' = {} /\ imm' = None /\ logs' = <<NewLog>> /\ inputs' = 0
  /\ bgError' = FALSE
  /\ Scheduled("idle")
  /\ UNCHANGED <<calls, faults, appendFaults, synced>>

Steps(w) ==
  \/ Refuse(w) \/ Proceed(w) \/ WaitForRoom(w) \/ SwitchMemtable(w) \/ NoNewLog(w)
  \/ AddRecord(w) \/ AppendFails(w) \/ Sync(w) \/ SyncFails(w) \/ Insert(w)

Background == BackgroundCall \/ SaveMemTable \/ SaveBetween \/ MajorDone \/ BackgroundFails

Next ==
  \/ \E w \in Writer : Steps(w) \/ \E sync, batch \in BOOLEAN : Call(w, sync, batch)
  \/ Background
  \/ \E machine \in BOOLEAN : Crash(machine)

(***************************************************************************)
(* Threads that can run do, the background thread included.                *)
(***************************************************************************)
Spec == Init /\ [][Next]_vars /\ WF_vars(Background) /\ \A w \in Writer : WF_vars(Steps(w))

-----------------------------------------------------------------------------
LogOK(l) ==
  /\ l.recs \in Seq(SUBSET Id) /\ l.durable \in 0..Len(l.recs) /\ l.torn \in Nat

TypeOK ==
  /\ writers \in Seq(Writer)
  /\ at \in [Writer -> {"idle", "asleep", "awake", "room", "logging", "syncing", "insert"}]
  /\ job \in [Writer -> [write : Id \cup {0}, sync : BOOLEAN]]
  /\ group.writes \subseteq Id /\ group.members \in 0..Len(writers) /\ group.ok \in BOOLEAN
  /\ mem \subseteq Id /\ imm \in (SUBSET Id) \cup {None} /\ tables \subseteq Id
  /\ Len(logs) \in 1..2 /\ \A i \in DOMAIN logs : LogOK(logs[i])
  /\ level0 \in Nat /\ bgError \in BOOLEAN /\ inputs \in 0..level0
  /\ bg \in {"idle", "scheduled", "table", "major"}
  /\ calls \in 0..MaxWrites /\ acked \subseteq Id /\ synced \subseteq acked

(***************************************************************************)
(* What a crash at this moment is sure to leave: the tables and, of each   *)
(* log, the records before a failed append, if the machine dies only the   *)
(* synced ones.                                                            *)
(***************************************************************************)
Min2(a, b) == IF a < b THEN a ELSE b
Sure(l, k) == First(l, IF l.torn = 0 THEN k ELSE Min2(k, l.torn - 1))
Survives(machine) ==
  tables \cup UNION {Sure(logs[i], IF machine THEN logs[i].durable ELSE Len(logs[i].recs))
                       : i \in DOMAIN logs}

(***************************************************************************)
(* "If it is just the process that crashes, no writes will be lost even if *)
(* sync==false" (options.h): whatever was reported done is recovered,      *)
(* whether it is still in the log, between two memtables or in a table.    *)
(***************************************************************************)
AckedSurvive == acked \subseteq Survives(FALSE)

(***************************************************************************)
(* A write with sync==true survives the machine: also when another thread  *)
(* logged it, and when the memtable and the log were switched since.       *)
(***************************************************************************)
SyncedSurvive == synced \subseteq Survives(TRUE)

(***************************************************************************)
(* What was reported done can be read, before and after a crash.           *)
(***************************************************************************)
AckedVisible == acked \subseteq Memory

(***************************************************************************)
(* One writer logs at a time, the one at the front, and everybody else     *)
(* sleeps; the group it logs is still the run of writers it was built for. *)
(***************************************************************************)
OneLogger ==
  /\ \A w \in Writer : at[w] \notin {"idle", "asleep"} => Front(w)
  /\ writers # <<>> => at[writers[1]] \notin {"idle", "asleep"}
  /\ group.writes = {job[writers[i]].write : i \in 1..group.members} \ {0}

(***************************************************************************)
(* Every call of Write returns, whatever is full and whatever fails: the   *)
(* next front writer is signalled, and the background thread signals one   *)
(* that waits for room.                                                    *)
(***************************************************************************)
EveryWriteReturns == \A w \in Writer : at[w] # "idle" ~> at[w] = "idle"
=============================================================================
