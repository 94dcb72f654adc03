------------------------- MODULE GroupCommitProofs --------------------------
(***************************************************************************)
(* The write path of DBImpl for any number of writers, writes, crashes and *)
(* faults.  QueueInv is what the mutex and the queue of writers guarantee: *)
(* nobody is queued twice, only the front writer works, and its group is   *)
(* still the front of the queue.  DataInv says where a write is at every   *)
(* point of its way from the log over the memtables to a table.            *)
(***************************************************************************)
EXTENDS GroupCommit, SequenceTheorems, FiniteSetTheorems, TLAPS

Working == {"logging", "syncing", "insert"}
Queued(w) == \E i \in DOMAIN writers : writers[i] = w
Group == [writes : SUBSET Id, members : Nat, ok : BOOLEAN]

QueueTyped ==
  /\ writers \in Seq(Writer)
  /\ at \in [Writer -> {"idle", "asleep", "awake", "room", "logging", "syncing", "insert"}]
  /\ job \in [Writer -> [write : Id \cup {0}, sync : BOOLEAN]]
  /\ group \in Group /\ group.members \in 0..Len(writers)

QueuedOnce == \A i, j \in DOMAIN writers : writers[i] = writers[j] => i = j

GroupLed ==
  /\ \A w \in Writer : at[w] \in Working => group.members > 0
  /\ \A i \in 1..group.members : job[writers[i]].sync => job[writers[1]].sync

QueueInv ==
  /\ QueueTyped /\ QueuedOnce /\ OneLogger /\ GroupLed
  /\ \A w \in Writer : at[w] = "idle" <=> ~Queued(w)

Log == [recs : Seq(SUBSET Id), durable : Nat, torn : Nat]

StoreTyped ==
  /\ mem \subseteq Id /\ imm \in (SUBSET Id) \cup {None} /\ tables \subseteq Id
  /\ logs \in Seq(Log) /\ Len(logs) \in 1..2
  /\ \A i \in DOMAIN logs : logs[i].durable <= Len(logs[i].recs)
  /\ imm = None => Len(logs) = 1

CountsTyped ==
  /\ level0 \in Nat /\ bgError \in BOOLEAN /\ inputs \in 0..level0
  /\ bg \in {"idle", "scheduled", "table", "major"}
  /\ calls \in 0..MaxWrites /\ acked \subseteq Id /\ synced \subseteq acked
  /\ appendFaults \in Nat /\ crashes \in Nat

ControlInv == QueueInv /\ StoreTyped /\ CountsTyped

InLog(l, k, x) == \E j \in 1..k : x \in l.recs[j]
Written(l, x) == InLog(l, Len(l.recs), x)
Synced(l, x) == InLog(l, l.durable, x)
Pending(x) == x \in group.writes /\ \E w \in Writer : at[w] \in {"syncing", "insert"}

(***************************************************************************)
(* A write that was reported done is in a table or in a log (Reported), an *)
(* older log holds nothing that is not in the memtable being saved or in a *)
(* table (OldLogSaved), the last log nothing that is not in the memtable,  *)
(* in a table or about to be inserted, unless syncing it failed            *)
(* (LastLogHeld), and a group that is inserted is in the last log, synced  *)
(* if its leader asked for that (GroupLogged).                             *)
(***************************************************************************)
Reported ==
  /\ \A x \in acked : x \in tables \/ \E i \in DOMAIN logs : Written(logs[i], x)
  /\ \A x \in synced : x \in tables \/ \E i \in DOMAIN logs : Synced(logs[i], x)

OldLogSaved ==
  \A i \in 1..(Len(logs) - 1), x \in Id :
    Written(logs[i], x) => x \in tables \/ x \in imm

LastLogHeld ==
  bgError \/ \A x \in Id : Written(Last, x) => x \in mem \/ x \in tables \/ Pending(x)

GroupLogged ==
  \A w \in Writer :
    /\ at[w] \in {"syncing", "insert"} => \A x \in group.writes : Written(Last, x)
    /\ at[w] = "insert" /\ job[w].sync => \A x \in group.writes : Synced(Last, x)

NothingTorn ==
  group.ok /\ \A i \in DOMAIN logs : logs[i].torn = 0

DataInv == Reported /\ OldLogSaved /\ LastLogHeld /\ GroupLogged /\ NothingTorn

-----------------------------------------------------------------------------
(***************************************************************************)
(* The queue of writers.                                                   *)
(***************************************************************************)
LEMMA HeadOf ==
  ASSUME NEW S, NEW s \in Seq(S)
  PROVE  /\ Len(s) \in Nat /\ DOMAIN s = 1..Len(s)
         /\ s # <<>> <=> Len(s) > 0
         /\ Len(s) > 0 => Head(s) = s[1] /\ 1 \in 1..Len(s)
  OBVIOUS

LEMMA AppendOf ==
  ASSUME NEW S, NEW s \in Seq(S), NEW e \in S
  PROVE  /\ Append(s, e) \in Seq(S) /\ Len(Append(s, e)) = Len(s) + 1
         /\ \A i \in 1..Len(s) : Append(s, e)[i] = s[i]
         /\ Append(s, e)[Len(s) + 1] = e
  OBVIOUS

LEMMA QueueFacts ==
  ASSUME QueueInv
  PROVE  /\ Len(writers) \in Nat /\ DOMAIN writers = 1..Len(writers)
         /\ \A i \in DOMAIN writers : writers[i] \in Writer /\ job[writers[i]].write \in Id \cup {0}
         /\ group.members \in Nat /\ 1..group.members \subseteq DOMAIN writers
         /\ \A w : Front(w) <=> Len(writers) > 0 /\ writers[1] = w
         /\ DOMAIN at = Writer /\ DOMAIN job = Writer
  <1>1. /\ writers \in Seq(Writer) /\ group.members \in 0..Len(writers)
        /\ job \in [Writer -> [write : Id \cup {0}, sync : BOOLEAN]]
    BY DEF QueueInv, QueueTyped
  <1>2. \A i \in DOMAIN writers : writers[i] \in Writer
    BY <1>1, ElementOfSeq
  <1>3. \A w : Front(w) <=> Len(writers) > 0 /\ writers[1] = w
    BY <1>1 DEF Front
  <1> QED
    BY <1>1, <1>2, <1>3 DEF QueueInv, QueueTyped

LEMMA Completing ==
  ASSUME QueueInv, NEW n \in 1..Len(writers), NEW ok \in BOOLEAN, Complete(n, ok)
  PROVE  /\ QueueInv' /\ group' = NoGroup /\ \A w \in Writer : at'[w] \notin Working
         /\ \A x : x \in acked' <=>
              \/ x \in acked
              \/ ok /\ x # 0 /\ \E i \in 1..n : x = job[writers[i]].write
         /\ \A x : x \in synced' <=>
              \/ x \in synced
              \/ ok /\ x # 0 /\ \E i \in 1..n : x = job[writers[i]].write /\ job[writers[i]].sync
  <1> USE QueueFacts
  <1> DEFINE told == {writers[i] : i \in 1..n}
             rest == SubSeq(writers, n + 1, Len(writers))
             done == IF ok THEN {j \in {job[w] : w \in told} : j.write # 0} ELSE {}
  <1>1. /\ writers' = rest
        /\ at' = [w \in Writer |-> IF w \in told THEN "idle"
                                   ELSE IF rest # <<>> /\ Head(rest) = w THEN "awake" ELSE at[w]]
        /\ job' = [w \in Writer |-> IF w \in told THEN NoJob ELSE job[w]]
        /\ group' = NoGroup
        /\ acked' = acked \cup {j.write : j \in done}
        /\ synced' = synced \cup {j.write : j \in {d \in done : d.sync}}
    BY DEF Complete
  <1>2. writers \in Seq(Writer)
    BY DEF QueueInv, QueueTyped
  <1>3. /\ rest \in Seq(Writer) /\ Len(rest) = Len(writers) - n
        /\ \A i \in 1..Len(rest) : rest[i] = writers[n + i] /\ n + i \in DOMAIN writers
        /\ Len(rest) \in Nat
    <2> DEFINE l == Len(writers)
    <2>1. l \in Nat /\ n + 1 \in Int /\ l \in Int /\ n \in 1..l
      BY <1>2
    <2>2. \A i \in (n + 1)..l : writers[i] \in Writer
      BY <1>2, <2>1
    <2> HIDE DEF l
    <2>3. /\ SubSeq(writers, n + 1, l) \in Seq(Writer)
          /\ Len(SubSeq(writers, n + 1, l)) = IF n + 1 <= l THEN l - (n + 1) + 1 ELSE 0
          /\ \A i \in 1..(l - (n + 1) + 1) : SubSeq(writers, n + 1, l)[i] = writers[(n + 1) + i - 1]
      BY <2>1, <2>2, SubSeqProperties
    <2>4. SubSeq(writers, n + 1, l) = rest
      BY DEF l
    <2> HIDE DEF rest
    <2>5. l - (n + 1) + 1 = l - n /\ Len(rest) = l - n /\ l - n \in Nat
      <3>1. l - (n + 1) + 1 = l - n /\ l - n \in Nat /\ (n + 1 > l => l - n = 0)
        BY <2>1
      <3>2. Len(rest) = IF n + 1 <= l THEN l - (n + 1) + 1 ELSE 0
        BY <2>3, <2>4
      <3>3. CASE n + 1 <= l
        BY <3>1, <3>2, <3>3
      <3>4. CASE ~(n + 1 <= l)
        <4>1. l - n = 0
          BY <2>1, <3>4
        <4> QED
          BY <3>1, <3>2, <3>4, <4>1
      <3> QED
        BY <3>3, <3>4
    <2>6. \A i \in 1..(l - n) : (n + 1) + i - 1 = n + i /\ n + i \in 1..l
      BY <2>1
    <2>7. rest \in Seq(Writer) /\ \A i \in 1..(l - n) : rest[i] = writers[n + i]
      BY <2>3, <2>4, <2>5, <2>6
    <2>8. DOMAIN writers = 1..l
      BY DEF l
    <2>9. Len(rest) = Len(writers) - n
      BY <2>5 DEF l
    <2> QED
      BY <2>5, <2>6, <2>7, <2>8, <2>9
  <1>4. rest # <<>> => Len(rest) \in Nat \ {0} /\ Head(rest) = rest[1]
    <2>1. rest \in Seq(Writer)
      BY <1>3
    <2> HIDE DEF rest, done, told
    <2> QED
      BY <2>1, HeadOf
  <1>t. \A i \in 1..n : writers[i] \in told
    OBVIOUS
  <1>u. \A w \in told : \E i \in 1..n : w = writers[i]
    OBVIOUS
  <1>v. \A j : j \in done <=> ok /\ j.write # 0 /\ \E i \in 1..n : j = job[writers[i]]
    <2>1. \A j : j \in {job[w] : w \in told} <=> \E i \in 1..n : j = job[writers[i]]
      BY <1>t, <1>u
    <2> QED
      BY <2>1
  <1> HIDE DEF done
  <1>5. \A x : x \in {j.write : j \in done} <=>
          ok /\ x # 0 /\ \E i \in 1..n : x = job[writers[i]].write
    BY <1>v
  <1>6. \A x : x \in {j.write : j \in {d \in done : d.sync}} <=>
          ok /\ x # 0 /\ \E i \in 1..n : x = job[writers[i]].write /\ job[writers[i]].sync
    BY <1>v
  <1> HIDE DEF rest, told
  <1>7. \A w \in Writer : w \in told <=> \E i \in 1..n : writers[i] = w
    BY <1>t, <1>u
  <1>8. /\ Len(rest) \in Nat /\ DOMAIN rest = 1..Len(rest)
        /\ \A i \in 1..Len(rest) : rest[i] \in Writer /\ rest[i] \notin told
    <2>1. \A i \in 1..Len(rest), j \in 1..n : n + i # j /\ j \in DOMAIN writers
      BY <1>2, <1>3
    <2>2. \A i \in 1..Len(rest), j \in 1..n : writers[n + i] # writers[j]
      BY <1>3, <2>1 DEF QueueInv, QueuedOnce
    <2>3. \A i \in 1..Len(rest) : rest[i] \in Writer /\ rest[i] \notin told
      BY <1>3, <1>7, <2>2
    <2>4. DOMAIN rest = 1..Len(rest)
      BY <1>3
    <2> QED
      BY <1>3, <2>3, <2>4
  <1>9. \A w \in Writer : w \notin told => (Queued(w) <=> \E i \in 1..Len(rest) : rest[i] = w)
    <2>1. ASSUME NEW w \in Writer, w \notin told, NEW i \in DOMAIN writers, writers[i] = w
          PROVE  \E k \in 1..Len(rest) : rest[k] = w
      <3>1. i > n
        BY <1>7, <2>1
      <3>2. i - n \in 1..Len(rest) /\ n + (i - n) = i
        BY <1>2, <1>3, <3>1
      <3> QED
        BY <1>3, <2>1, <3>2
    <2> QED
      BY <1>3, <2>1 DEF Queued
  <1>10. \A w \in Writer :
           /\ w \in told => at'[w] = "idle"
           /\ w \notin told /\ Len(rest) > 0 /\ rest[1] = w => at'[w] = "awake"
           /\ w \notin told /\ ~(Len(rest) > 0 /\ rest[1] = w) => at'[w] = at[w]
    BY <1>1, <1>4, <1>8
  <1>11. \A w \in Writer : w \notin told => at[w] \in {"idle", "asleep"}
    <2> SUFFICES ASSUME NEW w \in Writer, at[w] \notin {"idle", "asleep"} PROVE w \in told
      OBVIOUS
    <2>1. writers[1] = w
      BY DEF QueueInv, OneLogger
    <2>2. 1 \in 1..n
      BY <1>2
    <2> QED
      BY <1>7, <2>1, <2>2
  <1>12. \A w \in Writer : at'[w] \notin Working /\ at'[w] \in {"idle", "asleep", "awake"}
    BY <1>10, <1>11 DEF Working
  <1>13. QueueTyped'
    <2>1. group' \in Group /\ group'.members = 0 /\ group'.members \in 0..Len(writers')
      BY <1>1, <1>8 DEF NoGroup, Group
    <2>2. at' \in [Writer -> {"idle", "asleep", "awake", "room", "logging", "syncing", "insert"}]
      BY <1>1, <1>12
    <2>3. job' \in [Writer -> [write : Id \cup {0}, sync : BOOLEAN]]
      <3>1. job \in [Writer -> [write : Id \cup {0}, sync : BOOLEAN]]
        BY DEF QueueInv, QueueTyped
      <3>2. NoJob \in [write : Id \cup {0}, sync : BOOLEAN]
        BY DEF NoJob
      <3> QED
        BY <1>1, <3>1, <3>2
    <2> QED
      BY <1>1, <1>3, <2>1, <2>2, <2>3 DEF QueueTyped
  <1>14. QueuedOnce'
    <2>1. \A i, j \in 1..Len(rest) : n + i = n + j => i = j
      BY <1>8
    <2>a. \A i, j \in DOMAIN writers : writers[i] = writers[j] => i = j
      BY DEF QueueInv, QueuedOnce
    <2>2. ASSUME NEW i \in 1..Len(rest), NEW j \in 1..Len(rest), rest[i] = rest[j]
          PROVE  n + i = n + j
      <3>1. n + i \in DOMAIN writers /\ n + j \in DOMAIN writers
        BY <1>3
      <3>2. writers[n + i] = writers[n + j]
        BY <1>3, <2>2
      <3> HIDE DEF rest
      <3> QED
        BY <2>a, <3>1, <3>2
    <2>3. \A i, j \in 1..Len(rest) : rest[i] = rest[j] => i = j
      BY <2>1, <2>2
    <2> QED
      BY <1>1, <1>8, <2>3 DEF QueuedOnce
  <1>15. \A w \in Writer : (at[w] = "idle" <=> ~Queued(w))'
    <2> SUFFICES ASSUME NEW w \in Writer
                 PROVE  at'[w] = "idle" <=> ~ \E i \in 1..Len(rest) : rest[i] = w
      BY <1>1, <1>8 DEF Queued
    <2>1. CASE w \in told
      BY <1>8, <1>10, <2>1
    <2>2. CASE w \notin told /\ Len(rest) > 0 /\ rest[1] = w
      <3>1. 1 \in 1..Len(rest)
        BY <1>8, <2>2
      <3> QED
        BY <1>10, <2>2, <3>1
    <2>3. CASE w \notin told /\ ~(Len(rest) > 0 /\ rest[1] = w)
      BY <1>9, <1>10, <2>3 DEF QueueInv
    <2> QED
      BY <2>1, <2>2, <2>3
  <1>16. OneLogger'
    <2>1. \A w \in Writer : at'[w] \notin {"idle", "asleep"} => Front(w)'
      BY <1>1, <1>4, <1>8, <1>10, <1>11 DEF Front
    <2>2. writers' # <<>> => at'[writers'[1]] \notin {"idle", "asleep"}
      <3> SUFFICES ASSUME rest # <<>> PROVE at'[rest[1]] = "awake"
        BY <1>1
      <3>1. 1 \in 1..Len(rest) /\ Len(rest) > 0
        BY <1>4
      <3> QED
        BY <1>8, <1>10, <3>1
    <2>3. (group.writes = {job[writers[i]].write : i \in 1..group.members} \ {0})'
      <3>1. group'.writes = {} /\ group'.members = 0
        BY <1>1 DEF NoGroup
      <3>2. 1..0 = {}
        OBVIOUS
      <3> QED
        BY <3>1, <3>2
    <2> QED
      BY <2>1, <2>2, <2>3 DEF OneLogger
  <1>17. GroupLed'
    <2>1. group'.members = 0
      BY <1>1 DEF NoGroup
    <2> QED
      BY <1>12, <2>1 DEF GroupLed
  <1> QED
    BY <1>1, <1>5, <1>6, <1>12, <1>13, <1>14, <1>15, <1>16, <1>17 DEF QueueInv

LEMMA FrontOnly ==
  ASSUME QueueInv, NEW w \in Writer, at[w] \notin {"idle", "asleep"}
  PROVE  /\ Front(w) /\ writers[1] = w /\ 1 \in DOMAIN writers
         /\ \A v \in Writer : v # w => at[v] \in {"idle", "asleep"}
  <1>1. /\ Front(w) /\ Len(writers) > 0 /\ writers[1] = w
        /\ Len(writers) \in Nat /\ DOMAIN writers = 1..Len(writers)
    BY QueueFacts DEF QueueInv, OneLogger
  <1>2. ASSUME NEW v \in Writer, at[v] \notin {"idle", "asleep"} PROVE v = w
    BY <1>1, <1>2, QueueFacts DEF QueueInv, OneLogger
  <1> QED
    BY <1>1, <1>2

LEMMA Joining ==
  ASSUME QueueInv, calls \in Nat, NEW w \in Writer, NEW sync \in BOOLEAN, NEW batch \in BOOLEAN,
         Call(w, sync, batch)
  PROVE  QueueInv'
  <1> DEFINE n == Len(writers)
  <1>1. /\ writers \in Seq(Writer) /\ n \in Nat /\ DOMAIN writers = 1..n
        /\ writers' \in Seq(Writer) /\ Len(writers') = n + 1 /\ DOMAIN writers' = 1..(n + 1)
        /\ \A i \in 1..n : writers'[i] = writers[i]
        /\ writers'[n + 1] = w
        /\ at[w] = "idle" /\ group' = group
        /\ writers = <<>> <=> n = 0
    BY DEF Call, QueueInv, QueueTyped
  <1>2. \A i \in 1..n : writers[i] # w
    BY <1>1 DEF QueueInv, Queued
  <1>3. /\ \A v \in Writer : v # w => at'[v] = at[v] /\ job'[v] = job[v]
        /\ at'[w] = IF n = 0 THEN "awake" ELSE "asleep"
        /\ job' \in [Writer -> [write : Id \cup {0}, sync : BOOLEAN]]
        /\ at' \in [Writer -> {"idle", "asleep", "awake", "room", "logging", "syncing", "insert"}]
    BY <1>1, SizesAssumption DEF Call, QueueInv, QueueTyped, Id
  <1>4. \A i \in 1..n : writers[i] \in Writer /\ job'[writers'[i]] = job[writers[i]]
                        /\ at'[writers'[i]] = at[writers[i]]
    BY <1>1, <1>2, <1>3, ElementOfSeq
  <1> HIDE DEF n
  <1>5. group.members \in 0..n /\ group \in Group
    BY DEF QueueInv, QueueTyped, n
  <1>6. QueueTyped'
    BY <1>1, <1>3, <1>5 DEF QueueTyped
  <1>7. QueuedOnce'
    <2>1. \A i \in 1..(n + 1) : i \in 1..n \/ i = n + 1
      BY <1>1
    <2>2. \A i \in 1..n : writers'[i] # w
      BY <1>1, <1>2
    <2>3. \A i, j \in 1..n : writers'[i] = writers'[j] => i = j
      BY <1>1 DEF QueueInv, QueuedOnce
    <2>4. \A i, j \in 1..(n + 1) : writers'[i] = writers'[j] => i = j
      BY <1>1, <2>1, <2>2, <2>3
    <2> QED
      BY <1>1, <2>4 DEF QueuedOnce
  <1>8. OneLogger'
    <2>1. ASSUME NEW v \in Writer, at'[v] \notin {"idle", "asleep"} PROVE Front(v)'
      <3>1. writers' # <<>> /\ Head(writers') = writers'[1]
        BY <1>1, HeadOf
      <3>2. CASE v = w
        BY <1>1, <1>3, <2>1, <3>1, <3>2 DEF Front
      <3>3. CASE v # w
        <4>1. n > 0 /\ writers[1] = v
          BY <1>3, <2>1, <3>3, FrontOnly, <1>1, QueueFacts
        <4> QED
          BY <1>1, <3>1, <4>1 DEF Front
      <3> QED
        BY <3>2, <3>3
    <2>2. at'[writers'[1]] \notin {"idle", "asleep"}
      <3>1. CASE n = 0
        BY <1>1, <1>3, <3>1
      <3>2. CASE n > 0
        BY <1>1, <1>4, <3>2 DEF QueueInv, OneLogger
      <3> QED
        BY <1>1, <3>1, <3>2
    <2>3. {job'[writers'[i]].write : i \in 1..group.members}
            = {job[writers[i]].write : i \in 1..group.members}
      BY <1>1, <1>4, <1>5
    <2> QED
      BY <1>1, <2>1, <2>2, <2>3 DEF OneLogger, QueueInv
  <1>9. GroupLed'
    <2>1. \A v \in Writer : at'[v] \in Working => at[v] \in Working
      BY <1>3 DEF Working
    <2>2. \A i \in 1..group.members : i \in 1..n /\ 1 \in 1..n
      BY <1>1, <1>5
    <2> QED
      BY <1>1, <1>4, <2>1, <2>2 DEF GroupLed, QueueInv
  <1>10. \A v \in Writer : (at[v] = "idle" <=> ~Queued(v))'
    <2> SUFFICES ASSUME NEW v \in Writer
                 PROVE  at'[v] = "idle" <=> ~ \E i \in 1..(n + 1) : writers'[i] = v
      BY <1>1 DEF Queued
    <2>1. CASE v = w
      <3>1. n + 1 \in 1..(n + 1)
        BY <1>1
      <3> QED
        BY <1>1, <1>3, <2>1, <3>1
    <2>2. CASE v # w
      <3>1. at[v] = "idle" <=> ~ \E i \in 1..n : writers[i] = v
        BY <1>1 DEF QueueInv, Queued
      <3>2. \A i \in 1..n : i \in 1..(n + 1)
        BY <1>1
      <3>3. \A i \in 1..(n + 1) : i \in 1..n \/ i = n + 1
        BY <1>1
      <3> QED
        BY <1>1, <1>3, <2>2, <3>1, <3>2, <3>3
    <2> QED
      BY <2>1, <2>2
  <1> QED
    BY <1>6, <1>7, <1>8, <1>9, <1>10 DEF QueueInv

(***************************************************************************)
(* The front writer goes on, with the group it has or with a new one.      *)
(***************************************************************************)
LEMMA Moving ==
  ASSUME QueueInv, NEW w \in Writer, at[w] \notin {"idle", "asleep"},
         NEW p \in {"awake", "room", "logging", "syncing", "insert"},
         at' = [at EXCEPT ![w] = p], UNCHANGED <<writers, job>>,
         group' \in Group, group'.members \in 0..Len(writers),
         group'.writes = {job[writers[i]].write : i \in 1..group'.members} \ {0},
         p \in Working => group'.members > 0,
         \A i \in 1..group'.members : job[writers[i]].sync => job[writers[1]].sync
  PROVE  QueueInv' /\ at'[w] = p /\ \A v \in Writer : v # w => at'[v] \in {"idle", "asleep"}
  <1>1. /\ Front(w) /\ writers[1] = w /\ 1 \in DOMAIN writers
        /\ \A v \in Writer : v # w => at[v] \in {"idle", "asleep"}
    BY FrontOnly
  <1>2. at'[w] = p /\ \A v \in Writer : v # w => at'[v] = at[v]
    BY DEF QueueInv, QueueTyped
  <1>3. QueueTyped'
    BY DEF QueueInv, QueueTyped
  <1>4. QueuedOnce'
    BY DEF QueueInv, QueuedOnce
  <1>5. OneLogger'
    <2>1. \A v \in Writer : at'[v] \notin {"idle", "asleep"} => Front(v)'
      BY <1>1, <1>2 DEF Front
    <2>2. at'[writers'[1]] \notin {"idle", "asleep"}
      BY <1>1, <1>2
    <2> QED
      BY <2>1, <2>2 DEF OneLogger
  <1>6. GroupLed'
    BY <1>1, <1>2 DEF GroupLed, Working
  <1>7. \A v \in Writer : (at[v] = "idle" <=> ~Queued(v))'
    <2>1. \A v \in Writer : at'[v] = "idle" <=> at[v] = "idle"
      BY <1>1, <1>2
    <2> QED
      BY <2>1 DEF QueueInv, Queued
  <1> QED
    BY <1>1, <1>2, <1>3, <1>4, <1>5, <1>6, <1>7 DEF QueueInv

LEMMA Waking ==
  ASSUME QueueInv, at' = Wake(at), UNCHANGED <<writers, job, group>>
  PROVE  /\ QueueInv'
         /\ \A w \in Writer, p \in Working : at'[w] = p <=> at[w] = p
  <1>1. /\ at' \in [Writer -> {"idle", "asleep", "awake", "room", "logging", "syncing", "insert"}]
        /\ \A w \in Writer : at'[w] = IF at[w] = "room" THEN "awake" ELSE at[w]
    BY DEF QueueInv, QueueTyped, Wake
  <1>2. /\ \A w \in Writer, p \in Working : at'[w] = p <=> at[w] = p
        /\ \A w \in Writer : at'[w] = "idle" <=> at[w] = "idle"
        /\ \A w \in Writer : at'[w] \in {"idle", "asleep"} <=> at[w] \in {"idle", "asleep"}
    BY <1>1 DEF Working
  <1>3. QueueTyped' /\ QueuedOnce'
    BY <1>1 DEF QueueInv, QueueTyped, QueuedOnce
  <1>4. OneLogger'
    <2>1. writers # <<>> => writers[1] \in Writer
      BY QueueFacts, HeadOf DEF QueueInv, QueueTyped
    <2> QED
      BY <1>2, <2>1 DEF QueueInv, OneLogger, Front
  <1>5. GroupLed'
    BY <1>2 DEF QueueInv, GroupLed
  <1> QED
    BY <1>2, <1>3, <1>4, <1>5 DEF QueueInv, Queued

LEMMA NobodyMoving ==
  ASSUME QueueInv, UNCHANGED writing
  PROVE  QueueInv' /\ \A w \in Writer, p \in Working : at'[w] = p <=> at[w] = p
  BY DEF writing, QueueInv, QueueTyped, QueuedOnce, OneLogger, GroupLed, Front, Queued

LEMMA QueueEmpty ==
  ASSUME writers = <<>>, at = [w \in Writer |-> "idle"], job = [w \in Writer |-> NoJob],
         group = NoGroup
  PROVE  QueueInv
  <1>1. 1..0 = {} /\ Len(writers) = 0 /\ writers \in Seq(Writer) /\ DOMAIN writers = {}
    OBVIOUS
  <1>2. group \in Group /\ group.members = 0 /\ group.writes = {}
    BY DEF NoGroup, Group
  <1>3. QueueTyped
    BY <1>1, <1>2 DEF QueueTyped, NoJob
  <1>4. QueuedOnce /\ GroupLed /\ \A w \in Writer : at[w] = "idle" <=> ~Queued(w)
    BY <1>1, <1>2 DEF QueuedOnce, GroupLed, Queued, Working
  <1>5. OneLogger
    BY <1>1, <1>2 DEF OneLogger
  <1> QED
    BY <1>3, <1>4, <1>5 DEF QueueInv

LEMMA QueueEmptied ==
  ASSUME writers' = <<>>, at' = [w \in Writer |-> "idle"], job' = [w \in Writer |-> NoJob],
         group' = NoGroup
  PROVE  QueueInv'
  <1>1. 1..0 = {} /\ Len(writers') = 0 /\ writers' \in Seq(Writer) /\ DOMAIN writers' = {}
    OBVIOUS
  <1>2. group' \in Group /\ group'.members = 0 /\ group'.writes = {}
    BY DEF NoGroup, Group
  <1>3. QueueTyped'
    BY <1>1, <1>2 DEF QueueTyped, NoJob
  <1>4. QueuedOnce' /\ GroupLed' /\ \A w \in Writer : (at[w] = "idle" <=> ~Queued(w))'
    BY <1>1, <1>2 DEF QueuedOnce, GroupLed, Queued, Working
  <1>5. OneLogger'
    BY <1>1, <1>2 DEF OneLogger
  <1> QED
    BY <1>3, <1>4, <1>5 DEF QueueInv

-----------------------------------------------------------------------------
(***************************************************************************)
(* The logs.                                                               *)
(***************************************************************************)
LEMMA LogFacts ==
  ASSUME StoreTyped
  PROVE  /\ Len(logs) \in Nat /\ Len(logs) \in 1..2 /\ DOMAIN logs = 1..Len(logs)
         /\ \A i \in DOMAIN logs : logs[i] \in Log /\ logs[i].durable <= Len(logs[i].recs)
         /\ Last = logs[Len(logs)] /\ Len(logs) \in DOMAIN logs
         /\ Last \in Log /\ Last.durable <= Len(Last.recs)
  <1>1. /\ logs \in Seq(Log) /\ Len(logs) \in 1..2
        /\ \A i \in DOMAIN logs : logs[i].durable <= Len(logs[i].recs)
    BY DEF StoreTyped
  <1>2. DOMAIN logs = 1..Len(logs) /\ Len(logs) \in Nat
    BY <1>1
  <1>3. \A i \in DOMAIN logs : logs[i] \in Log
    BY <1>1, <1>2, ElementOfSeq
  <1> QED
    BY <1>1, <1>2, <1>3 DEF Last

LEMMA InLogFacts ==
  ASSUME NEW l \in Log, l.durable <= Len(l.recs), NEW x
  PROVE  /\ Synced(l, x) => Written(l, x)
         /\ \A k \in Nat : x \in First(l, k) <=> InLog(l, k, x)
         /\ \A k \in Nat : l.durable <= k /\ Synced(l, x) => InLog(l, k, x)
  <1>1. l.recs \in Seq(SUBSET Id) /\ Len(l.recs) \in Nat /\ l.durable \in Nat
    BY DEF Log
  <1> QED
    BY <1>1 DEF Synced, Written, InLog, First

LEMMA AppendedLog ==
  ASSUME NEW l \in Log, l.durable <= Len(l.recs), NEW g \in SUBSET Id
  PROVE  LET m == [l EXCEPT !.recs = Append(@, g)]
         IN  /\ m \in Log /\ m.durable <= Len(m.recs) /\ m.torn = l.torn
             /\ \A x : Written(m, x) <=> Written(l, x) \/ x \in g
             /\ \A x : Synced(m, x) <=> Synced(l, x)
  <1> DEFINE m == [l EXCEPT !.recs = Append(@, g)]
             n == Len(l.recs)
  <1>1. /\ l.recs \in Seq(SUBSET Id) /\ n \in Nat /\ l.durable \in Nat /\ l.torn \in Nat
        /\ m.recs = Append(l.recs, g) /\ m.durable = l.durable /\ m.torn = l.torn
    BY DEF Log
  <1>2. /\ Append(l.recs, g) \in Seq(SUBSET Id) /\ Len(Append(l.recs, g)) = n + 1
        /\ \A i \in 1..n : Append(l.recs, g)[i] = l.recs[i]
        /\ Append(l.recs, g)[n + 1] = g
    BY <1>1
  <1>b. m \in Log
    BY <1>2 DEF Log
  <1> HIDE DEF m
  <1>3. m \in Log /\ m.durable <= Len(m.recs)
    BY <1>1, <1>2, <1>b
  <1>4. \A i : i \in 1..(n + 1) <=> i \in 1..n \/ i = n + 1
    BY <1>1
  <1>5. \A i \in 1..l.durable : i \in 1..n
    BY <1>1
  <1>a. /\ Len(m.recs) = n + 1 /\ \A i \in 1..n : m.recs[i] = l.recs[i]
        /\ m.recs[n + 1] = g
    BY <1>1, <1>2
  <1>6. \A x : Written(m, x) <=> Written(l, x) \/ x \in g
    <2> HIDE DEF n
    <2>1. \A x : Written(m, x) <=> \E i \in 1..(n + 1) : x \in m.recs[i]
      BY <1>a DEF Written, InLog
    <2>2. \A x : Written(l, x) <=> \E i \in 1..n : x \in m.recs[i]
      BY <1>a DEF Written, InLog, n
    <2> QED
      BY <2>1, <2>2, <1>4, <1>a
  <1>7. \A x : Synced(m, x) <=> Synced(l, x)
    BY <1>1, <1>5, <1>a DEF Synced, InLog
  <1>8. /\ m \in Log /\ m.durable <= Len(m.recs) /\ m.torn = l.torn
        /\ \A x : Written(m, x) <=> Written(l, x) \/ x \in g
        /\ \A x : Synced(m, x) <=> Synced(l, x)
    BY <1>1, <1>3, <1>6, <1>7
  <1> QED
    BY <1>8 DEF m

LEMMA SyncedLog ==
  ASSUME NEW l \in Log
  PROVE  LET m == [l EXCEPT !.durable = Len(l.recs)]
         IN  /\ m \in Log /\ m.durable <= Len(m.recs) /\ m.torn = l.torn
             /\ \A x : Written(m, x) <=> Written(l, x)
             /\ \A x : Synced(m, x) <=> Written(l, x)
  <1> DEFINE m == [l EXCEPT !.durable = Len(l.recs)]
  <1>1. /\ l.recs \in Seq(SUBSET Id) /\ Len(l.recs) \in Nat
        /\ m.recs = l.recs /\ m.durable = Len(l.recs) /\ m.torn = l.torn
        /\ m \in Log
    BY DEF Log
  <1> HIDE DEF m
  <1>2. /\ m \in Log /\ m.durable <= Len(m.recs) /\ m.torn = l.torn
        /\ \A x : Written(m, x) <=> Written(l, x)
        /\ \A x : Synced(m, x) <=> Written(l, x)
    BY <1>1 DEF Written, Synced, InLog
  <1> QED
    BY <1>2 DEF m

LEMMA FreshLog ==
  /\ NewLog \in Log /\ NewLog.durable <= Len(NewLog.recs) /\ NewLog.torn = 0
  /\ \A x : ~Written(NewLog, x) /\ ~Synced(NewLog, x)
  <1>1. /\ NewLog.recs = <<>> /\ NewLog.durable = 0 /\ NewLog.torn = 0
        /\ NewLog \in [recs : {<<>>}, durable : {0}, torn : {0}]
    BY DEF NewLog
  <1>2. <<>> \in Seq(SUBSET Id) /\ Len(<<>>) = 0 /\ 1..0 = {}
    OBVIOUS
  <1>3. NewLog \in Log
    BY <1>2 DEF Log, NewLog
  <1>4. Len(NewLog.recs) = 0
    BY <1>1, <1>2
  <1> QED
    BY <1>1, <1>2, <1>3, <1>4 DEF Written, Synced, InLog

LEMMA LastReplaced ==
  ASSUME StoreTyped, NEW l \in Log, l.durable <= Len(l.recs), logs' = WithLast(l)
  PROVE  /\ logs' \in Seq(Log) /\ Len(logs') = Len(logs) /\ DOMAIN logs' = DOMAIN logs
         /\ Last' = l
         /\ \A i \in DOMAIN logs : logs'[i] = IF i = Len(logs) THEN l ELSE logs[i]
         /\ \A i \in DOMAIN logs' : logs'[i].durable <= Len(logs'[i].recs)
  <1>1. logs \in Seq(Log) /\ Len(logs) \in 1..Len(logs) /\ DOMAIN logs = 1..Len(logs)
    BY LogFacts DEF StoreTyped
  <1>2. /\ logs' \in Seq(Log) /\ Len(logs') = Len(logs)
        /\ \A i \in 1..Len(logs) : logs'[i] = IF i = Len(logs) THEN l ELSE logs[i]
    BY <1>1, ExceptSeq DEF WithLast
  <1>3. DOMAIN logs' = DOMAIN logs
    BY <1>1, <1>2, HeadOf
  <1> QED
    <2>1. Len(logs) \in DOMAIN logs /\ Last' = logs'[Len(logs')]
      BY <1>1 DEF Last
    <2>2. Last' = l
      BY <1>1, <1>2, <2>1
    <2>3. \A i \in DOMAIN logs : logs[i].durable <= Len(logs[i].recs)
      BY LogFacts
    <2> QED
      BY <1>1, <1>2, <1>3, <2>2, <2>3

LEMMA LogAdded ==
  ASSUME StoreTyped, Len(logs) = 1, logs' = Append(logs, NewLog)
  PROVE  /\ logs' \in Seq(Log) /\ Len(logs') = 2 /\ DOMAIN logs' = 1..2
         /\ logs'[1] = logs[1] /\ logs'[2] = NewLog /\ Last' = NewLog
         /\ \A i \in DOMAIN logs' : logs'[i].durable <= Len(logs'[i].recs)
  <1>1. logs \in Seq(Log) /\ DOMAIN logs = 1..1
    BY DEF StoreTyped
  <1>2. NewLog \in Log
    BY FreshLog
  <1>a. /\ Append(logs, NewLog) \in Seq(Log) /\ Len(Append(logs, NewLog)) = Len(logs) + 1
        /\ \A i \in 1..Len(logs) : Append(logs, NewLog)[i] = logs[i]
        /\ Append(logs, NewLog)[Len(logs) + 1] = NewLog
    <2>1. logs \in Seq(Log) /\ NewLog \in Log
      BY <1>1, <1>2
    <2> QED
      BY <2>1, AppendOf, Zenon
  <1>3. /\ logs' \in Seq(Log) /\ Len(logs') = 2
        /\ logs'[1] = logs[1] /\ logs'[2] = NewLog
    BY <1>a
  <1>4. DOMAIN logs' = 1..2
    BY <1>3
  <1>5. \A i \in 1..2 : i = 1 \/ i = 2
    OBVIOUS
  <1> QED
    BY <1>1, <1>3, <1>4, <1>5, FreshLog DEF Last, StoreTyped

LEMMA OneLog ==
  ASSUME NEW l \in Log, l.durable <= Len(l.recs), logs' = <<l>>
  PROVE  /\ logs' \in Seq(Log) /\ Len(logs') = 1 /\ DOMAIN logs' = 1..1
         /\ logs'[1] = l /\ Last' = l
         /\ \A i \in DOMAIN logs' : logs'[i] = l
         /\ \A i \in DOMAIN logs' : logs'[i].durable <= Len(logs'[i].recs)
  BY DEF Last

LEMMA Typed ==
  ASSUME QueueInv, StoreTyped, CountsTyped
  PROVE  TypeOK
  <1>1. \A i \in DOMAIN logs : LogOK(logs[i])
    BY LogFacts DEF LogOK, Log
  <1> QED
    BY <1>1 DEF TypeOK, QueueInv, QueueTyped, Group, StoreTyped, CountsTyped

-----------------------------------------------------------------------------
(***************************************************************************)
(* One lemma per action: it keeps ControlInv, and DataInv where no append  *)
(* to a log fails.                                                         *)
(***************************************************************************)
Inserting == {"syncing", "insert"}

LEMMA AckedTyped ==
  ASSUME ControlInv, NEW n \in 1..Len(writers), NEW ok \in BOOLEAN, Complete(n, ok)
  PROVE  acked' \subseteq Id /\ synced' \subseteq acked'
  <1>1. QueueInv /\ acked \subseteq Id /\ synced \subseteq acked
    BY DEF ControlInv, CountsTyped
  <1>2. \A i \in 1..n : job[writers[i]].write \in Id \cup {0}
    BY <1>1, QueueFacts
  <1>3. acked' \subseteq Id
    BY <1>1, <1>2, Completing
  <1>4. synced' \subseteq acked'
    BY <1>1, Completing
  <1> QED
    BY <1>3, <1>4

LEMMA CompletedNothing ==
  ASSUME QueueInv, NEW n \in 1..Len(writers), NEW ok \in BOOLEAN, Complete(n, ok),
         ok => \A i \in 1..n : job[writers[i]].write = 0
  PROVE  acked' = acked /\ synced' = synced
  <1>1. \A x : x \in acked' <=> x \in acked
    BY Completing
  <1>2. \A x : x \in synced' <=> x \in synced
    BY Completing
  <1> QED
    BY <1>1, <1>2

(***************************************************************************)
(* Nothing of the data changes; whoever is in the middle of writing a      *)
(* group stays there, or the database is closed to writes.                 *)
(***************************************************************************)
LEMMA DataKept ==
  ASSUME DataInv, UNCHANGED <<mem, imm, logs, tables, acked, synced>>,
         group'.ok, bgError => bgError',
         \A w \in Writer : at'[w] \in Inserting =>
           at'[w] = at[w] /\ job'[w] = job[w] /\ group' = group,
         bgError' \/ \A w \in Writer : at[w] \in Inserting => at'[w] \in Inserting
  PROVE  DataInv'
  <1>1. Reported' /\ OldLogSaved' /\ NothingTorn'
    BY DEF DataInv, Reported, OldLogSaved, NothingTorn, Written, Synced, InLog
  <1>2. Last' = Last
    BY DEF Last
  <1>3. LastLogHeld'
    <2> SUFFICES ASSUME ~bgError' PROVE \A x \in Id : Written(Last, x) => x \in mem \/ x \in tables \/ Pending(x)'
      BY <1>2 DEF LastLogHeld, Written, InLog
    <2>1. \A x : Pending(x) => Pending(x)'
      BY DEF Pending, Inserting
    <2> QED
      BY <2>1 DEF DataInv, LastLogHeld
  <1>4. GroupLogged'
    <2> SUFFICES ASSUME NEW w \in Writer, at'[w] \in Inserting
                 PROVE  /\ \A x \in group'.writes : Written(Last, x)
                        /\ at'[w] = "insert" /\ job'[w].sync => \A x \in group'.writes : Synced(Last, x)
      BY <1>2 DEF GroupLogged, Inserting, Written, Synced, InLog
    <2> QED
      BY DEF DataInv, GroupLogged, Inserting
  <1> QED
    BY <1>1, <1>3, <1>4 DEF DataInv

LEMMA CallKeeps ==
  ASSUME ControlInv, NEW w \in Writer, NEW sync \in BOOLEAN, NEW batch \in BOOLEAN,
         Call(w, sync, batch)
  PROVE  ControlInv' /\ (DataInv => DataInv')
  <1>1. QueueInv /\ StoreTyped /\ CountsTyped
    BY DEF ControlInv
  <1>2. QueueInv'
    BY <1>1, Joining DEF CountsTyped
  <1>3. StoreTyped' /\ CountsTyped'
    BY <1>1, SizesAssumption DEF StoreTyped, CountsTyped, Call
  <1>4. ASSUME DataInv PROVE DataInv'
    <2>1. \A v \in Writer : at'[v] \in Inserting => at'[v] = at[v] /\ job'[v] = job[v]
      BY <1>1 DEF Call, QueueInv, QueueTyped, Inserting
    <2>2. \A v \in Writer : at[v] \in Inserting => at'[v] \in Inserting
      BY <1>1 DEF Call, QueueInv, QueueTyped, Inserting
    <2> QED
      BY <1>4, <2>1, <2>2, DataKept DEF Call, DataInv, NothingTorn
  <1> QED
    BY <1>2, <1>3, <1>4 DEF ControlInv

LEMMA Built ==
  ASSUME ControlInv, NEW w \in Writer, Front(w), at[w] = "awake", Build(w)
  PROVE  /\ QueueInv' /\ acked' = acked /\ synced' = synced /\ group'.ok = TRUE
         /\ \A v \in Writer : at[v] \notin Inserting /\ at'[v] \notin Inserting
  <1>1. QueueInv
    BY DEF ControlInv
  <1>2. /\ writers[1] = w /\ Len(writers) \in Nat /\ 1 \in 1..Len(writers)
        /\ \A v \in Writer : v # w => at[v] \in {"idle", "asleep"}
    BY <1>1, FrontOnly, QueueFacts
  <1>3. \A v \in Writer : at[v] \notin Inserting
    BY <1>2 DEF Inserting
  <1>4. CASE job[w].write = 0
    <2>1. Complete(1, TRUE)
      BY <1>4 DEF Build
    <2>2. \A i \in 1..1 : job[writers[i]].write = 0
      BY <1>2, <1>4
    <2>3. QueueInv' /\ group' = NoGroup /\ \A v \in Writer : at'[v] \notin Working
      BY <1>1, <1>2, <2>1, Completing
    <2>4. acked' = acked /\ synced' = synced
      BY <1>1, <1>2, <2>1, <2>2, CompletedNothing
    <2> QED
      BY <1>3, <2>3, <2>4 DEF NoGroup, Working, Inserting
  <1>5. CASE job[w].write # 0
    <2>1. PICK n \in Groups :
            /\ group' = [writes |-> {job[writers[i]].write : i \in 1..n} \ {0},
                         members |-> n, ok |-> TRUE]
            /\ at' = [at EXCEPT ![w] = "logging"]
            /\ UNCHANGED <<writers, job, acked, synced>>
      BY <1>5 DEF Build
    <2>2. /\ n \in 1..Len(writers)
          /\ \A i \in 1..n : job[writers[i]].sync => job[writers[1]].sync
      BY DEF Groups
    <2>3. \A i \in 1..n : job[writers[i]].write \in Id \cup {0}
      BY <1>1, <1>2, <2>2, QueueFacts
    <2>4. /\ group'.writes = {job[writers[i]].write : i \in 1..n} \ {0}
          /\ group'.members = n /\ group'.ok = TRUE
      BY <2>1
    <2>5. group' \in Group /\ n \in 0..Len(writers) /\ n > 0
      BY <1>2, <2>1, <2>2, <2>3 DEF Group
    <2>6. QueueInv' /\ at'[w] = "logging" /\ \A v \in Writer : v # w => at'[v] \in {"idle", "asleep"}
      BY <1>1, <2>1, <2>2, <2>4, <2>5, Moving
    <2> QED
      BY <1>3, <2>1, <2>4, <2>6 DEF Inserting
  <1> QED
    BY <1>4, <1>5

LEMMA ProceedKeeps ==
  ASSUME ControlInv, NEW w \in Writer, Proceed(w)
  PROVE  ControlInv' /\ (DataInv => DataInv')
  <1>1. /\ QueueInv' /\ acked' = acked /\ synced' = synced /\ group'.ok = TRUE
        /\ \A v \in Writer : at[v] \notin Inserting /\ at'[v] \notin Inserting
    BY Built DEF Proceed
  <1>2. StoreTyped' /\ CountsTyped'
    BY <1>1 DEF ControlInv, StoreTyped, CountsTyped, Proceed, counts
  <1>3. DataInv => DataInv'
    BY <1>1, DataKept DEF Proceed
  <1> QED
    BY <1>1, <1>2, <1>3 DEF ControlInv

LEMMA RefusalKeeps ==
  ASSUME ControlInv, NEW w \in Writer, Refuse(w) \/ NoNewLog(w)
  PROVE  ControlInv' /\ (DataInv => DataInv')
  <1>1. QueueInv /\ Front(w) /\ at[w] = "awake" /\ Complete(1, FALSE)
    BY DEF ControlInv, Refuse, NoNewLog
  <1>2. /\ 1 \in 1..Len(writers)
        /\ \A v \in Writer : at[v] \notin Inserting
    BY <1>1, FrontOnly, QueueFacts DEF Inserting
  <1>3. QueueInv' /\ group' = NoGroup /\ \A v \in Writer : at'[v] \notin Working
    BY <1>1, <1>2, Completing
  <1>4. acked' = acked /\ synced' = synced
    BY <1>1, <1>2, CompletedNothing
  <1>5. StoreTyped' /\ CountsTyped'
    BY <1>4 DEF ControlInv, StoreTyped, CountsTyped, Refuse, NoNewLog, counts
  <1>6. /\ UNCHANGED <<mem, imm, logs, tables>> /\ bgError' = bgError
        /\ group'.ok /\ \A v \in Writer : at'[v] \notin Inserting
    BY <1>3 DEF Refuse, NoNewLog, NoGroup, Working, Inserting
  <1>7. DataInv => DataInv'
    BY <1>2, <1>4, <1>6, DataKept
  <1> QED
    BY <1>3, <1>5, <1>7 DEF ControlInv

LEMMA WaitForRoomKeeps ==
  ASSUME ControlInv, NEW w \in Writer, WaitForRoom(w)
  PROVE  ControlInv' /\ (DataInv => DataInv')
  <1>1. QueueInv /\ at[w] = "awake" /\ QueueTyped /\ OneLogger /\ GroupLed
    BY DEF ControlInv, QueueInv, WaitForRoom
  <1>2. /\ \A v \in Writer : at[v] \notin Inserting
        /\ \A v \in Writer : v # w => at[v] \in {"idle", "asleep"}
    BY <1>1, FrontOnly DEF Inserting
  <1>3. QueueInv' /\ at'[w] = "room" /\ \A v \in Writer : v # w => at'[v] \in {"idle", "asleep"}
    BY <1>1, Moving DEF WaitForRoom, QueueTyped, OneLogger, GroupLed, Working
  <1>4. StoreTyped' /\ CountsTyped'
    BY DEF ControlInv, StoreTyped, CountsTyped, WaitForRoom, counts
  <1>5. DataInv => DataInv'
    BY <1>2, <1>3, DataKept DEF WaitForRoom, Inserting, DataInv, NothingTorn
  <1> QED
    BY <1>3, <1>4, <1>5 DEF ControlInv

(***************************************************************************)
(* A full memtable becomes the one being saved, and the log it was kept    *)
(* in an older one: nothing in that log is missing from the memtable,      *)
(* since nobody is in the middle of writing a group.                       *)
(***************************************************************************)
LEMMA SwitchMemtableKeeps ==
  ASSUME ControlInv, NEW w \in Writer, SwitchMemtable(w)
  PROVE  ControlInv' /\ (DataInv => DataInv')
  <1>1. /\ QueueInv' /\ acked' = acked /\ synced' = synced /\ group'.ok = TRUE
        /\ \A v \in Writer : at[v] \notin Inserting /\ at'[v] \notin Inserting
    BY Built DEF SwitchMemtable
  <1>2. /\ StoreTyped /\ CountsTyped /\ imm = None /\ ~bgError
        /\ logs' = Append(logs, NewLog) /\ imm' = mem /\ mem' = {}
        /\ UNCHANGED <<level0, tables, bgError, inputs, counts>> /\ Scheduled(bg)
    BY DEF SwitchMemtable, ControlInv, Blocked
  <1>3. Len(logs) = 1
    BY <1>2 DEF StoreTyped
  <1>4. /\ logs' \in Seq(Log) /\ Len(logs') = 2 /\ DOMAIN logs' = 1..2
        /\ logs'[1] = logs[1] /\ logs'[2] = NewLog /\ Last' = NewLog
        /\ \A i \in DOMAIN logs' : logs'[i].durable <= Len(logs'[i].recs)
    BY <1>2, <1>3, LogAdded
  <1>5. mem # None
    BY <1>2, NoneAssumption DEF StoreTyped, Id
  <1>6. StoreTyped' /\ CountsTyped'
    BY <1>1, <1>2, <1>4, <1>5 DEF StoreTyped, CountsTyped, Scheduled, counts
  <1>7. ASSUME DataInv PROVE DataInv'
    <2>1. Last = logs[1] /\ DOMAIN logs = 1..1 /\ 1..1 = {1} /\ 1..2 = {1, 2}
      BY <1>2, <1>3, LogFacts
    <2>2. Reported'
      BY <1>1, <1>2, <1>4, <1>7, <2>1 DEF DataInv, Reported, Written, Synced, InLog
    <2>3. \A x \in Id : Written(logs[1], x) => x \in mem \/ x \in tables
      BY <1>1, <1>2, <1>7, <2>1 DEF DataInv, LastLogHeld, Pending, Inserting
    <2>4. OldLogSaved'
      <3>1. Len(logs') - 1 = 1
        BY <1>4
      <3> QED
        BY <1>2, <1>4, <2>1, <2>3, <3>1 DEF OldLogSaved, Written, InLog
    <2>5. LastLogHeld'
      <3>1. \A x : ~Written(NewLog, x)
        BY FreshLog
      <3> QED
        BY <1>4, <3>1 DEF LastLogHeld, Written, InLog
    <2>6. GroupLogged'
      BY <1>1 DEF GroupLogged, Inserting
    <2>7. NothingTorn'
      BY <1>1, <1>4, <1>7, <2>1, FreshLog DEF DataInv, NothingTorn
    <2> QED
      BY <2>2, <2>4, <2>5, <2>6, <2>7 DEF DataInv
  <1> QED
    BY <1>1, <1>6, <1>7 DEF ControlInv

(***************************************************************************)
(* The last log is replaced by one that holds the same older records.      *)
(***************************************************************************)
LEMMA LogGrows ==
  ASSUME ControlInv, DataInv, NEW l \in Log, l.durable <= Len(l.recs), logs' = WithLast(l),
         l.torn = Last.torn,
         \A x : Written(Last, x) => Written(l, x), \A x : Synced(Last, x) => Synced(l, x),
         UNCHANGED <<imm, tables, acked, synced>>, group'.ok
  PROVE  Reported' /\ OldLogSaved' /\ NothingTorn'
  <1>1. /\ StoreTyped /\ DOMAIN logs = 1..Len(logs) /\ Len(logs) \in Nat
        /\ Last = logs[Len(logs)] /\ Len(logs) \in DOMAIN logs
    BY LogFacts DEF ControlInv
  <1>2. /\ Len(logs') = Len(logs) /\ DOMAIN logs' = DOMAIN logs
        /\ \A i \in DOMAIN logs : logs'[i] = IF i = Len(logs) THEN l ELSE logs[i]
    BY <1>1, LastReplaced
  <1>3. \A i \in DOMAIN logs :
          /\ \A x : Written(logs[i], x) => Written(logs'[i], x)
          /\ \A x : Synced(logs[i], x) => Synced(logs'[i], x)
          /\ logs'[i].torn = logs[i].torn
    <2> TAKE i \in DOMAIN logs
    <2>1. CASE i = Len(logs)
      BY <1>1, <1>2, <2>1
    <2>2. CASE i # Len(logs)
      BY <1>2, <2>2
    <2> QED
      BY <2>1, <2>2
  <1>4. Reported'
    <2>1. /\ \A x \in acked : x \in tables \/ \E i \in DOMAIN logs : Written(logs'[i], x)
          /\ \A x \in synced : x \in tables \/ \E i \in DOMAIN logs : Synced(logs'[i], x)
      BY <1>3 DEF DataInv, Reported
    <2> QED
      BY <1>2, <2>1 DEF Reported, Written, Synced, InLog
  <1>5. OldLogSaved'
    <2>1. \A n \in Nat : \A i \in 1..(n - 1) : i \in 1..n /\ i # n
      OBVIOUS
    <2>2. \A i \in 1..(Len(logs) - 1) : logs'[i] = logs[i]
      BY <1>1, <1>2, <2>1
    <2> QED
      BY <1>2, <2>2 DEF DataInv, OldLogSaved, Written, InLog
  <1>6. NothingTorn'
    BY <1>2, <1>3 DEF DataInv, NothingTorn
  <1> QED
    BY <1>4, <1>5, <1>6

LEMMA AddRecordKeeps ==
  ASSUME ControlInv, NEW w \in Writer, AddRecord(w)
  PROVE  ControlInv' /\ (DataInv => DataInv')
  <1> DEFINE l == [Last EXCEPT !.recs = Append(@, group.writes)]
             p == IF job[w].sync THEN "syncing" ELSE "insert"
  <1>1. /\ QueueInv /\ StoreTyped /\ CountsTyped
        /\ QueueTyped /\ OneLogger /\ GroupLed
        /\ at[w] = "logging" /\ logs' = WithLast(l) /\ at' = [at EXCEPT ![w] = p]
        /\ UNCHANGED <<writers, job, group, mem, imm, level0, tables, bgError, bg, inputs,
                       counts, acked, synced>>
    BY DEF ControlInv, QueueInv, AddRecord
  <1>2. Last \in Log /\ Last.durable <= Len(Last.recs) /\ group.writes \in SUBSET Id
    BY <1>1, LogFacts DEF QueueTyped, Group
  <1>3. /\ l \in Log /\ l.durable <= Len(l.recs) /\ l.torn = Last.torn
        /\ \A x : Written(l, x) <=> Written(Last, x) \/ x \in group.writes
        /\ \A x : Synced(l, x) <=> Synced(Last, x)
    BY <1>2, AppendedLog
  <1>4. p \in {"syncing", "insert"} /\ (p = "insert" => ~job[w].sync)
    OBVIOUS
  <1> HIDE DEF l, p
  <1>5. \A v \in Writer : v # w => at[v] \in {"idle", "asleep"}
    BY <1>1, FrontOnly
  <1>6. QueueInv' /\ at'[w] = p /\ \A v \in Writer : v # w => at'[v] \in {"idle", "asleep"}
    BY <1>1, <1>4, Moving DEF QueueTyped, OneLogger, GroupLed, Working
  <1>7. /\ logs' \in Seq(Log) /\ Len(logs') = Len(logs) /\ DOMAIN logs' = DOMAIN logs
        /\ Last' = l
        /\ \A i \in DOMAIN logs' : logs'[i].durable <= Len(logs'[i].recs)
    BY <1>1, <1>3, LastReplaced
  <1>8. StoreTyped' /\ CountsTyped'
    BY <1>1, <1>7 DEF StoreTyped, CountsTyped, counts
  <1>9. ASSUME DataInv PROVE DataInv'
    <2>1. Reported' /\ OldLogSaved' /\ NothingTorn'
      BY <1>1, <1>3, <1>9, LogGrows DEF DataInv, NothingTorn
    <2>2. \A x : Pending(x)' <=> x \in group.writes
      BY <1>1, <1>4, <1>6 DEF Pending
    <2>3. \A x : ~Pending(x)
      BY <1>1, <1>5 DEF Pending
    <2>4. LastLogHeld'
      <3>1. bgError \/ \A x \in Id : Written(l, x) => x \in mem \/ x \in tables \/ Pending(x)'
        BY <1>3, <1>9, <2>2, <2>3 DEF DataInv, LastLogHeld
      <3> QED
        BY <1>1, <1>7, <3>1 DEF LastLogHeld, Written, InLog
    <2>5. GroupLogged'
      <3>1. \A x \in group.writes : Written(l, x)
        BY <1>3
      <3>2. \A v \in Writer : at'[v] \in Inserting => v = w
        BY <1>6 DEF Inserting
      <3>3. ~(at'[w] = "insert" /\ job'[w].sync)
        BY <1>1, <1>4, <1>6
      <3> QED
        BY <1>1, <1>7, <3>1, <3>2, <3>3 DEF GroupLogged, Inserting, Written, InLog
    <2> QED
      BY <2>1, <2>4, <2>5 DEF DataInv
  <1> QED
    BY <1>6, <1>8, <1>9 DEF ControlInv

LEMMA SyncKeeps ==
  ASSUME ControlInv, NEW w \in Writer, Sync(w)
  PROVE  ControlInv' /\ (DataInv => DataInv')
  <1> DEFINE l == [Last EXCEPT !.durable = Len(Last.recs)]
  <1>1. /\ QueueInv /\ StoreTyped /\ CountsTyped
        /\ QueueTyped /\ OneLogger /\ GroupLed
        /\ at[w] = "syncing" /\ logs' = WithLast(l) /\ at' = [at EXCEPT ![w] = "insert"]
        /\ UNCHANGED <<writers, job, group, mem, imm, level0, tables, bgError, bg, inputs,
                       counts, acked, synced>>
    BY DEF ControlInv, QueueInv, Sync
  <1>2. Last \in Log /\ Last.durable <= Len(Last.recs)
    BY <1>1, LogFacts
  <1>3. /\ l \in Log /\ l.durable <= Len(l.recs) /\ l.torn = Last.torn
        /\ \A x : Written(l, x) <=> Written(Last, x)
        /\ \A x : Synced(l, x) <=> Written(Last, x)
        /\ \A x : Synced(Last, x) => Written(Last, x)
    BY <1>2, SyncedLog, InLogFacts
  <1> HIDE DEF l
  <1>5. \A v \in Writer : v # w => at[v] \in {"idle", "asleep"}
    BY <1>1, FrontOnly
  <1>6. QueueInv' /\ at'[w] = "insert" /\ \A v \in Writer : v # w => at'[v] \in {"idle", "asleep"}
    BY <1>1, Moving DEF QueueTyped, OneLogger, GroupLed, Working
  <1>7. /\ logs' \in Seq(Log) /\ Len(logs') = Len(logs) /\ DOMAIN logs' = DOMAIN logs
        /\ Last' = l
        /\ \A i \in DOMAIN logs' : logs'[i].durable <= Len(logs'[i].recs)
    BY <1>1, <1>3, LastReplaced
  <1>8. StoreTyped' /\ CountsTyped'
    BY <1>1, <1>7 DEF StoreTyped, CountsTyped, counts
  <1>9. ASSUME DataInv PROVE DataInv'
    <2>1. Reported' /\ OldLogSaved' /\ NothingTorn'
      BY <1>1, <1>3, <1>9, LogGrows DEF DataInv, NothingTorn
    <2>2. \A x : Pending(x) => Pending(x)'
      BY <1>1, <1>6 DEF Pending
    <2>4. LastLogHeld'
      <3>1. bgError \/ \A x \in Id : Written(l, x) => x \in mem \/ x \in tables \/ Pending(x)'
        BY <1>3, <1>9, <2>2 DEF DataInv, LastLogHeld
      <3> QED
        BY <1>1, <1>7, <3>1 DEF LastLogHeld, Written, InLog
    <2>5. GroupLogged'
      <3>1. \A x \in group.writes : Written(l, x) /\ Synced(l, x)
        BY <1>1, <1>3, <1>9 DEF DataInv, GroupLogged
      <3>2. \A v \in Writer : at'[v] \in Inserting => v = w
        BY <1>6 DEF Inserting
      <3> QED
        BY <1>1, <1>7, <3>1, <3>2 DEF GroupLogged, Inserting, Written, Synced, InLog
    <2> QED
      BY <2>1, <2>4, <2>5 DEF DataInv
  <1> QED
    BY <1>6, <1>8, <1>9 DEF ControlInv

LEMMA AppendFailsKeeps ==
  ASSUME ControlInv, NEW w \in Writer, AppendFails(w)
  PROVE  ControlInv' /\ MaxAppendFaults # 0
  <1> DEFINE l == [Last EXCEPT !.torn = IF @ = 0 THEN Len(Last.recs) + 1 ELSE @]
  <1>1. /\ QueueInv /\ StoreTyped /\ CountsTyped
        /\ QueueTyped /\ OneLogger /\ GroupLed
        /\ at[w] = "logging" /\ logs' = WithLast(l) /\ at' = [at EXCEPT ![w] = "insert"]
        /\ group' = [group EXCEPT !.ok = FALSE]
        /\ appendFaults < MaxAppendFaults /\ appendFaults' = appendFaults + 1
        /\ UNCHANGED <<writers, job, mem, imm, level0, tables, bgError, bg, inputs>>
        /\ UNCHANGED <<calls, crashes, faults, acked, synced>>
    BY DEF ControlInv, QueueInv, AppendFails
  <1>2. Last \in Log /\ Last.durable <= Len(Last.recs)
    BY <1>1, LogFacts
  <1>3. l \in Log /\ l.durable <= Len(l.recs)
    <2>1. /\ Last.recs \in Seq(SUBSET Id) /\ Len(Last.recs) + 1 \in Nat
          /\ l.recs = Last.recs /\ l.durable = Last.durable
      BY <1>2 DEF Log
    <2> QED
      BY <1>2, <2>1 DEF Log
  <1> HIDE DEF l
  <1>4. /\ group' \in Group /\ group'.members = group.members /\ group'.writes = group.writes
        /\ group.members > 0
    BY <1>1 DEF QueueTyped, Group, GroupLed, Working
  <1>5. QueueInv'
    BY <1>1, <1>4, Moving DEF QueueTyped, OneLogger, GroupLed, Working
  <1>6. /\ logs' \in Seq(Log) /\ Len(logs') = Len(logs) /\ DOMAIN logs' = DOMAIN logs
        /\ \A i \in DOMAIN logs' : logs'[i].durable <= Len(logs'[i].recs)
    BY <1>1, <1>3, LastReplaced
  <1>7. StoreTyped'
    BY <1>1, <1>6 DEF StoreTyped
  <1>8. CountsTyped'
    BY <1>1 DEF CountsTyped
  <1>9. MaxAppendFaults # 0
    BY <1>1, SizesAssumption DEF CountsTyped
  <1> QED
    BY <1>5, <1>7, <1>8, <1>9 DEF ControlInv

LEMMA SyncFailsKeeps ==
  ASSUME ControlInv, NEW w \in Writer, SyncFails(w)
  PROVE  ControlInv' /\ (DataInv => DataInv')
  <1>1. /\ QueueInv /\ at[w] = "syncing" /\ Complete(group.members, FALSE)
        /\ GroupLed /\ group.members \in Nat
    BY QueueFacts DEF ControlInv, QueueInv, SyncFails
  <1>2. group.members \in 1..Len(writers)
    BY <1>1 DEF QueueInv, QueueTyped, GroupLed, Working
  <1>3. QueueInv' /\ group' = NoGroup /\ \A v \in Writer : at'[v] \notin Working
    BY <1>1, <1>2, Completing
  <1>4. acked' = acked /\ synced' = synced
    BY <1>1, <1>2, CompletedNothing
  <1>5. StoreTyped' /\ CountsTyped'
    BY <1>4 DEF ControlInv, StoreTyped, CountsTyped, SyncFails
  <1>6. /\ UNCHANGED <<mem, imm, logs, tables>> /\ bgError'
        /\ group'.ok /\ \A v \in Writer : at'[v] \notin Inserting
    BY <1>3 DEF SyncFails, NoGroup, Working, Inserting
  <1>7. DataInv => DataInv'
    BY <1>4, <1>6, DataKept
  <1> QED
    BY <1>3, <1>5, <1>7 DEF ControlInv

(***************************************************************************)
(* The writes that are reported now are in the last log, synced where that *)
(* was asked for: a group led without sync contains no write with it.      *)
(***************************************************************************)
LEMMA InsertKeeps ==
  ASSUME ControlInv, NEW w \in Writer, Insert(w)
  PROVE  ControlInv' /\ (DataInv => DataInv')
  <1>1. /\ QueueInv /\ StoreTyped /\ CountsTyped /\ QueueTyped /\ OneLogger /\ GroupLed
        /\ at[w] = "insert" /\ Complete(group.members, group.ok)
        /\ mem' = IF group.ok THEN mem \cup group.writes ELSE mem
        /\ UNCHANGED <<imm, logs, level0, tables, bgError, bg, inputs, counts>>
    BY DEF ControlInv, QueueInv, Insert
  <1>2. /\ group.members \in 1..Len(writers) /\ group.ok \in BOOLEAN /\ group.writes \subseteq Id
        /\ group.members \in Nat
    BY <1>1, QueueFacts DEF QueueTyped, GroupLed, Working, Group
  <1>3. /\ QueueInv' /\ group' = NoGroup /\ \A v \in Writer : at'[v] \notin Working
        /\ \A x : x \in acked' <=>
              \/ x \in acked
              \/ group.ok /\ x # 0 /\ \E i \in 1..group.members : x = job[writers[i]].write
        /\ \A x : x \in synced' <=>
              \/ x \in synced
              \/ group.ok /\ x # 0
                 /\ \E i \in 1..group.members : x = job[writers[i]].write /\ job[writers[i]].sync
    BY <1>1, <1>2, Completing
  <1>4. acked' \subseteq Id /\ synced' \subseteq acked'
    BY <1>1, <1>2, AckedTyped
  <1>5. StoreTyped' /\ CountsTyped'
    BY <1>1, <1>2, <1>4 DEF StoreTyped, CountsTyped, counts
  <1>6. ASSUME DataInv PROVE DataInv'
    <2>1. group.ok /\ mem' = mem \cup group.writes /\ Last' = Last /\ Len(logs) \in DOMAIN logs
          /\ Last = logs[Len(logs)]
      BY <1>1, <1>6, LogFacts DEF DataInv, NothingTorn, Last
    <2>2. writers[1] = w /\ \A x \in group.writes : Written(Last, x)
      BY <1>1, <1>6, FrontOnly DEF DataInv, GroupLogged
    <2>3. \A x \in acked' : x \in acked \/ Written(Last, x)
      BY <1>1, <1>3, <2>2 DEF OneLogger
    <2>4. \A x \in synced' : x \in synced \/ Synced(Last, x)
      <3>1. ASSUME NEW x, x # 0, NEW i \in 1..group.members, x = job[writers[i]].write,
                   job[writers[i]].sync
            PROVE  Synced(Last, x)
        <4>1. job[w].sync /\ x \in group.writes
          BY <1>1, <2>2, <3>1 DEF GroupLed, OneLogger
        <4> QED
          BY <1>1, <1>6, <4>1 DEF DataInv, GroupLogged
      <3> QED
        BY <1>3, <3>1
    <2>5. Reported'
      <3>1. /\ \A x \in acked' : x \in tables \/ \E i \in DOMAIN logs : Written(logs[i], x)
            /\ \A x \in synced' : x \in tables \/ \E i \in DOMAIN logs : Synced(logs[i], x)
        BY <1>6, <2>1, <2>3, <2>4 DEF DataInv, Reported
      <3> QED
        BY <1>1, <3>1 DEF Reported, Written, Synced, InLog
    <2>6. OldLogSaved'
      BY <1>1, <1>6 DEF DataInv, OldLogSaved, Written, InLog
    <2>7. LastLogHeld'
      <3>1. \A x : Pending(x) => x \in group.writes
        BY DEF Pending
      <3>2. bgError \/ \A x \in Id : Written(Last, x) => x \in mem' \/ x \in tables
        BY <1>6, <2>1, <3>1 DEF DataInv, LastLogHeld
      <3> QED
        BY <1>1, <2>1, <3>2 DEF LastLogHeld, Written, InLog
    <2>8. GroupLogged'
      BY <1>3 DEF GroupLogged, Working
    <2>9. NothingTorn'
      BY <1>1, <1>3, <1>6 DEF DataInv, NothingTorn, NoGroup
    <2> QED
      BY <2>5, <2>6, <2>7, <2>8, <2>9 DEF DataInv
  <1> QED
    BY <1>3, <1>5, <1>6 DEF ControlInv

LEMMA BackgroundCallKeeps ==
  ASSUME ControlInv, BackgroundCall
  PROVE  ControlInv' /\ (DataInv => DataInv')
  <1>1. /\ QueueInv /\ (at' = Wake(at) \/ at' = at)
        /\ UNCHANGED <<writers, job, group, mem, imm, logs, level0, tables, bgError, counts,
                       acked, synced>>
    BY DEF ControlInv, BackgroundCall
  <1>2. QueueInv' /\ \A w \in Writer, p \in Working : at'[w] = p <=> at[w] = p
    BY <1>1, Waking, NobodyMoving DEF writing
  <1>3. StoreTyped' /\ CountsTyped'
    <2>1. StoreTyped'
      BY <1>1 DEF ControlInv, StoreTyped
    <2>2. inputs' \in 0..level0 /\ bg' \in {"idle", "table", "major"}
      <3>1. level0 \in Nat /\ inputs \in 0..level0
        BY DEF ControlInv, CountsTyped
      <3>2. PickCompaction \subseteq 0..level0
        BY <3>1 DEF PickCompaction
      <3> QED
        BY <3>1, <3>2 DEF BackgroundCall
    <2> QED
      BY <1>1, <2>1, <2>2 DEF ControlInv, CountsTyped, counts
  <1>4. DataInv => DataInv'
    BY <1>1, <1>2, DataKept DEF Inserting, Working, DataInv, NothingTorn
  <1> QED
    BY <1>2, <1>3, <1>4 DEF ControlInv

LEMMA MajorDoneKeeps ==
  ASSUME ControlInv, MajorDone
  PROVE  ControlInv' /\ (DataInv => DataInv')
  <1>1. /\ QueueInv /\ at' = Wake(at)
        /\ UNCHANGED <<writers, job, group, mem, imm, logs, tables, bgError, counts,
                       acked, synced>>
    BY DEF ControlInv, MajorDone
  <1>2. QueueInv' /\ \A w \in Writer, p \in Working : at'[w] = p <=> at[w] = p
    BY <1>1, Waking
  <1>3. StoreTyped' /\ CountsTyped'
    BY DEF ControlInv, StoreTyped, CountsTyped, MajorDone, Scheduled, counts
  <1>4. DataInv => DataInv'
    BY <1>1, <1>2, DataKept DEF Inserting, Working, DataInv, NothingTorn
  <1> QED
    BY <1>2, <1>3, <1>4 DEF ControlInv

LEMMA BackgroundFailsKeeps ==
  ASSUME ControlInv, BackgroundFails
  PROVE  ControlInv' /\ (DataInv => DataInv')
  <1>1. /\ QueueInv /\ at' = Wake(at) /\ bgError'
        /\ UNCHANGED <<writers, job, group, mem, imm, logs, level0, tables, calls, crashes,
                       appendFaults, acked, synced>>
    BY DEF ControlInv, BackgroundFails
  <1>2. QueueInv' /\ \A w \in Writer, p \in Working : at'[w] = p <=> at[w] = p
    BY <1>1, Waking
  <1>3. StoreTyped' /\ CountsTyped'
    BY DEF ControlInv, StoreTyped, CountsTyped, BackgroundFails
  <1>4. DataInv => DataInv'
    BY <1>1, <1>2, DataKept DEF Inserting, Working, DataInv, NothingTorn
  <1> QED
    BY <1>2, <1>3, <1>4 DEF ControlInv

(***************************************************************************)
(* The memtable becomes a table, and what an older log held is in it.      *)
(***************************************************************************)
LEMMA CompactMemTableKeeps ==
  ASSUME ControlInv, NEW b \in {"idle", "major"}, CompactMemTable(b)
  PROVE  ControlInv' /\ (DataInv => DataInv')
  <1>1. /\ QueueInv /\ StoreTyped /\ CountsTyped /\ at' = Wake(at) /\ imm # None
        /\ tables' = tables \cup imm /\ imm' = None /\ logs' = <<Last>>
        /\ level0' \in {level0, level0 + 1} /\ bg' \in {b, "scheduled"}
        /\ UNCHANGED <<writers, job, group, mem, bgError, inputs, counts, acked, synced>>
    BY DEF ControlInv, CompactMemTable, Scheduled
  <1>2. QueueInv' /\ \A w \in Writer, p \in Working : at'[w] = p <=> at[w] = p
    BY <1>1, Waking
  <1>3. /\ Last \in Log /\ Last.durable <= Len(Last.recs)
        /\ DOMAIN logs = 1..Len(logs) /\ Last = logs[Len(logs)] /\ Len(logs) \in DOMAIN logs
        /\ Len(logs) \in Nat
        /\ \A i \in DOMAIN logs : logs[i] \in Log /\ logs[i].durable <= Len(logs[i].recs)
    BY <1>1, LogFacts
  <1>4. /\ logs' \in Seq(Log) /\ Len(logs') = 1 /\ DOMAIN logs' = 1..1
        /\ logs'[1] = Last /\ Last' = Last
        /\ \A i \in DOMAIN logs' : logs'[i] = Last
        /\ \A i \in DOMAIN logs' : logs'[i].durable <= Len(logs'[i].recs)
    BY <1>1, <1>3, OneLog
  <1>5. StoreTyped'
    BY <1>1, <1>4 DEF StoreTyped
  <1>6. CountsTyped'
    BY <1>1 DEF CountsTyped, counts
  <1>7. ASSUME DataInv PROVE DataInv'
    <2>1. \A n \in Nat : \A i \in 1..n : i = n \/ i \in 1..(n - 1)
      OBVIOUS
    <2>2. \A i \in DOMAIN logs, x \in Id :
            Written(logs[i], x) => Written(Last, x) \/ x \in tables'
      BY <1>1, <1>3, <1>7, <2>1 DEF DataInv, OldLogSaved
    <2>3. \A x \in acked : x \in tables' \/ Written(Last, x)
      BY <1>1, <1>7, <2>2 DEF DataInv, Reported, CountsTyped
    <2>4. \A x \in synced : x \in tables' \/ Synced(Last, x)
      <3> SUFFICES ASSUME NEW x \in synced, x \notin tables' PROVE Synced(Last, x)
        OBVIOUS
      <3>1. PICK i \in DOMAIN logs : Synced(logs[i], x)
        BY <1>1, <1>7 DEF DataInv, Reported
      <3>2. x \in Id /\ Written(logs[i], x)
        BY <1>1, <1>3, <3>1, InLogFacts DEF CountsTyped
      <3>3. i = Len(logs)
        BY <1>1, <1>3, <1>7, <2>1, <3>2 DEF DataInv, OldLogSaved
      <3> QED
        BY <1>3, <3>1, <3>3
    <2>5. Reported'
      <3>1. 1 \in DOMAIN logs'
        BY <1>4
      <3>2. /\ \A x \in acked : x \in tables' \/ Written(logs'[1], x)
            /\ \A x \in synced : x \in tables' \/ Synced(logs'[1], x)
        BY <1>4, <2>3, <2>4
      <3> QED
        BY <1>1, <3>1, <3>2 DEF Reported, Written, Synced, InLog
    <2>6. OldLogSaved'
      <3>1. \A i \in 1..(1 - 1) : FALSE
        OBVIOUS
      <3> QED
        BY <1>4, <3>1 DEF OldLogSaved
    <2>7. LastLogHeld'
      <3>1. \A x : Pending(x) <=> Pending(x)'
        BY <1>1, <1>2 DEF Pending, Working
      <3>2. bgError \/ \A x \in Id : Written(Last, x) => x \in mem \/ x \in tables \/ Pending(x)'
        BY <1>7, <3>1 DEF DataInv, LastLogHeld
      <3> QED
        BY <1>1, <1>4, <3>2 DEF LastLogHeld, Written, InLog
    <2>8. GroupLogged'
      BY <1>1, <1>2, <1>4, <1>7 DEF DataInv, GroupLogged, Working, Written, Synced, InLog
    <2>9. NothingTorn'
      BY <1>1, <1>3, <1>4, <1>7 DEF DataInv, NothingTorn
    <2> QED
      BY <2>5, <2>6, <2>7, <2>8, <2>9 DEF DataInv
  <1> QED
    BY <1>2, <1>5, <1>6, <1>7 DEF ControlInv

(***************************************************************************)
(* What was reported done is read back from the logs into tables.          *)
(***************************************************************************)
LEMMA CrashKeeps ==
  ASSUME ControlInv, NEW machine \in BOOLEAN, Crash(machine)
  PROVE  ControlInv' /\ (DataInv => DataInv')
  <1>1. /\ QueueInv /\ StoreTyped /\ CountsTyped
        /\ acked' = IF machine THEN synced ELSE acked
        /\ writers' = <<>> /\ at' = [w \in Writer |-> "idle"]
        /\ job' = [w \in Writer |-> NoJob] /\ group' = NoGroup
        /\ mem' = {} /\ imm' = None /\ logs' = <<NewLog>> /\ inputs' = 0
        /\ bgError' = FALSE /\ bg' \in {"idle", "scheduled"} /\ crashes' = crashes + 1
        /\ UNCHANGED <<calls, faults, appendFaults, synced>>
    BY DEF ControlInv, Crash, Scheduled
  <1>2. PICK read \in [DOMAIN logs -> 0..MaxWrites] :
          /\ \A i \in DOMAIN logs : read[i] \in Readable(logs[i], machine)
          /\ tables' = tables \cup UNION {First(logs[i], read[i]) : i \in DOMAIN logs}
          /\ level0' = level0 + Cardinality({i \in DOMAIN logs : read[i] > 0})
    BY DEF Crash
  <1>3. /\ DOMAIN logs = 1..Len(logs) /\ Len(logs) \in Nat
        /\ \A i \in DOMAIN logs : logs[i] \in Log /\ logs[i].durable <= Len(logs[i].recs)
    BY <1>1, LogFacts
  <1>4. QueueInv'
    BY <1>1, QueueEmptied
  <1>5. /\ logs' \in Seq(Log) /\ Len(logs') = 1 /\ DOMAIN logs' = 1..1
        /\ logs'[1] = NewLog /\ Last' = NewLog
        /\ \A i \in DOMAIN logs' : logs'[i] = NewLog
        /\ \A i \in DOMAIN logs' : logs'[i].durable <= Len(logs'[i].recs)
    BY <1>1, FreshLog, OneLog
  <1>6. tables' \subseteq Id
    <2>1. \A i \in DOMAIN logs : First(logs[i], read[i]) \subseteq Id
      <3> TAKE i \in DOMAIN logs
      <3>1. /\ logs[i].recs \in Seq(SUBSET Id) /\ read[i] \in 0..Len(logs[i].recs)
            /\ Len(logs[i].recs) \in Nat
        BY <1>2, <1>3 DEF Log, Readable
      <3>2. \A j \in 1..read[i] : j \in 1..Len(logs[i].recs)
        BY <3>1
      <3>3. \A j \in 1..read[i] : logs[i].recs[j] \in SUBSET Id
        BY <3>1, <3>2, ElementOfSeq
      <3> QED
        BY <3>3 DEF First
    <2> QED
      BY <1>1, <1>2, <2>1 DEF StoreTyped
  <1>7. level0' \in Nat
    <2>1. IsFiniteSet(1..Len(logs))
      BY <1>3, FS_Interval
    <2>2. IsFiniteSet({i \in DOMAIN logs : read[i] > 0})
      BY <1>3, <2>1, FS_Subset
    <2>3. Cardinality({i \in DOMAIN logs : read[i] > 0}) \in Nat
      BY <2>2, FS_CardinalityType
    <2> QED
      BY <1>1, <1>2, <2>3 DEF CountsTyped
  <1>8. StoreTyped'
    BY <1>1, <1>5, <1>6 DEF StoreTyped
  <1>9. CountsTyped'
    <2>1. acked' \subseteq Id /\ synced' \subseteq acked'
      BY <1>1 DEF CountsTyped
    <2>2. inputs' \in 0..level0'
      BY <1>1, <1>7
    <2>3. calls' \in 0..MaxWrites /\ appendFaults' \in Nat /\ crashes' \in Nat
      BY <1>1 DEF CountsTyped
    <2>4. bg' \in {"idle", "scheduled", "table", "major"} /\ bgError' \in BOOLEAN
      BY <1>1
    <2> QED
      BY <1>7, <2>1, <2>2, <2>3, <2>4 DEF CountsTyped
  <1>10. ASSUME DataInv PROVE DataInv'
    <2>1. \A i \in DOMAIN logs : /\ read[i] \in Nat /\ logs[i].durable <= read[i]
                                 /\ ~machine => read[i] = Len(logs[i].recs)
      <3> TAKE i \in DOMAIN logs
      <3>1. logs[i].torn = 0 /\ Len(logs[i].recs) \in Nat /\ logs[i].durable \in Nat
        BY <1>3, <1>10 DEF DataInv, NothingTorn, Log
      <3>2. /\ read[i] \in 0..Len(logs[i].recs)
            /\ (IF machine THEN logs[i].durable ELSE Len(logs[i].recs)) <= read[i]
        BY <1>2, <3>1 DEF Readable
      <3> QED
        BY <1>3, <3>1, <3>2
    <2>2. \A i \in DOMAIN logs : \A x :
            Synced(logs[i], x) \/ (~machine /\ Written(logs[i], x)) => x \in tables'
      <3> SUFFICES ASSUME NEW i \in DOMAIN logs, NEW x,
                          Synced(logs[i], x) \/ (~machine /\ Written(logs[i], x))
                   PROVE  x \in First(logs[i], read[i])
        BY <1>2
      <3>1. CASE Synced(logs[i], x)
        BY <1>3, <2>1, <3>1, InLogFacts
      <3>2. CASE ~machine /\ Written(logs[i], x)
        BY <1>3, <2>1, <3>2, InLogFacts DEF Written
      <3> QED
        BY <3>1, <3>2
    <2>3. \A x \in synced : x \in tables'
      BY <1>2, <1>10, <2>2 DEF DataInv, Reported
    <2>4. \A x \in acked' : x \in tables'
      <3>1. CASE machine
        BY <1>1, <2>3, <3>1
      <3>2. CASE ~machine
        BY <1>1, <1>2, <1>10, <2>2, <3>2 DEF DataInv, Reported
      <3> QED
        BY <3>1, <3>2
    <2>5. Reported'
      BY <1>1, <2>3, <2>4 DEF Reported
    <2>6. OldLogSaved'
      <3>1. \A i \in 1..(1 - 1) : FALSE
        OBVIOUS
      <3> QED
        BY <1>5, <3>1 DEF OldLogSaved
    <2>7. LastLogHeld'
      <3>1. \A x : ~Written(NewLog, x)
        BY FreshLog
      <3> QED
        BY <1>5, <3>1 DEF LastLogHeld, Written, InLog
    <2>8. GroupLogged'
      BY <1>1 DEF GroupLogged
    <2>9. NothingTorn'
      BY <1>1, <1>5, FreshLog DEF NothingTorn, NoGroup
    <2> QED
      BY <2>5, <2>6, <2>7, <2>8, <2>9 DEF DataInv
  <1> QED
    BY <1>4, <1>8, <1>9, <1>10 DEF ControlInv

LEMMA StutterKeeps ==
  ASSUME ControlInv, UNCHANGED vars
  PROVE  ControlInv' /\ (DataInv => DataInv')
  <1>1. QueueInv'
    BY NobodyMoving DEF ControlInv, vars
  <1>2. StoreTyped' /\ CountsTyped'
    BY DEF ControlInv, StoreTyped, CountsTyped, vars, counts
  <1>3. DataInv => DataInv'
    BY DataKept DEF vars, writing, DataInv, NothingTorn
  <1> QED
    BY <1>1, <1>2, <1>3 DEF ControlInv

-----------------------------------------------------------------------------
LEMMA Begins ==
  ASSUME Init
  PROVE  ControlInv /\ DataInv
  <1>1. QueueInv
    BY QueueEmpty DEF Init
  <1>2. /\ logs \in Seq(Log) /\ Len(logs) = 1 /\ DOMAIN logs = 1..1 /\ Last = NewLog
        /\ \A i \in DOMAIN logs : logs[i] = NewLog
    BY FreshLog DEF Init, Last
  <1>3. StoreTyped
    BY <1>2, FreshLog DEF Init, StoreTyped
  <1>7. CountsTyped
    <2>1. level0 \in Nat /\ 0 \in 0..level0 /\ 0 \in 0..MaxWrites
      BY SizesAssumption DEF Init
    <2>2. bg \in {"idle", "scheduled"}
      BY DEF Init
    <2> QED
      BY <2>1, <2>2 DEF Init, CountsTyped
  <1>4. Reported /\ GroupLogged
    BY DEF Init, Reported, GroupLogged
  <1>5. \A i \in 1..(1 - 1) : FALSE
    OBVIOUS
  <1>6. OldLogSaved /\ LastLogHeld /\ NothingTorn
    BY <1>2, <1>5, FreshLog DEF Init, OldLogSaved, LastLogHeld, NothingTorn, NoGroup
  <1> QED
    BY <1>1, <1>3, <1>4, <1>6, <1>7 DEF ControlInv, DataInv

LEMMA EveryStep ==
  ASSUME ControlInv, [Next]_vars
  PROVE  ControlInv' /\ (MaxAppendFaults = 0 /\ DataInv => DataInv')
  <1>1. ASSUME NEW w \in Writer, Steps(w)
        PROVE  ControlInv' /\ (MaxAppendFaults = 0 /\ DataInv => DataInv')
    <2>1. CASE Refuse(w) \/ NoNewLog(w)
      BY <2>1, RefusalKeeps
    <2>2. CASE Proceed(w)
      BY <2>2, ProceedKeeps
    <2>3. CASE WaitForRoom(w)
      BY <2>3, WaitForRoomKeeps
    <2>4. CASE SwitchMemtable(w)
      BY <2>4, SwitchMemtableKeeps
    <2>5. CASE AddRecord(w)
      BY <2>5, AddRecordKeeps
    <2>6. CASE AppendFails(w)
      BY <2>6, AppendFailsKeeps
    <2>7. CASE Sync(w)
      BY <2>7, SyncKeeps
    <2>8. CASE SyncFails(w)
      BY <2>8, SyncFailsKeeps
    <2>9. CASE Insert(w)
      BY <2>9, InsertKeeps
    <2> QED
      BY <1>1, <2>1, <2>2, <2>3, <2>4, <2>5, <2>6, <2>7, <2>8, <2>9 DEF Steps
  <1>2. ASSUME NEW w \in Writer, NEW sync \in BOOLEAN, NEW batch \in BOOLEAN, Call(w, sync, batch)
        PROVE  ControlInv' /\ (MaxAppendFaults = 0 /\ DataInv => DataInv')
    BY <1>2, CallKeeps
  <1>3. CASE Background
    <2>1. CASE BackgroundCall
      BY <2>1, BackgroundCallKeeps
    <2>2. CASE SaveMemTable \/ SaveBetween
      BY <2>2, CompactMemTableKeeps DEF SaveMemTable, SaveBetween
    <2>3. CASE MajorDone
      BY <2>3, MajorDoneKeeps
    <2>4. CASE BackgroundFails
      BY <2>4, BackgroundFailsKeeps
    <2> QED
      BY <1>3, <2>1, <2>2, <2>3, <2>4 DEF Background
  <1>4. ASSUME NEW machine \in BOOLEAN, Crash(machine)
        PROVE  ControlInv' /\ (MaxAppendFaults = 0 /\ DataInv => DataInv')
    BY <1>4, CrashKeeps
  <1>5. CASE UNCHANGED vars
    BY <1>5, StutterKeeps
  <1> QED
    BY <1>1, <1>2, <1>3, <1>4, <1>5 DEF Next

LEMMA ControlHolds == Spec => []ControlInv
  <1>1. Init => ControlInv
    BY Begins
  <1>2. ControlInv /\ [Next]_vars => ControlInv'
    BY EveryStep
  <1> QED
    BY <1>1, <1>2, PTL DEF Spec

LEMMA DataHolds ==
  ASSUME MaxAppendFaults = 0
  PROVE  Spec => [](ControlInv /\ DataInv)
  <1>1. Init => ControlInv /\ DataInv
    BY Begins
  <1>2. ControlInv /\ DataInv /\ [Next]_vars => (ControlInv /\ DataInv)'
    BY EveryStep
  <1> QED
    BY <1>1, <1>2, PTL DEF Spec

(***************************************************************************)
(* The state of the store stays of its type whatever the threads of Write, *)
(* the background thread and the crashes do.                               *)
(***************************************************************************)
THEOREM StoreIsTyped == Spec => []TypeOK
  <1>1. ControlInv => TypeOK
    BY Typed DEF ControlInv
  <1> QED
    BY <1>1, ControlHolds, PTL

(***************************************************************************)
(* Write lets one writer log at a time, and the group it built is still at *)
(* the front of the queue when it reports it done: also when an append, a  *)
(* sync or a table fails, and when others queue up meanwhile.              *)
(***************************************************************************)
THEOREM OnlyOneLogs == Spec => []OneLogger
  <1>1. ControlInv => OneLogger
    BY DEF ControlInv, QueueInv
  <1> QED
    BY <1>1, ControlHolds, PTL

LEMMA SureFacts ==
  ASSUME ControlInv, DataInv
  PROVE  AckedSurvive /\ SyncedSurvive
  <1>1. \A i \in DOMAIN logs : logs[i] \in Log /\ logs[i].durable <= Len(logs[i].recs) /\ logs[i].torn = 0
    BY LogFacts DEF ControlInv, DataInv, NothingTorn
  <1>2. \A i \in DOMAIN logs : \A x : Written(logs[i], x) => x \in Sure(logs[i], Len(logs[i].recs))
    <2> SUFFICES ASSUME NEW i \in DOMAIN logs, NEW x, Written(logs[i], x)
                 PROVE  x \in First(logs[i], Len(logs[i].recs))
      BY <1>1 DEF Sure
    <2>1. Len(logs[i].recs) \in Nat
      BY <1>1 DEF Log
    <2> QED
      BY <1>1, <2>1, InLogFacts DEF Written
  <1>3. \A i \in DOMAIN logs : \A x : Synced(logs[i], x) => x \in Sure(logs[i], logs[i].durable)
    <2> SUFFICES ASSUME NEW i \in DOMAIN logs, NEW x, Synced(logs[i], x)
                 PROVE  x \in First(logs[i], logs[i].durable)
      BY <1>1 DEF Sure
    <2>1. logs[i].durable \in Nat
      BY <1>1 DEF Log
    <2> QED
      BY <1>1, <2>1, InLogFacts DEF Synced
  <1>4. AckedSurvive
    BY <1>2 DEF DataInv, Reported, AckedSurvive, Survives
  <1>5. SyncedSurvive
    BY <1>3 DEF DataInv, Reported, SyncedSurvive, Survives
  <1> QED
    BY <1>4, <1>5

(***************************************************************************)
(* As long as no append to a log fails, a write that Write reported done   *)
(* is in a table or in a log, so a crash of the process does not lose it:  *)
(* whatever syncs, tables and new logs fail.                               *)
(***************************************************************************)
THEOREM AckedNeverLost ==
  ASSUME MaxAppendFaults = 0
  PROVE  Spec => []AckedSurvive
  <1>1. ControlInv /\ DataInv => AckedSurvive
    BY SureFacts
  <1> QED
    BY <1>1, DataHolds, PTL

(***************************************************************************)
(* Under the same condition a write with sync==true, whoever logged it, is *)
(* in a table or in the synced part of a log, and a crash of the machine   *)
(* does not lose it.                                                       *)
(***************************************************************************)
THEOREM SyncedNeverLost ==
  ASSUME MaxAppendFaults = 0
  PROVE  Spec => []SyncedSurvive
  <1>1. ControlInv /\ DataInv => SyncedSurvive
    BY SureFacts
  <1> QED
    BY <1>1, DataHolds, PTL

-----------------------------------------------------------------------------
Seen(x) == x \in mem \/ (imm # None /\ x \in imm) \/ x \in tables

(***************************************************************************)
(* A step that tells nobody a result and hides no write.                   *)
(***************************************************************************)
LEMMA StillVisible ==
  ASSUME AckedVisible, acked' = acked, \A x : Seen(x) => Seen(x)'
  PROVE  AckedVisible'
  <1>1. \A x : (x \in Memory <=> Seen(x)) /\ (x \in Memory' <=> Seen(x)')
    BY DEF Memory, Seen
  <1> QED
    BY <1>1 DEF AckedVisible

LEMMA InsertShows ==
  ASSUME ControlInv, AckedVisible, NEW w \in Writer, Insert(w)
  PROVE  AckedVisible'
  <1>1. /\ QueueInv /\ QueueTyped /\ OneLogger /\ GroupLed
        /\ at[w] = "insert" /\ Complete(group.members, group.ok)
        /\ mem' = IF group.ok THEN mem \cup group.writes ELSE mem
        /\ UNCHANGED <<imm, tables>>
    BY DEF ControlInv, QueueInv, Insert
  <1>2. group.members \in 1..Len(writers) /\ group.ok \in BOOLEAN
    BY <1>1, QueueFacts DEF QueueTyped, GroupLed, Working, Group
  <1>3. \A x \in acked' :
          \/ x \in acked
          \/ group.ok /\ x # 0 /\ \E i \in 1..group.members : x = job[writers[i]].write
    BY <1>1, <1>2, Completing
  <1>4. \A x \in acked' : x \in acked \/ (group.ok /\ x \in group.writes)
    BY <1>1, <1>3 DEF OneLogger
  <1>5. \A x \in acked : Seen(x)
    BY DEF AckedVisible, Memory, Seen
  <1>6. \A x \in acked' : Seen(x)'
    BY <1>1, <1>2, <1>4, <1>5 DEF Seen
  <1> QED
    BY <1>6 DEF AckedVisible, Memory, Seen

(***************************************************************************)
(* Switching and saving move a memtable on: no write is between them.      *)
(***************************************************************************)
LEMMA MemtableMoves ==
  ASSUME ControlInv, AckedVisible,
         (\E w \in Writer : SwitchMemtable(w)) \/ (\E b \in {"idle", "major"} : CompactMemTable(b))
  PROVE  AckedVisible'
  <1>1. ASSUME NEW w \in Writer, SwitchMemtable(w) PROVE AckedVisible'
    <2>1. acked' = acked
      BY <1>1, Built DEF SwitchMemtable
    <2>2. imm = None /\ imm' = mem /\ tables' = tables /\ mem # None
      BY <1>1, NoneAssumption DEF SwitchMemtable, Blocked, ControlInv, StoreTyped, Id
    <2> QED
      BY <2>1, <2>2, StillVisible DEF Seen
  <1>2. ASSUME NEW b \in {"idle", "major"}, CompactMemTable(b) PROVE AckedVisible'
    BY <1>2, StillVisible DEF CompactMemTable, Seen
  <1> QED
    BY <1>1, <1>2

LEMMA WriterShows ==
  ASSUME ControlInv, AckedVisible, NEW w \in Writer, Steps(w)
  PROVE  AckedVisible'
  <1>1. CASE Refuse(w) \/ NoNewLog(w)
    <2>1. QueueInv /\ Front(w) /\ at[w] = "awake" /\ Complete(1, FALSE) /\ 1 \in 1..Len(writers)
          /\ UNCHANGED <<mem, imm, tables>>
      BY <1>1, QueueFacts, FrontOnly DEF ControlInv, Refuse, NoNewLog
    <2>2. acked' = acked
      BY <2>1, CompletedNothing
    <2> QED
      BY <2>1, <2>2, StillVisible DEF Seen
  <1>2. CASE Proceed(w)
    <2>1. acked' = acked
      BY <1>2, Built DEF Proceed
    <2> QED
      BY <1>2, <2>1, StillVisible DEF Proceed, Seen
  <1>3. CASE WaitForRoom(w)
    BY <1>3, StillVisible DEF WaitForRoom, Seen
  <1>4. CASE SwitchMemtable(w)
    BY <1>4, MemtableMoves
  <1>5. CASE AddRecord(w) \/ AppendFails(w) \/ Sync(w)
    BY <1>5, StillVisible DEF AddRecord, AppendFails, Sync, Seen
  <1>6. CASE SyncFails(w)
    <2>1. /\ QueueInv /\ QueueTyped /\ GroupLed /\ at[w] = "syncing"
          /\ Complete(group.members, FALSE) /\ UNCHANGED <<mem, imm, tables>>
      BY <1>6 DEF ControlInv, SyncFails, QueueInv
    <2>a. group.members \in 1..Len(writers)
      BY <2>1, QueueFacts DEF QueueTyped, GroupLed, Working
    <2>2. acked' = acked
      BY <2>1, <2>a, CompletedNothing
    <2> QED
      BY <2>1, <2>2, StillVisible DEF Seen
  <1>7. CASE Insert(w)
    BY <1>7, InsertShows
  <1> QED
    BY <1>1, <1>2, <1>3, <1>4, <1>5, <1>6, <1>7 DEF Steps

\* Recovery shows what the logs still hold.
LEMMA CrashShows ==
  ASSUME ControlInv, DataInv, NEW machine \in BOOLEAN, Crash(machine)
  PROVE  AckedVisible'
  <1>1. DataInv'
    BY CrashKeeps
  <1>2. logs' = <<NewLog>> /\ \A x : ~Written(NewLog, x)
    BY FreshLog DEF Crash
  <1>3. \A i \in DOMAIN logs' : logs'[i] = NewLog
    BY <1>2
  <1>4. \A x \in acked' : x \in tables'
    BY <1>1, <1>2, <1>3 DEF DataInv, Reported, Written, InLog
  <1> QED
    BY <1>4 DEF AckedVisible, Memory

LEMMA EveryStepShows ==
  ASSUME ControlInv, AckedVisible, [Next]_vars,
         DataInv \/ MaxCrashes = 0
  PROVE  AckedVisible'
  <1>1. ASSUME NEW w \in Writer, Steps(w) PROVE AckedVisible'
    BY <1>1, WriterShows
  <1>2. ASSUME NEW w \in Writer, NEW sync \in BOOLEAN, NEW batch \in BOOLEAN, Call(w, sync, batch)
        PROVE  AckedVisible'
    BY <1>2, StillVisible DEF Call, Seen
  <1>3. CASE Background
    <2>1. CASE BackgroundCall \/ MajorDone \/ BackgroundFails
      BY <2>1, StillVisible DEF BackgroundCall, MajorDone, BackgroundFails, Seen
    <2>2. CASE SaveMemTable \/ SaveBetween
      BY <2>2, MemtableMoves DEF SaveMemTable, SaveBetween
    <2> QED
      BY <1>3, <2>1, <2>2 DEF Background
  <1>4. ASSUME NEW machine \in BOOLEAN, Crash(machine) PROVE AckedVisible'
    <2>1. crashes < MaxCrashes /\ crashes \in Nat
      BY <1>4 DEF Crash, ControlInv, CountsTyped
    <2>2. MaxCrashes # 0
      BY <2>1
    <2> QED
      BY <1>4, <2>2, CrashShows
  <1>5. CASE UNCHANGED vars
    BY <1>5, StillVisible DEF vars, Seen
  <1> QED
    BY <1>1, <1>2, <1>3, <1>4, <1>5 DEF Next

(***************************************************************************)
(* A write that Write reported done can be read from then on, while its    *)
(* memtable is switched and saved and whatever fails meanwhile: appends    *)
(* too if the process does not die, and across crashes if no append fails. *)
(* (After a torn record and a crash it may not: GroupCommitAppend.cfg.)     *)
(***************************************************************************)
THEOREM AckedAlwaysVisible ==
  ASSUME MaxCrashes = 0 \/ MaxAppendFaults = 0
  PROVE  Spec => []AckedVisible
  <1>1. Init => AckedVisible
    BY DEF Init, AckedVisible
  <1>2. CASE MaxCrashes = 0
    <2>1. ControlInv /\ AckedVisible /\ [Next]_vars => AckedVisible'
      BY <1>2, EveryStepShows
    <2> QED
      BY <1>1, <2>1, ControlHolds, PTL DEF Spec
  <1>3. CASE MaxAppendFaults = 0
    <2>1. ControlInv /\ DataInv /\ AckedVisible /\ [Next]_vars => AckedVisible'
      BY EveryStepShows
    <2>2. Spec => [](ControlInv /\ DataInv)
      BY <1>3, DataHolds
    <2> QED
      BY <1>1, <2>1, <2>2, PTL DEF Spec
  <1> QED
    BY <1>2, <1>3

-----------------------------------------------------------------------------
(***************************************************************************)
(* What EveryWriteReturns rests on: no wakeup is lost.  The background     *)
(* thread is scheduled or running while there is work for it, and while a  *)
(* writer waits for room: every way it can stop wakes that writer first.   *)
(***************************************************************************)
HasWork == imm # None \/ level0 >= L0Compact
RoomWatched ==
  /\ HasWork /\ ~bgError => bg # "idle"
  /\ \A w \in Writer : at[w] = "room" => bg # "idle"

\* Nobody begins to wait, and the background thread keeps what it had.
LEMMA StillWatched ==
  ASSUME RoomWatched, UNCHANGED <<bg, imm, level0>>, bgError => bgError',
         \A w \in Writer : at'[w] = "room" => at[w] = "room"
  PROVE  RoomWatched'
  BY DEF RoomWatched, HasWork

\* MaybeScheduleCompaction after a step that wakes everybody.
LEMMA Rescheduled ==
  ASSUME NEW b, Scheduled(b), \A w \in Writer : at'[w] # "room"
  PROVE  RoomWatched'
  BY DEF RoomWatched, HasWork, Scheduled, Work

LEMMA WokenUp ==
  ASSUME at' = Wake(at)
  PROVE  \A w \in Writer : at'[w] # "room"
  BY DEF Wake

LEMMA CompletingWaits ==
  ASSUME NEW n, NEW ok, Complete(n, ok)
  PROVE  \A w \in Writer : at'[w] = "room" => at[w] = "room"
  <1> DEFINE told == {writers[i] : i \in 1..n}
             next == SubSeq(writers, n + 1, Len(writers)) # <<>>
             first == Head(SubSeq(writers, n + 1, Len(writers)))
  <1>1. at' = [w \in Writer |-> IF w \in told THEN "idle"
                                ELSE IF next /\ first = w THEN "awake" ELSE at[w]]
    BY DEF Complete
  <1> HIDE DEF told, next, first
  <1> QED
    BY <1>1

LEMMA BuildingWaits ==
  ASSUME ControlInv, NEW w \in Writer, Build(w)
  PROVE  \A v \in Writer : at'[v] = "room" => at[v] = "room"
  <1>1. CASE job[w].write = 0
    BY <1>1, CompletingWaits DEF Build
  <1>2. CASE job[w].write # 0
    <2>1. at' = [at EXCEPT ![w] = "logging"]
      BY <1>2 DEF Build
    <2> QED
      BY <2>1 DEF ControlInv, QueueInv, QueueTyped
  <1> QED
    BY <1>1, <1>2

LEMMA WriterWatched ==
  ASSUME ControlInv, RoomWatched, NEW w \in Writer, Steps(w)
  PROVE  RoomWatched'
  <1>1. DOMAIN at = Writer
    BY QueueFacts DEF ControlInv
  <1>2. CASE Refuse(w) \/ NoNewLog(w) \/ SyncFails(w) \/ Insert(w)
    <2>1. \A v \in Writer : at'[v] = "room" => at[v] = "room"
      BY <1>2, CompletingWaits DEF Refuse, NoNewLog, SyncFails, Insert
    <2>2. UNCHANGED <<bg, imm, level0>>
      BY <1>2 DEF Refuse, NoNewLog, SyncFails, Insert
    <2>3. bgError' = bgError \/ bgError' = TRUE
      BY <1>2 DEF Refuse, NoNewLog, SyncFails, Insert
    <2>4. bgError => bgError'
      BY <2>3, Zenon
    <2> QED
      BY <2>1, <2>2, <2>4, StillWatched
  <1>3. CASE Proceed(w)
    BY <1>3, BuildingWaits, StillWatched DEF Proceed
  <1>4. CASE WaitForRoom(w)
    <2>1. /\ ~bgError /\ (imm # None \/ level0 >= L0Stop)
          /\ UNCHANGED <<bg, imm, level0, bgError>>
      BY <1>4 DEF WaitForRoom, Blocked
    <2>2. level0 >= L0Stop => level0 >= L0Compact
      BY SizesAssumption DEF ControlInv, CountsTyped
    <2>3. bg # "idle"
      BY <2>1, <2>2 DEF RoomWatched, HasWork
    <2> QED
      BY <2>1, <2>3 DEF RoomWatched
  <1>5. CASE SwitchMemtable(w)
    <2>1. Build(w) /\ Scheduled(bg) /\ bgError' = bgError
      BY <1>5 DEF SwitchMemtable
    <2>2. \A v \in Writer : at'[v] = "room" => bg # "idle"
      BY <2>1, BuildingWaits DEF RoomWatched
    <2> QED
      BY <2>1, <2>2 DEF RoomWatched, HasWork, Scheduled, Work
  <1>6. CASE AddRecord(w) \/ AppendFails(w) \/ Sync(w)
    <2>1. PICK p \in {"syncing", "insert"} : at' = [at EXCEPT ![w] = p]
      BY <1>6 DEF AddRecord, AppendFails, Sync
    <2>2. \A v \in Writer : at'[v] = "room" => at[v] = "room"
      BY <1>1, <2>1
    <2>3. UNCHANGED <<bg, imm, level0, bgError>>
      BY <1>6 DEF AddRecord, AppendFails, Sync
    <2> QED
      BY <2>2, <2>3, StillWatched
  <1> QED
    BY <1>2, <1>3, <1>4, <1>5, <1>6 DEF Steps

LEMMA EveryStepWatched ==
  ASSUME ControlInv, RoomWatched, [Next]_vars
  PROVE  RoomWatched'
  <1>1. ASSUME NEW w \in Writer, Steps(w) PROVE RoomWatched'
    BY <1>1, WriterWatched
  <1>2. ASSUME NEW w \in Writer, NEW sync \in BOOLEAN, NEW batch \in BOOLEAN, Call(w, sync, batch)
        PROVE  RoomWatched'
    <2>1. DOMAIN at = Writer
      BY QueueFacts DEF ControlInv
    <2>2. PICK p \in {"awake", "asleep"} : at' = [at EXCEPT ![w] = p]
      BY <1>2 DEF Call
    <2> QED
      BY <1>2, <2>1, <2>2, StillWatched DEF Call
  <1>3. CASE Background
    <2>1. CASE BackgroundCall
      <3>1. CASE bgError
        BY <2>1, <3>1, WokenUp DEF BackgroundCall, RoomWatched, HasWork
      <3>2. CASE ~bgError
        BY <2>1, <3>2 DEF BackgroundCall, RoomWatched
      <3> QED
        BY <3>1, <3>2
    <2>2. ASSUME NEW b \in {"idle", "major"}, CompactMemTable(b) PROVE RoomWatched'
      BY <2>2, WokenUp, Rescheduled DEF CompactMemTable
    <2>3. CASE MajorDone
      BY <2>3, WokenUp, Rescheduled DEF MajorDone
    <2>4. CASE BackgroundFails
      BY <2>4, WokenUp DEF BackgroundFails, RoomWatched
    <2> QED
      BY <1>3, <2>1, <2>2, <2>3, <2>4 DEF Background, SaveMemTable, SaveBetween
  <1>4. ASSUME NEW machine \in BOOLEAN, Crash(machine) PROVE RoomWatched'
    <2>1. Scheduled("idle") /\ at' = [w \in Writer |-> "idle"]
      BY <1>4 DEF Crash
    <2> QED
      BY <2>1, Rescheduled
  <1>5. CASE UNCHANGED vars
    BY <1>5, StillWatched DEF vars, writing
  <1> QED
    BY <1>1, <1>2, <1>3, <1>4, <1>5 DEF Next

(***************************************************************************)
(* A writer that waits for room is never left alone: the background thread *)
(* is scheduled or at work, whatever failed before, and the writer at the  *)
(* front of the queue is never one that sleeps until it is signalled.      *)
(***************************************************************************)
THEOREM NoWakeupIsLost ==
  Spec => [](RoomWatched /\ (writers # <<>> => at[writers[1]] \notin {"idle", "asleep"}))
  <1>1. Init => RoomWatched
    BY DEF Init, RoomWatched, HasWork
  <1>2. ControlInv /\ RoomWatched /\ [Next]_vars => RoomWatched'
    BY EveryStepWatched
  <1>3. ControlInv => (writers # <<>> => at[writers[1]] \notin {"idle", "asleep"})
    BY DEF ControlInv, QueueInv, OneLogger
  <1> QED
    BY <1>1, <1>2, <1>3, ControlHolds, PTL DEF Spec

-----------------------------------------------------------------------------
(***************************************************************************)
(* The log is ahead of the memtables: what is in the current memtable is   *)
(* in the last log or in a table, what is in the one being saved is in     *)
(* some log.                                                               *)
(***************************************************************************)
Logged(x) == x \in tables \/ \E i \in DOMAIN logs : Written(logs[i], x)
MemLogged ==
  /\ \A x \in mem : x \in tables \/ Written(Last, x)
  /\ imm # None => \A x \in imm : Logged(x)

LEMMA StillLogged ==
  ASSUME MemLogged, UNCHANGED <<mem, imm, logs, tables>>
  PROVE  MemLogged'
  <1>1. Last' = Last
    BY DEF Last
  <1> QED
    BY <1>1 DEF MemLogged, Logged, Written, InLog

LEMMA LogGrown ==
  ASSUME StoreTyped, MemLogged, NEW l \in Log, l.durable <= Len(l.recs), logs' = WithLast(l),
         \A x : Written(Last, x) => Written(l, x), UNCHANGED <<mem, imm, tables>>
  PROVE  MemLogged'
  <1>1. /\ DOMAIN logs' = DOMAIN logs /\ Last' = l
        /\ \A i \in DOMAIN logs : logs'[i] = IF i = Len(logs) THEN l ELSE logs[i]
    BY LastReplaced
  <1>2. Last = logs[Len(logs)]
    BY DEF Last
  <1>3. \A i \in DOMAIN logs : \A x : Written(logs[i], x) => Written(logs'[i], x)
    BY <1>1, <1>2
  <1>4. \A x : Logged(x) => x \in tables \/ \E i \in DOMAIN logs : Written(logs'[i], x)
    BY <1>3 DEF Logged
  <1>5. \A x : Logged(x) => Logged(x)'
    BY <1>1, <1>4 DEF Logged, Written, InLog
  <1>6. \A x : Written(l, x) => Written(Last, x)'
    BY <1>1 DEF Written, InLog
  <1> QED
    BY <1>5, <1>6 DEF MemLogged

LEMMA MemtableLogged ==
  ASSUME ControlInv, MemLogged,
         (\E w \in Writer : SwitchMemtable(w)) \/ (\E b \in {"idle", "major"} : CompactMemTable(b))
  PROVE  MemLogged'
  <1>1. StoreTyped /\ Last = logs[Len(logs)] /\ Len(logs) \in DOMAIN logs
        /\ Last \in Log /\ Last.durable <= Len(Last.recs)
    BY LogFacts DEF ControlInv
  <1>2. ASSUME NEW w \in Writer, SwitchMemtable(w) PROVE MemLogged'
    <2>1. imm = None /\ imm' = mem /\ mem' = {} /\ tables' = tables /\ logs' = Append(logs, NewLog)
      BY <1>2 DEF SwitchMemtable, Blocked
    <2>2. Len(logs) = 1
      BY <1>1, <2>1 DEF StoreTyped
    <2>3. DOMAIN logs' = 1..2 /\ logs'[1] = logs[1] /\ 1 \in 1..2
      BY <1>1, <2>1, <2>2, LogAdded
    <2>4. \A x \in mem : x \in tables \/ Written(logs'[1], x)
      BY <1>1, <2>2, <2>3 DEF MemLogged
    <2> QED
      BY <2>1, <2>3, <2>4 DEF MemLogged, Logged, Written, InLog
  <1>3. ASSUME NEW b \in {"idle", "major"}, CompactMemTable(b) PROVE MemLogged'
    <2>1. imm' = None /\ mem' = mem /\ tables' = tables \cup imm /\ logs' = <<Last>>
      BY <1>3 DEF CompactMemTable
    <2>2. Last' = Last
      BY <1>1, <2>1, OneLog
    <2> QED
      BY <2>1, <2>2 DEF MemLogged, Written, InLog
  <1> QED
    BY <1>2, <1>3

LEMMA WriterLogged ==
  ASSUME ControlInv, DataInv, MaxAppendFaults = 0, MemLogged, NEW w \in Writer, Steps(w)
  PROVE  MemLogged'
  <1>1. StoreTyped /\ Last \in Log /\ Last.durable <= Len(Last.recs)
    BY LogFacts DEF ControlInv
  <1>2. CASE Refuse(w) \/ NoNewLog(w) \/ SyncFails(w) \/ Proceed(w) \/ WaitForRoom(w)
    BY <1>2, StillLogged DEF Refuse, NoNewLog, SyncFails, Proceed, WaitForRoom
  <1>3. CASE SwitchMemtable(w)
    BY <1>3, MemtableLogged
  <1>4. CASE AddRecord(w)
    <2> DEFINE l == [Last EXCEPT !.recs = Append(@, group.writes)]
    <2>1. group.writes \in SUBSET Id
      BY DEF ControlInv, QueueInv, QueueTyped, Group
    <2>2. /\ l \in Log /\ l.durable <= Len(l.recs)
          /\ \A x : Written(l, x) <=> Written(Last, x) \/ x \in group.writes
      BY <1>1, <2>1, AppendedLog
    <2>3. logs' = WithLast(l) /\ UNCHANGED <<mem, imm, tables>>
      BY <1>4 DEF AddRecord
    <2> HIDE DEF l
    <2> QED
      BY <1>1, <2>2, <2>3, LogGrown
  <1>5. CASE AppendFails(w)
    BY <1>5, AppendFailsKeeps
  <1>6. CASE Sync(w)
    <2> DEFINE l == [Last EXCEPT !.durable = Len(Last.recs)]
    <2>1. /\ l \in Log /\ l.durable <= Len(l.recs)
          /\ \A x : Written(l, x) <=> Written(Last, x)
      BY <1>1, SyncedLog
    <2>2. logs' = WithLast(l) /\ UNCHANGED <<mem, imm, tables>>
      BY <1>6 DEF Sync
    <2> HIDE DEF l
    <2> QED
      BY <1>1, <2>1, <2>2, LogGrown
  <1>7. CASE Insert(w)
    <2>1. /\ at[w] = "insert" /\ (mem' = mem \/ mem' = mem \cup group.writes)
          /\ UNCHANGED <<imm, logs, tables>>
      BY <1>7 DEF Insert
    <2>2. Last' = Last /\ \A x \in group.writes : Written(Last, x)
      BY <2>1 DEF DataInv, GroupLogged, Last
    <2>3. \A x \in mem' : x \in tables \/ Written(Last, x)
      BY <2>1, <2>2 DEF MemLogged
    <2> QED
      BY <2>1, <2>2, <2>3 DEF MemLogged, Logged, Written, InLog
  <1> QED
    BY <1>2, <1>3, <1>4, <1>5, <1>6, <1>7 DEF Steps

LEMMA EveryStepLogged ==
  ASSUME ControlInv, DataInv, MaxAppendFaults = 0, MemLogged, [Next]_vars
  PROVE  MemLogged'
  <1>1. ASSUME NEW w \in Writer, Steps(w) PROVE MemLogged'
    BY <1>1, WriterLogged
  <1>2. ASSUME NEW w \in Writer, NEW sync \in BOOLEAN, NEW batch \in BOOLEAN, Call(w, sync, batch)
        PROVE  MemLogged'
    BY <1>2, StillLogged DEF Call
  <1>3. CASE Background
    <2>1. CASE BackgroundCall \/ MajorDone \/ BackgroundFails
      BY <2>1, StillLogged DEF BackgroundCall, MajorDone, BackgroundFails
    <2>2. CASE SaveMemTable \/ SaveBetween
      BY <2>2, MemtableLogged DEF SaveMemTable, SaveBetween
    <2> QED
      BY <1>3, <2>1, <2>2 DEF Background
  <1>4. ASSUME NEW machine \in BOOLEAN, Crash(machine) PROVE MemLogged'
    BY <1>4 DEF Crash, MemLogged
  <1>5. CASE UNCHANGED vars
    BY <1>5, StillLogged DEF vars
  <1> QED
    BY <1>1, <1>2, <1>3, <1>4, <1>5 DEF Next

(***************************************************************************)
(* As long as no append fails, whatever can be read, reported done or not, *)
(* is in a table or in a log: a reader never sees a write that a crash of  *)
(* the process takes back.                                                 *)
(***************************************************************************)
THEOREM WhatIsReadSurvives ==
  ASSUME MaxAppendFaults = 0
  PROVE  Spec => [](Memory \subseteq Survives(FALSE))
  <1>1. Init => MemLogged
    BY DEF Init, MemLogged
  <1>2. ControlInv /\ DataInv /\ MemLogged /\ [Next]_vars => MemLogged'
    BY EveryStepLogged
  <1>3. ControlInv /\ DataInv /\ MemLogged => Memory \subseteq Survives(FALSE)
    <2> SUFFICES ASSUME ControlInv, DataInv, MemLogged, NEW x \in Memory
                 PROVE  x \in Survives(FALSE)
      OBVIOUS
    <2>1. Len(logs) \in DOMAIN logs /\ Last = logs[Len(logs)]
      BY LogFacts DEF ControlInv
    <2>2. Logged(x)
      BY <2>1 DEF Memory, MemLogged, Logged
    <2>3. ASSUME NEW i \in DOMAIN logs, Written(logs[i], x)
          PROVE  x \in Sure(logs[i], Len(logs[i].recs))
      <3>1. logs[i] \in Log /\ logs[i].durable <= Len(logs[i].recs) /\ logs[i].torn = 0
            /\ Len(logs[i].recs) \in Nat
        BY LogFacts DEF ControlInv, DataInv, NothingTorn, Log
      <3>2. x \in First(logs[i], Len(logs[i].recs))
        BY <2>3, <3>1, InLogFacts DEF Written
      <3> QED
        BY <3>1, <3>2 DEF Sure
    <2> QED
      BY <2>2, <2>3 DEF Logged, Survives
  <1> QED
    BY <1>1, <1>2, <1>3, DataHolds, PTL DEF Spec
=============================================================================
