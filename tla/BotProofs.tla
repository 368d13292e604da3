------------------------------ MODULE BotProofs ------------------------------
(***************************************************************************)
(* Proofs about the machines of sw-bot: what the journal keeps, and how often *)
(* it has a task run, for any number of tasks, threads and deaths of the     *)
(* process; events, for any                                                  *)
(* number of repetitions, lifetimes of an id and restarts; the connections,  *)
(* for any threads, sizes of the pool and replacements of it; votes, for any *)
(* voters and clicks; the rows of messages, for any messages and edits.      *)
(***************************************************************************)
EXTENDS TaskJournal, SlackEvents, DbPool, MetaVotes, Relay, SumsProofs

USE TasksAssumption, BoundsAssumption

(* Ids that have been made belong to a task; the others belong to none, and *)
(* the file does not know them.                                             *)
Owned ==
  \A i \in Ids :
    /\ i < next => owner[i] \in Tasks
    /\ ~(i < next) => owner[i] = NoTask /\ journal[i] = "none"

(* Only ids that have been made travel.                                      *)
Travelling ==
  /\ \A k \in 1 .. Len(queue) : queue[k] < next
  /\ \A c \in Callers : caller[c] < next
  /\ worker.id < next
  /\ \A i \in todo : i < next

(* Past the call, the task in hand has been run.                             *)
RanCounts == worker.pc = "ran" => runs[owner[worker.id]] > 0

(* While it is rewritten the file is empty.                                  *)
EmptyFile == boot = "rewrite" => \A i \in Ids : journal[i] = "none"

IInv == TypeOK /\ Owned /\ Travelling /\ RanCounts /\ EmptyFile

------------------------------------------------------------------------------
LEMMA InvInit == Init => IInv /\ NothingForgotten
<1> SUFFICES ASSUME Init PROVE IInv /\ NothingForgotten
  OBVIOUS
<1>1. TypeOK
  BY DEF Init, TypeOK, Ids
<1>2. Owned /\ Travelling /\ RanCounts /\ EmptyFile
  BY DEF Init, Owned, Travelling, RanCounts, EmptyFile, Ids
<1>3. NothingForgotten
  BY DEF Init, NothingForgotten
<1> QED
  BY <1>1, <1>2, <1>3 DEF IInv

(* What a record does to the file.                                           *)
LEMMA RecordEffect ==
  ASSUME TypeOK, NEW i \in Ids, NEW s \in {"pending", "started", "done"}, Record(i, s)
  PROVE  /\ journal' \in [Ids -> {"none", "pending", "started", "done"}]
         /\ \A k \in Ids \ {i} : journal'[k] = journal[k]
         /\ journal'[i] \in {journal[i], s}
  BY DEF TypeOK, Record

LEMMA NoteEffect ==
  ASSUME TypeOK, NEW i \in Ids, NEW s \in {"started", "done"}, Note(i, s)
  PROVE  /\ journal' \in [Ids -> {"none", "pending", "started", "done"}]
         /\ \A k \in Ids \ {i} : journal'[k] = journal[k]
         /\ journal'[i] \in {journal[i], s}
         /\ journal[i] = "none" => journal'[i] = "none"
  BY RecordEffect DEF TypeOK, Note

------------------------------------------------------------------------------
(* Each action keeps the invariant.                                          *)

LEMMA EnqueueKeeps ==
  ASSUME IInv, NothingForgotten, NEW c \in Callers, NEW t \in Tasks, Enqueue(c, t)
  PROVE  IInv' /\ NothingForgotten'
<1> USE DEF IInv
<1>1. next \in Ids /\ next' = next + 1
  BY DEF Enqueue, TypeOK, Ids
<1>2. /\ journal' \in [Ids -> {"none", "pending", "started", "done"}]
      /\ \A k \in Ids \ {next} : journal'[k] = journal[k]
  BY <1>1, RecordEffect DEF Enqueue
<1>3. /\ owner' \in [Ids -> Tasks \cup {NoTask}]
      /\ owner'[next] = t
      /\ \A k \in Ids \ {next} : owner'[k] = owner[k]
  BY <1>1 DEF Enqueue, TypeOK
<1>4. TypeOK'
  BY <1>1, <1>2, <1>3 DEF Enqueue, TypeOK, Ids
<1>5. Owned'
  BY <1>1, <1>2, <1>3 DEF Enqueue, Owned, TypeOK, Ids
<1>6. Travelling'
  BY <1>1 DEF Enqueue, Travelling, TypeOK, Ids
<1>7. RanCounts'
  <2>1. worker.pc = "ran" => worker.id \in Ids /\ worker.id # next
    BY DEF TypeOK, Travelling
  <2> QED
    BY <2>1, <1>3 DEF Enqueue, RanCounts
<1>8. EmptyFile'
  BY DEF Enqueue, EmptyFile
<1>9. NothingForgotten'
  <2> SUFFICES ASSUME NEW u \in kept'
               PROVE  runs'[u] > 0 \/ Remembered(u)' \/ u \in lost'
    BY DEF NothingForgotten
  <2>1. CASE u \notin kept
    BY <2>1, <1>1, <1>3 DEF Enqueue, Remembered, Pending
  <2>2. CASE u \in kept
    <3>1. ASSUME NEW i \in Ids, owner[i] = u,
                 i \in Pending \/ (boot = "rewrite" /\ i \in todo)
          PROVE  Remembered(u)'
      <4>1. i # next
        BY <3>1, <1>1 DEF Owned, TypeOK, Pending, Travelling
      <4> QED
        BY <3>1, <4>1, <1>2, <1>3 DEF Enqueue, Remembered, Pending
    <3> QED
      BY <2>2, <3>1 DEF Enqueue, NothingForgotten, Remembered
  <2> QED
    BY <2>1, <2>2
<1> QED
  BY <1>4, <1>5, <1>6, <1>7, <1>8, <1>9

LEMMA PutKeeps ==
  ASSUME IInv, NothingForgotten, NEW c \in Callers, Put(c)
  PROVE  IInv' /\ NothingForgotten'
<1> USE DEF IInv
<1>1. caller[c] \in Ids /\ caller[c] < next
  BY DEF Put, TypeOK, Travelling
<1>2. TypeOK'
  BY <1>1 DEF Put, TypeOK
<1>3. Travelling'
  <2>1. \A k \in 1 .. Len(queue') : queue'[k] < next
    BY <1>1 DEF Put, TypeOK, Travelling
  <2> QED
    BY <2>1 DEF Put, Travelling, TypeOK
<1>4. Owned' /\ RanCounts' /\ EmptyFile'
  BY DEF Put, Owned, RanCounts, EmptyFile
<1>5. NothingForgotten'
  BY DEF Put, NothingForgotten, Remembered, Pending
<1> QED
  BY <1>2, <1>3, <1>4, <1>5

LEMMA GetKeeps ==
  ASSUME IInv, NothingForgotten, Get
  PROVE  IInv' /\ NothingForgotten'
<1> USE DEF IInv
<1>1. Head(queue) \in Ids /\ Head(queue) < next /\ Tail(queue) \in Seq(Ids)
  BY DEF Get, TypeOK, Travelling
<1>2. TypeOK'
  BY <1>1 DEF Get, TypeOK, Ids
<1>3. Travelling'
  <2>1. \A k \in 1 .. Len(queue') : queue'[k] < next
    BY DEF Get, TypeOK, Travelling
  <2> QED
    BY <1>1, <2>1 DEF Get, Travelling, TypeOK
<1>4. Owned' /\ RanCounts' /\ EmptyFile'
  BY DEF Get, Owned, RanCounts, EmptyFile
<1>5. NothingForgotten'
  BY DEF Get, NothingForgotten, Remembered, Pending
<1> QED
  BY <1>2, <1>3, <1>4, <1>5

LEMMA StartKeeps ==
  ASSUME IInv, NothingForgotten, Start
  PROVE  IInv' /\ NothingForgotten'
<1> USE DEF IInv
<1>1. worker.id \in Ids /\ worker.id < next
  BY DEF Start, TypeOK, Travelling
<1>2. /\ journal' \in [Ids -> {"none", "pending", "started", "done"}]
      /\ \A k \in Ids \ {worker.id} : journal'[k] = journal[k]
      /\ journal'[worker.id] \in {journal[worker.id], "started"}
      /\ journal[worker.id] = "none" => journal'[worker.id] = "none"
  BY <1>1, NoteEffect DEF Start
<1>3. worker' = [pc |-> "started", id |-> worker.id]
  BY DEF Start, TypeOK
<1>4. TypeOK'
  BY <1>1, <1>2, <1>3 DEF Start, TypeOK
<1>5. Owned' /\ Travelling' /\ RanCounts'
  BY <1>1, <1>2, <1>3 DEF Start, Owned, Travelling, RanCounts
<1>6. EmptyFile'
  BY <1>1, <1>2 DEF Start, EmptyFile
<1>7. Pending \subseteq Pending'
  BY <1>1, <1>2 DEF Pending
<1>8. NothingForgotten'
  BY <1>7 DEF Start, NothingForgotten, Remembered
<1> QED
  BY <1>4, <1>5, <1>6, <1>8

LEMMA RunKeeps ==
  ASSUME IInv, NothingForgotten, Run
  PROVE  IInv' /\ NothingForgotten'
<1> USE DEF IInv
<1>1. worker.id \in Ids /\ worker.id < next
  BY DEF Run, TypeOK, Travelling
<1>2. owner[worker.id] \in Tasks
  BY <1>1 DEF Owned
<1>3. worker' = [pc |-> "ran", id |-> worker.id]
  BY DEF Run, TypeOK
<1>4. /\ runs' \in [Tasks -> Nat]
      /\ runs'[owner[worker.id]] > 0
      /\ \A t \in Tasks : runs[t] > 0 => runs'[t] > 0
  BY <1>2 DEF Run, TypeOK
<1>5. TypeOK'
  BY <1>1, <1>3, <1>4 DEF Run, TypeOK
<1>6. Owned' /\ Travelling' /\ EmptyFile'
  BY <1>1, <1>3 DEF Run, Owned, Travelling, EmptyFile
<1>7. RanCounts'
  BY <1>3, <1>4 DEF Run, RanCounts
<1>8. NothingForgotten'
  BY <1>4 DEF Run, NothingForgotten, Remembered, Pending, TypeOK
<1> QED
  BY <1>5, <1>6, <1>7, <1>8

(* The one step that takes an id out of Pending: its task has been run.      *)
LEMMA DoneKeeps ==
  ASSUME IInv, NothingForgotten, Done
  PROVE  IInv' /\ NothingForgotten'
<1> USE DEF IInv
<1>1. worker.id \in Ids /\ worker.id < next /\ runs[owner[worker.id]] > 0
  BY DEF Done, TypeOK, Travelling, RanCounts
<1>2. /\ journal' \in [Ids -> {"none", "pending", "started", "done"}]
      /\ \A k \in Ids \ {worker.id} : journal'[k] = journal[k]
      /\ journal'[worker.id] \in {journal[worker.id], "done"}
      /\ journal[worker.id] = "none" => journal'[worker.id] = "none"
  BY <1>1, NoteEffect DEF Done
<1>3. owner[worker.id] \in Tasks
  BY <1>1 DEF Owned
<1>4. next # 0 /\ 0 < next
  BY DEF TypeOK
<1>5. TypeOK'
  BY <1>1, <1>2, <1>3 DEF Done, TypeOK
<1>6. Owned' /\ Travelling' /\ RanCounts'
  BY <1>1, <1>2, <1>4 DEF Done, Owned, Travelling, RanCounts
<1>7. EmptyFile'
  BY <1>1, <1>2 DEF Done, EmptyFile
<1>8. NothingForgotten'
  <2> SUFFICES ASSUME NEW u \in kept, ~(runs[u] > 0), u \notin lost
               PROVE  Remembered(u)'
    BY DEF Done, NothingForgotten
  <2>1. PICK i \in Ids : /\ owner[i] = u
                         /\ i \in Pending \/ (boot = "rewrite" /\ i \in todo)
    BY DEF NothingForgotten, Remembered
  <2>2. i # worker.id
    BY <2>1, <1>1
  <2> QED
    BY <2>1, <2>2, <1>2 DEF Done, Remembered, Pending
<1> QED
  BY <1>5, <1>6, <1>7, <1>8

------------------------------------------------------------------------------
(* The process dies, and starts again.                                       *)

LEMMA CrashKeeps ==
  ASSUME IInv, NothingForgotten, Crash
  PROVE  IInv' /\ NothingForgotten'
<1> USE DEF IInv
<1>1. /\ boot' = "down" /\ queue' = <<>> /\ todo' = {}
      /\ caller' = [c \in Callers |-> 0]
      /\ worker' = [pc |-> "idle", id |-> 0]
      /\ crashes' = crashes + 1
      /\ UNCHANGED <<owner, next, runs, kept, finished>>
  BY DEF Crash
<1>2. 0 < next
  BY DEF TypeOK
<1>3. Travelling' /\ RanCounts' /\ EmptyFile'
  BY <1>1, <1>2 DEF Travelling, RanCounts, EmptyFile
<1>4. CASE boot # "rewrite"
  <2>1. UNCHANGED <<journal, lost>>
    BY <1>4 DEF Crash
  <2>2. TypeOK' /\ Owned'
    BY <1>1, <2>1 DEF TypeOK, Owned
  <2>3. NothingForgotten'
    BY <1>1, <1>4, <2>1 DEF NothingForgotten, Remembered, Pending
  <2> QED
    BY <1>3, <2>2, <2>3
<1>5. CASE boot = "rewrite"
  <2>1. PICK S \in SUBSET todo :
          /\ journal' = [i \in Ids |-> IF i \in S THEN "pending" ELSE "none"]
          /\ lost' = lost \cup {owner[i] : i \in todo \ S}
    BY <1>5 DEF Crash, Rewritten
  <2>2. \A i \in todo : i \in Ids /\ i < next /\ owner[i] \in Tasks
    BY DEF TypeOK, Travelling, Owned
  <2>3. TypeOK'
    BY <1>1, <2>1, <2>2 DEF TypeOK
  <2>4. Owned'
    BY <1>1, <2>1, <2>2 DEF Owned
  <2>5. NothingForgotten'
    <3> SUFFICES ASSUME NEW u \in kept, ~(runs[u] > 0), u \notin lost'
                 PROVE  Remembered(u)'
      BY <1>1 DEF NothingForgotten
    <3>1. PICK i \in Ids : owner[i] = u /\ i \in todo
      BY <1>5, <2>1 DEF NothingForgotten, Remembered, Pending, EmptyFile
    <3>2. i \in S
      BY <3>1, <2>1
    <3> QED
      BY <3>1, <3>2, <1>1, <2>1 DEF Remembered, Pending
  <2> QED
    BY <1>3, <2>3, <2>4, <2>5
<1> QED
  BY <1>4, <1>5

LEMMA LoadKeeps ==
  ASSUME IInv, NothingForgotten, Load
  PROVE  IInv' /\ NothingForgotten'
<1> USE DEF IInv
<1>1. \A i \in Pending : i \in Ids /\ i < next
  BY DEF Pending, Owned
<1>2. TypeOK' /\ Travelling'
  BY <1>1 DEF Load, TypeOK, Travelling
<1>3. Owned' /\ RanCounts'
  BY DEF Load, Owned, RanCounts
<1>4. EmptyFile'
  BY DEF Load, EmptyFile
<1>5. NothingForgotten'
  BY DEF Load, NothingForgotten, Remembered, Pending
<1> QED
  BY <1>2, <1>3, <1>4, <1>5

LEMMA RewriteKeeps ==
  ASSUME IInv, NothingForgotten, Rewrite
  PROVE  IInv' /\ NothingForgotten'
<1> USE DEF IInv
<1>1. PICK S \in SUBSET todo :
        /\ journal' = [i \in Ids |-> IF i \in S THEN "pending" ELSE "none"]
        /\ lost' = lost \cup {owner[i] : i \in todo \ S}
  BY DEF Rewrite, Rewritten
<1>2. \A i \in todo : i \in Ids /\ i < next /\ owner[i] \in Tasks
  BY DEF TypeOK, Travelling, Owned
<1>3. TypeOK'
  BY <1>1, <1>2 DEF Rewrite, TypeOK
<1>4. Owned'
  BY <1>1, <1>2 DEF Rewrite, Owned
<1>5. Travelling' /\ RanCounts' /\ EmptyFile'
  BY DEF Rewrite, Travelling, RanCounts, EmptyFile
<1>6. NothingForgotten'
  <2> SUFFICES ASSUME NEW u \in kept, ~(runs[u] > 0), u \notin lost'
               PROVE  Remembered(u)'
    BY DEF Rewrite, NothingForgotten
  <2>1. PICK i \in Ids : owner[i] = u /\ i \in todo
    BY <1>1 DEF Rewrite, NothingForgotten, Remembered, Pending, EmptyFile
  <2>2. i \in S
    BY <2>1, <1>1
  <2> QED
    BY <2>1, <2>2, <1>1 DEF Rewrite, Remembered, Pending
<1> QED
  BY <1>3, <1>4, <1>5, <1>6

LEMMA ReplayKeeps ==
  ASSUME IInv, NothingForgotten, NEW i \in Ids, Replay(i)
  PROVE  IInv' /\ NothingForgotten'
<1> USE DEF IInv
<1>1. i \in todo /\ i < next /\ owner[i] \in Tasks /\ todo' = todo \ {i}
  BY DEF Replay, Travelling, Owned
<1>2. boot = "replay" /\ boot' = "replay"
  BY DEF Replay
<1>3. CASE Requeue(i)
  <2>1. next \in Ids /\ next' = next + 1 /\ queue' = Append(queue, next)
    BY <1>3 DEF Requeue, TypeOK, Ids
  <2>2. /\ journal' \in [Ids -> {"none", "pending", "started", "done"}]
        /\ \A k \in Ids \ {next} : journal'[k] = journal[k]
    BY <1>3, <2>1, RecordEffect DEF Requeue
  <2>3. /\ owner' \in [Ids -> Tasks \cup {NoTask}]
        /\ owner'[next] = owner[i]
        /\ \A k \in Ids \ {next} : owner'[k] = owner[k]
    BY <1>1, <1>3, <2>1 DEF Requeue, TypeOK
  <2>4. TypeOK'
    BY <1>1, <1>2, <2>1, <2>2, <2>3 DEF Replay, TypeOK, Ids
  <2>5. Owned'
    BY <1>1, <2>1, <2>2, <2>3 DEF Owned, TypeOK, Ids
  <2>6. Travelling'
    <3>1. \A k \in 1 .. Len(queue') : queue'[k] < next'
      BY <2>1 DEF TypeOK, Travelling, Ids
    <3>2. \A n \in Nat : n < next => n < next'
      BY <2>1 DEF TypeOK
    <3>3. caller' = caller /\ worker' = worker
      BY DEF Replay
    <3>4. worker.id \in Nat /\ \A c \in Callers : caller[c] \in Nat
      BY DEF TypeOK, Ids
    <3>5. /\ \A c \in Callers : caller'[c] < next'
          /\ worker'.id < next'
      BY <3>2, <3>3, <3>4 DEF Travelling
    <3>6. \A k \in todo' : k < next'
      BY <1>1, <2>1 DEF Travelling, TypeOK, Ids
    <3> QED
      BY <3>1, <3>5, <3>6 DEF Travelling
  <2>7. RanCounts'
    <3>1. worker.pc = "ran" => worker.id \in Ids /\ worker.id # next
      BY DEF TypeOK, Travelling
    <3> QED
      BY <3>1, <2>3 DEF Replay, RanCounts
  <2>8. NothingForgotten'
    <3> SUFFICES ASSUME NEW u \in kept, ~(runs[u] > 0), u \notin lost
                 PROVE  Remembered(u)'
      BY DEF Replay, NothingForgotten
    <3>1. PICK k \in Ids : owner[k] = u /\ k \in Pending
      BY <1>2 DEF NothingForgotten, Remembered
    <3>2. k # next
      BY <3>1, <2>1 DEF Owned, Pending, TypeOK
    <3> QED
      BY <3>1, <3>2, <2>2, <2>3 DEF Remembered, Pending
  <2> QED
    BY <1>2, <2>4, <2>5, <2>6, <2>7, <2>8 DEF EmptyFile
<1>4. CASE UNCHANGED <<journal, owner, next, queue>>
  <2>1. UNCHANGED <<journal, owner, next, queue, caller, worker, boot, runs,
                    crashes, kept, finished, lost>>
    BY <1>4 DEF Replay
  <2>2. TypeOK'
    BY <1>1, <2>1 DEF TypeOK
  <2>3. Owned' /\ Travelling' /\ RanCounts' /\ EmptyFile'
    BY <1>1, <1>2, <2>1 DEF Owned, Travelling, RanCounts, EmptyFile
  <2>4. NothingForgotten'
    BY <1>2, <2>1 DEF NothingForgotten, Remembered, Pending
  <2> QED
    BY <2>2, <2>3, <2>4
<1> QED
  BY <1>3, <1>4 DEF Replay

LEMMA UpKeeps ==
  ASSUME IInv, NothingForgotten, Up
  PROVE  IInv' /\ NothingForgotten'
<1> USE DEF IInv
<1>1. IInv'
  BY DEF Up, TypeOK, Owned, Travelling, RanCounts, EmptyFile
<1>2. NothingForgotten'
  BY DEF Up, NothingForgotten, Remembered, Pending
<1> QED
  BY <1>1, <1>2

------------------------------------------------------------------------------
LEMMA InvStep == IInv /\ NothingForgotten /\ [Next]_vars => IInv' /\ NothingForgotten'
<1> SUFFICES ASSUME IInv, NothingForgotten, [Next]_vars
             PROVE  IInv' /\ NothingForgotten'
  OBVIOUS
<1>1. CASE \E c \in Callers : Put(c) \/ \E t \in Tasks : Enqueue(c, t)
  BY <1>1, PutKeeps, EnqueueKeeps
<1>2. CASE Worker
  BY <1>2, GetKeeps, StartKeeps, RunKeeps, DoneKeeps DEF Worker
<1>3. CASE Boot
  BY <1>3, LoadKeeps, RewriteKeeps, ReplayKeeps, UpKeeps DEF Boot
<1>4. CASE Crash
  BY <1>4, CrashKeeps
<1>5. CASE UNCHANGED vars
  BY <1>5 DEF vars, IInv, TypeOK, Owned, Travelling, RanCounts, EmptyFile,
              NothingForgotten, Remembered, Pending
<1> QED
  BY <1>1, <1>2, <1>3, <1>4, <1>5 DEF Next

(* Whatever dies and whenever, the queue, the file and the threads hold ids *)
(* that were made, of tasks that were asked for.                             *)
THEOREM JournalTypes == Spec => []TypeOK
<1>1. IInv => TypeOK
  BY DEF IInv
<1> QED
  BY InvInit, InvStep, <1>1, PTL DEF Spec

(* A task whose record reached the journal has been run, or the next start  *)
(* knows of it, or a death in the middle of compact() took it.              *)
THEOREM NoTaskForgotten == Spec => []NothingForgotten
BY InvInit, InvStep, PTL DEF Spec

------------------------------------------------------------------------------
(* Doubling                                                                  *)

(* Ids on their way to a run: in the queue, in a caller's hands, in the      *)
(* worker's.                                                                 *)
InQueue == {queue[k] : k \in 1 .. Len(queue)}
InHands == {i \in Ids : \E c \in Callers : caller[c] = i}
InWork == {i \in Ids : worker.pc \in {"taken", "started"} /\ worker.id = i}
Held == InQueue \cup InHands \cup InWork

(* An id travels in one place, once, and the file does not have it as done.  *)
HeldOnce ==
  /\ \A j, k \in 1 .. Len(queue) : queue[j] = queue[k] => j = k
  /\ \A c, d \in Callers : caller[c] = caller[d] /\ caller[c] # 0 => c = d
  /\ InQueue \cap InHands = {}
  /\ worker.pc # "idle" => worker.id \notin InQueue \cup InHands
  /\ \A i \in Held : journal[i] # "done"

(* A start finds no caller and no worker, and before it replays no queue.    *)
Starting ==
  /\ boot # "up" => (\A c \in Callers : caller[c] = 0) /\ worker.pc = "idle"
  /\ boot \in {"down", "rewrite"} => queue = <<>>
  /\ boot \in {"up", "down"} => todo = {}

HeldOf(t) == {i \in Held : owner[i] = t}
TodoOf(t) == {i \in todo : owner[i] = t}
FiledOf(t) == {i \in Pending : owner[i] = t}

(* Runs done and to come, and copies in the file and to be replayed, are no  *)
(* more than a death may leave to double: half as many between the death and *)
(* the replay.                                                               *)
Doubled(t, power) ==
  /\ runs[t] + Cardinality(HeldOf(t)) + Cardinality(TodoOf(t)) <= power
  /\ Cardinality(FiledOf(t)) + Cardinality(TodoOf(t)) <= power
  /\ boot = "down" => 2 * runs[t] <= power /\ 2 * Cardinality(FiledOf(t)) <= power
  /\ boot = "rewrite" => 2 * Cardinality(TodoOf(t)) <= power
  /\ (\A i \in Ids : owner[i] # t) => runs[t] = 0

DoublingInv == HeldOnce /\ Starting /\ \A t \in Tasks : Doubled(t, 2^crashes)

LEMMA Sizes ==
  ASSUME NEW S, IsFiniteSet(S)
  PROVE  /\ Cardinality(S) \in Nat
         /\ \A T \in SUBSET S : IsFiniteSet(T) /\ Cardinality(T) \in Nat /\ Cardinality(T) <= Cardinality(S)
         /\ \A T, x : T \subseteq S \cup {x} => Cardinality(T) \in Nat /\ Cardinality(T) <= Cardinality(S) + 1
         /\ \A x \in S : Cardinality(S \ {x}) = Cardinality(S) - 1
<1>1. Cardinality(S) \in Nat
  BY FS_CardinalityType
<1>2. ASSUME NEW T \in SUBSET S PROVE IsFiniteSet(T) /\ Cardinality(T) \in Nat /\ Cardinality(T) <= Cardinality(S)
  BY FS_Subset, FS_CardinalityType
<1>3. ASSUME NEW T, NEW x, T \subseteq S \cup {x} PROVE Cardinality(T) \in Nat /\ Cardinality(T) <= Cardinality(S) + 1
  <2>1. IsFiniteSet(S \cup {x}) /\ Cardinality(S \cup {x}) <= Cardinality(S) + 1 /\ Cardinality(S \cup {x}) \in Nat
    <3>1. IsFiniteSet(S \cup {x})
      BY FS_AddElement
    <3>2. Cardinality(S \cup {x}) = IF x \in S THEN Cardinality(S) ELSE Cardinality(S) + 1
      BY FS_AddElement
    <3> QED
      BY <1>1, <3>1, <3>2
  <2>2. IsFiniteSet(T) /\ Cardinality(T) <= Cardinality(S \cup {x})
    BY <1>3, <2>1, FS_Subset
  <2>3. Cardinality(T) \in Nat
    BY <2>2, FS_CardinalityType
  <2> QED
    BY <1>1, <2>1, <2>2, <2>3
<1>4. ASSUME NEW x \in S PROVE Cardinality(S \ {x}) = Cardinality(S) - 1
  BY FS_RemoveElement
<1> QED
  BY <1>1, <1>2, <1>3, <1>4

(* Powers of two count the subsets of an interval: a subset of one that is   *)
(* longer by one has its last member or has it not.                          *)
LEMMA PowerNow == \A n \in Nat : 2^n \in Nat /\ 2^n = Cardinality(SUBSET (1 .. n)) /\ IsFiniteSet(SUBSET (1 .. n))
<1> TAKE n \in Nat
<1> DEFINE S == 1 .. n
<1>1. IsFiniteSet(S) /\ Cardinality(S) = n
  <2>1. Cardinality(1 .. n) = IF 1 > n THEN 0 ELSE n - 1 + 1
    BY FS_Interval
  <2>2. IsFiniteSet(1 .. n)
    BY FS_Interval
  <2>3. (IF 1 > n THEN 0 ELSE n - 1 + 1) = n
    OBVIOUS
  <2> QED
    BY <2>1, <2>2, <2>3
<1> HIDE DEF S
<1>2. IsFiniteSet(SUBSET S) /\ Cardinality(SUBSET S) = 2^Cardinality(S)
  BY <1>1, FS_SUBSET, Zenon
<1>3. Cardinality(SUBSET S) = 2^n
  BY <1>1, <1>2, Zenon
<1>4. Cardinality(SUBSET S) \in Nat
  BY <1>2, FS_CardinalityType, Zenon
<1> QED
  BY <1>2, <1>3, <1>4, Zenon DEF S

LEMMA PowerZero == 2^0 = 1
<1>1. IsFiniteSet({}) /\ Cardinality({}) = 0
  BY FS_EmptySet
<1>2. Cardinality(SUBSET {}) = 2^Cardinality({})
  BY <1>1, FS_SUBSET
<1>3. Cardinality({{}}) = 1
  BY FS_Singleton
<1>4. SUBSET {} = {{}}
  OBVIOUS
<1> QED
  BY <1>1, <1>2, <1>3, <1>4

(* Twice as many subsets with one member more.                               *)
LEMMA TwiceSubsets ==
  ASSUME NEW S, IsFiniteSet(S), NEW x, x \notin S
  PROVE  Cardinality(SUBSET (S \cup {x})) = Cardinality(SUBSET S) + Cardinality(SUBSET S)
<1> DEFINE A == SUBSET S
           B == {s \cup {x} : s \in A}
           f == [s \in A |-> s \cup {x}]
<1>1. IsFiniteSet(A)
  BY FS_SUBSET
<1>2. f \in Bijection(A, B)
  <2>1. \A s, u \in A : f[s] = f[u] => s = u
    OBVIOUS
  <2>2. f \in [A -> B]
    OBVIOUS
  <2>3. \A b \in B : \E s \in A : f[s] = b
    OBVIOUS
  <2> HIDE DEF A, B, f
  <2> QED
    BY <2>1, <2>2, <2>3 DEF Bijection, Injection, Surjection, IsInjective
<1>3. IsFiniteSet(B) /\ Cardinality(B) = Cardinality(A)
  BY <1>1, <1>2, FS_Bijection DEF ExistsBijection
<1>4. SUBSET (S \cup {x}) = A \cup B
  <2>1. ASSUME NEW s \in SUBSET (S \cup {x}), x \in s PROVE s \in B
    <3>1. s \ {x} \in A /\ s = (s \ {x}) \cup {x}
      BY <2>1
    <3> QED
      BY <3>1
  <2>2. ASSUME NEW s \in SUBSET (S \cup {x}), x \notin s PROVE s \in A
    BY <2>2
  <2>3. \A s \in B : s \in SUBSET (S \cup {x})
    OBVIOUS
  <2> QED
    BY <2>1, <2>2, <2>3
<1>5. A \cap B = {}
  OBVIOUS
<1>6. Cardinality(A \cap B) = 0 /\ Cardinality(A) \in Nat
  BY <1>1, <1>5, FS_EmptySet, FS_CardinalityType
<1> HIDE DEF A, B
<1>7. Cardinality(A \cup B) = Cardinality(A) + Cardinality(B) - Cardinality(A \cap B)
  BY <1>1, <1>3, FS_Union
<1>8. Cardinality(SUBSET (S \cup {x})) = Cardinality(A) + Cardinality(A)
  <2>1. Cardinality(SUBSET (S \cup {x})) = Cardinality(A \cup B)
    BY <1>4, Zenon
  <2>2. Cardinality(A \cup B) = Cardinality(A) + Cardinality(A)
    BY <1>3, <1>6, <1>7
  <2> QED
    BY <2>1, <2>2, Zenon
<1>9. A = SUBSET S
  BY Zenon DEF A
<1> QED
  BY <1>8, <1>9, Zenon

LEMMA PowerNext == \A n \in Nat : 2^(n + 1) = 2 * 2^n
<1> TAKE n \in Nat
<1> DEFINE S == 1 .. n
           k == n + 1
           T == 1 .. k
<1>1. IsFiniteSet(S) /\ k \notin S /\ T = S \cup {k} /\ k \in Nat /\ k = n + 1
  <2>1. k \notin S /\ T = S \cup {k} /\ k \in Nat /\ k = n + 1
    OBVIOUS
  <2>2. IsFiniteSet(S)
    BY FS_Interval
  <2> QED
    BY <2>1, <2>2
<1>2. 2^n = Cardinality(SUBSET S) /\ 2^n \in Nat
  BY PowerNow
<1>3. 2^k = Cardinality(SUBSET T)
  <2> HIDE DEF k
  <2> QED
    BY <1>1, PowerNow
<1> HIDE DEF S, k, T
<1>4. Cardinality(SUBSET (S \cup {k})) = Cardinality(SUBSET S) + Cardinality(SUBSET S)
  BY <1>1, TwiceSubsets
<1>5. 2^k = 2 * 2^n
  BY <1>1, <1>2, <1>3, <1>4
<1> QED
  BY <1>5 DEF k

LEMMA PowerPositive == \A n \in Nat : 2^n >= 1
<1> TAKE n \in Nat
<1>1. SUBSET (1 .. n) # {} /\ IsFiniteSet(SUBSET (1 .. n)) /\ Cardinality(SUBSET (1 .. n)) = 2^n /\ 2^n \in Nat
  BY PowerNow
<1>2. Cardinality(SUBSET (1 .. n)) # 0
  BY <1>1, FS_EmptySet
<1> QED
  BY <1>1, <1>2

LEMMA Few ==
  ASSUME TypeOK, NEW t \in Tasks
  PROVE  /\ IsFiniteSet(HeldOf(t)) /\ Cardinality(HeldOf(t)) \in Nat
         /\ IsFiniteSet(TodoOf(t)) /\ Cardinality(TodoOf(t)) \in Nat
         /\ IsFiniteSet(FiledOf(t)) /\ Cardinality(FiledOf(t)) \in Nat
<1>1. IsFiniteSet(Ids)
  BY FS_Interval DEF Ids
<1>2. HeldOf(t) \in SUBSET Ids /\ TodoOf(t) \in SUBSET Ids /\ FiledOf(t) \in SUBSET Ids
  BY DEF HeldOf, Held, InQueue, InHands, InWork, TodoOf, FiledOf, Pending, TypeOK
<1> QED
  BY <1>1, <1>2, Sizes

LEMMA HeldAreMade == ASSUME TypeOK, Travelling PROVE \A i \in Held : i \in Ids /\ i < next
BY DEF Held, InQueue, InHands, InWork, TypeOK, Travelling

(* Nothing held, filed or to be replayed of a task grew.                     *)
LEMMA NoneGrew ==
  ASSUME TypeOK, NEW t \in Tasks, NEW power \in Nat, Doubled(t, power), runs' = runs, boot' = boot,
         HeldOf(t)' \subseteq HeldOf(t), TodoOf(t)' \subseteq TodoOf(t), FiledOf(t)' \subseteq FiledOf(t),
         \A i \in Ids : owner[i] = t => owner'[i] = t
  PROVE  Doubled(t, power)'
<1> DEFINE a == Cardinality(HeldOf(t))
           b == Cardinality(TodoOf(t))
           c == Cardinality(FiledOf(t))
           r == runs[t]
           x == Cardinality(HeldOf(t)')
           y == Cardinality(TodoOf(t)')
           z == Cardinality(FiledOf(t)')
<1>1. a \in Nat /\ b \in Nat /\ c \in Nat /\ x \in Nat /\ y \in Nat /\ z \in Nat /\ x <= a /\ y <= b /\ z <= c
  BY Few, Sizes
<1>2. r \in Nat /\ runs'[t] = r
  BY DEF TypeOK
<1>3. /\ r + a + b <= power /\ c + b <= power
      /\ boot = "down" => 2 * r <= power /\ 2 * c <= power
      /\ boot = "rewrite" => 2 * b <= power
      /\ (\A i \in Ids : owner[i] # t) => r = 0
  BY DEF Doubled
<1>4. (\A i \in Ids : owner'[i] # t) => r = 0
  BY <1>3
<1>5. Doubled(t, power)' <=>
      /\ runs'[t] + x + y <= power /\ z + y <= power
      /\ boot' = "down" => 2 * runs'[t] <= power /\ 2 * z <= power
      /\ boot' = "rewrite" => 2 * y <= power
      /\ (\A i \in Ids : owner'[i] # t) => runs'[t] = 0
  BY DEF Doubled, Ids
<1> HIDE DEF a, b, c, x, y, z, r
<1> QED
  BY <1>1, <1>2, <1>3, <1>4, <1>5

LEMMA PutDoubles ==
  ASSUME IInv, HeldOnce, Starting, NEW power \in Nat, \A t \in Tasks : Doubled(t, power), NEW c \in Callers, Put(c)
  PROVE  HeldOnce' /\ Starting' /\ \A t \in Tasks : Doubled(t, power)'
<1>0. TypeOK
  BY DEF IInv
<1> DEFINE w == caller[c]
<1>1. /\ w \in Ids /\ w # 0 /\ queue' = Append(queue, w) /\ caller' = [caller EXCEPT ![c] = 0]
      /\ UNCHANGED <<journal, owner, worker, boot, todo, runs>> /\ boot = "up"
  BY <1>0 DEF Put, TypeOK, Starting
<1>2. /\ \A k \in 1 .. Len(queue) : queue'[k] = queue[k]
      /\ Len(queue') = Len(queue) + 1 /\ queue'[Len(queue) + 1] = w /\ Len(queue) \in Nat
  BY <1>0, <1>1 DEF TypeOK
<1>3. w \in InHands /\ w \notin InQueue
  BY <1>1 DEF InHands, HeldOnce
<1>4. InQueue' = InQueue \cup {w}
  BY <1>2 DEF InQueue
<1>5. InHands' = InHands \ {w}
  BY <1>0, <1>1 DEF InHands, HeldOnce, TypeOK, Ids
<1>6. InWork' = InWork
  BY <1>1 DEF InWork, Ids
<1>7. Held' = Held
  BY <1>3, <1>4, <1>5, <1>6 DEF Held
<1>8. \A j, k \in 1 .. Len(queue') : queue'[j] = queue'[k] => j = k
  BY <1>2, <1>3 DEF HeldOnce, InQueue
<1>9. HeldOnce'
  <2>1. \A d, e \in Callers : caller'[d] = caller'[e] /\ caller'[d] # 0 => d = e
    BY <1>0, <1>1 DEF HeldOnce, TypeOK
  <2>2. InQueue' \cap InHands' = {} /\ (worker'.pc # "idle" => worker'.id \notin InQueue' \cup InHands')
    BY <1>1, <1>3, <1>4, <1>5 DEF HeldOnce
  <2>3. \A i \in Held' : journal'[i] # "done"
    BY <1>1, <1>7 DEF HeldOnce
  <2> QED
    BY <1>8, <2>1, <2>2, <2>3 DEF HeldOnce
<1>10. Starting'
  BY <1>1 DEF Starting
<1>11. \A t \in Tasks : Doubled(t, power)'
  BY <1>1, <1>7 DEF Doubled, HeldOf, TodoOf, FiledOf, Pending, Ids
<1> QED
  BY <1>9, <1>10, <1>11

LEMMA GetDoubles ==
  ASSUME IInv, HeldOnce, Starting, NEW power \in Nat, \A t \in Tasks : Doubled(t, power), Get
  PROVE  HeldOnce' /\ Starting' /\ \A t \in Tasks : Doubled(t, power)'
<1>0. TypeOK
  BY DEF IInv
<1> DEFINE w == Head(queue)
<1>1. /\ w \in Ids /\ queue' = Tail(queue) /\ worker' = [pc |-> "taken", id |-> w] /\ worker.pc = "idle"
      /\ UNCHANGED <<journal, owner, caller, boot, todo, runs>> /\ boot = "up" /\ queue # <<>>
  BY <1>0 DEF Get, TypeOK
<1>2. /\ Len(queue) \in Nat /\ Len(queue) >= 1 /\ Len(queue') = Len(queue) - 1 /\ w = queue[1]
      /\ \A k \in 1 .. Len(queue') : queue'[k] = queue[k + 1]
  BY <1>0, <1>1 DEF TypeOK
<1>3. w \in InQueue /\ w \notin InHands /\ InWork = {}
  BY <1>1, <1>2 DEF InQueue, InWork, HeldOnce
<1>4. InQueue' = InQueue \ {w}
  <2>1. \A k \in 1 .. Len(queue') : queue'[k] \in InQueue /\ queue'[k] # w
    BY <1>2 DEF InQueue, HeldOnce
  <2>2. ASSUME NEW k \in 1 .. Len(queue), queue[k] # w PROVE queue[k] \in InQueue'
    <3>1. k # 1 /\ k - 1 \in 1 .. Len(queue') /\ queue'[k - 1] = queue[k]
      BY <1>2, <2>2
    <3> QED
      BY <3>1 DEF InQueue
  <2> QED
    BY <2>1, <2>2 DEF InQueue
<1>5. InHands' = InHands
  BY <1>1 DEF InHands, Ids
<1>6. InWork' = {w}
  BY <1>1 DEF InWork, Ids
<1>7. Held' = Held
  BY <1>3, <1>4, <1>5, <1>6 DEF Held
<1>8. \A j, k \in 1 .. Len(queue') : queue'[j] = queue'[k] => j = k
  BY <1>2 DEF HeldOnce
<1>9. HeldOnce'
  <2>1. \A d, e \in Callers : caller'[d] = caller'[e] /\ caller'[d] # 0 => d = e
    BY <1>1 DEF HeldOnce
  <2>2. InQueue' \cap InHands' = {} /\ (worker'.pc # "idle" => worker'.id \notin InQueue' \cup InHands')
    BY <1>1, <1>3, <1>4, <1>5 DEF HeldOnce
  <2>3. \A i \in Held' : journal'[i] # "done"
    BY <1>1, <1>7 DEF HeldOnce
  <2> QED
    BY <1>8, <2>1, <2>2, <2>3 DEF HeldOnce
<1>10. Starting'
  BY <1>1 DEF Starting
<1>11. \A t \in Tasks : Doubled(t, power)'
  BY <1>1, <1>7 DEF Doubled, HeldOf, TodoOf, FiledOf, Pending, Ids
<1> QED
  BY <1>9, <1>10, <1>11

LEMMA StartDoubles ==
  ASSUME IInv, HeldOnce, Starting, NEW power \in Nat, \A t \in Tasks : Doubled(t, power), Start
  PROVE  HeldOnce' /\ Starting' /\ \A t \in Tasks : Doubled(t, power)'
<1>0. TypeOK
  BY DEF IInv
<1>1. /\ worker.pc = "taken" /\ worker.id \in Ids /\ worker' = [pc |-> "started", id |-> worker.id]
      /\ UNCHANGED <<owner, queue, caller, boot, todo, runs>>
  BY <1>0 DEF Start, TypeOK
<1>2. /\ \A k \in Ids \ {worker.id} : journal'[k] = journal[k]
      /\ journal'[worker.id] \in {journal[worker.id], "started"}
      /\ journal[worker.id] = "none" => journal'[worker.id] = "none"
  BY <1>0, <1>1, NoteEffect DEF Start
<1>3. worker.id \in Held /\ journal[worker.id] # "done"
  BY <1>1 DEF Held, InWork, HeldOnce
<1>4. InQueue' = InQueue /\ InHands' = InHands /\ InWork' = InWork
  BY <1>1 DEF InQueue, InHands, InWork, Ids
<1>5. Held' = Held
  BY <1>4 DEF Held
<1>6. Pending' = Pending
  <2>1. journal[worker.id] \in {"none", "pending", "started", "done"}
    BY <1>0, <1>1 DEF TypeOK
  <2> QED
    BY <1>2, <1>3, <2>1 DEF Pending, Ids
<1>7. HeldOnce'
  <2>1. \A i \in Held' : journal'[i] # "done"
    <3>1. Held \subseteq Ids
      BY <1>0 DEF Held, InQueue, InHands, InWork, TypeOK
    <3> QED
      BY <1>2, <1>3, <1>5, <3>1 DEF HeldOnce
  <2> QED
    BY <1>1, <1>4, <2>1 DEF HeldOnce
<1>8. Starting'
  BY <1>1 DEF Starting
<1>9. \A t \in Tasks : Doubled(t, power)'
  BY <1>1, <1>5, <1>6 DEF Doubled, HeldOf, TodoOf, FiledOf, Ids
<1> QED
  BY <1>7, <1>8, <1>9

(* A run less to come, a run more done.                                      *)
LEMMA RunDoubles ==
  ASSUME IInv, HeldOnce, Starting, NEW power \in Nat, \A t \in Tasks : Doubled(t, power), Run
  PROVE  HeldOnce' /\ Starting' /\ \A t \in Tasks : Doubled(t, power)'
<1>0. TypeOK /\ Owned /\ Travelling
  BY DEF IInv
<1> DEFINE w == worker.id
           u == owner[w]
<1>1. /\ worker.pc = "started" /\ w \in Ids /\ worker' = [pc |-> "ran", id |-> w]
      /\ UNCHANGED <<journal, owner, queue, caller, boot, todo>>
      /\ runs' = [runs EXCEPT ![u] = @ + 1] /\ w < next
  BY <1>0 DEF Run, TypeOK, Travelling
<1>2. u \in Tasks /\ boot = "up"
  BY <1>0, <1>1 DEF Owned, Starting
<1>3. InQueue' = InQueue /\ InHands' = InHands /\ InWork' = {} /\ InWork = {w}
  BY <1>1 DEF InQueue, InHands, InWork, Ids
<1>4. w \in Held /\ Held' = Held \ {w}
  BY <1>1, <1>3 DEF Held, HeldOnce
<1>5. HeldOnce'
  BY <1>1, <1>3, <1>4 DEF HeldOnce
<1>6. Starting'
  BY <1>1, <1>2 DEF Starting
<1>7. ASSUME NEW t \in Tasks, t # u PROVE Doubled(t, power)'
  <2>1. HeldOf(t)' = HeldOf(t)
    BY <1>1, <1>4, <1>7 DEF HeldOf
  <2>2. runs'[t] = runs[t]
    BY <1>0, <1>1, <1>7 DEF TypeOK
  <2>3. Doubled(t, power)
    OBVIOUS
  <2> QED
    BY <1>1, <2>1, <2>2, <2>3 DEF Doubled, TodoOf, FiledOf, Pending, Ids
<1>8. ASSUME NEW t \in Tasks, t = u PROVE Doubled(t, power)'
  <2>1. HeldOf(t)' = HeldOf(t) \ {w} /\ w \in HeldOf(t)
    BY <1>1, <1>4, <1>8 DEF HeldOf
  <2>2. runs'[t] = runs[t] + 1 /\ runs[t] \in Nat
    BY <1>0, <1>1, <1>8 DEF TypeOK
  <2>3. TodoOf(t)' = TodoOf(t) /\ FiledOf(t)' = FiledOf(t)
    BY <1>1 DEF TodoOf, FiledOf, Pending, Ids
  <2> DEFINE H == HeldOf(t)
  <2>4. IsFiniteSet(H) /\ Cardinality(H) \in Nat /\ Cardinality(TodoOf(t)) \in Nat
    BY <1>0, Few
  <2>5. Cardinality(H \ {w}) = Cardinality(H) - 1
    <3> HIDE DEF H, w
    <3> QED
      BY <2>1, <2>4, Sizes DEF H
  <2>6. Doubled(t, power)
    OBVIOUS
  <2>7. runs'[t] + Cardinality(HeldOf(t)') + Cardinality(TodoOf(t)') <= power
    BY <2>1, <2>2, <2>3, <2>4, <2>5, <2>6 DEF Doubled
  <2>8. ~ \A i \in Ids : owner[i] # t
    BY <1>1, <1>8
  <2> QED
    BY <1>1, <1>2, <2>3, <2>6, <2>7, <2>8 DEF Doubled, Ids
<1> QED
  BY <1>5, <1>6, <1>7, <1>8

LEMMA DoneDoubles ==
  ASSUME IInv, HeldOnce, Starting, NEW power \in Nat, \A t \in Tasks : Doubled(t, power), Done
  PROVE  HeldOnce' /\ Starting' /\ \A t \in Tasks : Doubled(t, power)'
<1>0. TypeOK
  BY DEF IInv
<1>1. /\ worker.pc = "ran" /\ worker.id \in Ids /\ worker' = [pc |-> "idle", id |-> 0] /\ boot = "up"
      /\ UNCHANGED <<owner, queue, caller, boot, todo, runs>>
  BY <1>0 DEF Done, TypeOK, Starting
<1>2. /\ \A k \in Ids \ {worker.id} : journal'[k] = journal[k]
      /\ journal'[worker.id] \in {journal[worker.id], "done"}
  BY <1>0, <1>1, NoteEffect DEF Done
<1>3. InQueue' = InQueue /\ InHands' = InHands /\ InWork' = {} /\ InWork = {}
  BY <1>1 DEF InQueue, InHands, InWork, Ids
<1>4. Held' = Held
  BY <1>3 DEF Held
<1>5. worker.id \notin Held /\ Held \subseteq Ids
  BY <1>0, <1>1, <1>3 DEF Held, HeldOnce, InQueue, InHands, TypeOK
<1>6. HeldOnce'
  <2>1. \A i \in Held' : journal'[i] # "done"
    BY <1>2, <1>4, <1>5 DEF HeldOnce
  <2> QED
    BY <1>1, <1>3, <2>1 DEF HeldOnce
<1>7. Starting'
  BY <1>1 DEF Starting
<1>8. ASSUME NEW t \in Tasks PROVE Doubled(t, power)'
  <2>1. HeldOf(t)' = HeldOf(t) /\ TodoOf(t)' = TodoOf(t)
    BY <1>1, <1>4 DEF HeldOf, TodoOf
  <2>2. FiledOf(t)' \subseteq FiledOf(t)
    BY <1>1, <1>2 DEF FiledOf, Pending, Ids
  <2>3. Doubled(t, power)
    OBVIOUS
  <2> QED
    BY <1>0, <1>1, <2>1, <2>2, <2>3, NoneGrew
<1> QED
  BY <1>6, <1>7, <1>8

(* A new id is one more held, and one more in the file.                      *)
LEMMA NewId ==
  ASSUME TypeOK, Owned, Travelling, next \in Ids, next' = next + 1, Record(next, "pending"), HeldOnce
  PROVE  /\ next \notin Held /\ next \notin todo /\ Held \subseteq Ids
         /\ \A i \in Held : i # next /\ journal'[i] # "done"
         /\ journal'[next] # "done"
         /\ Pending' \subseteq Pending \cup {next}
         /\ \A i \in Ids \ {next} : i \in Pending' <=> i \in Pending
<1>1. /\ \A k \in Ids \ {next} : journal'[k] = journal[k]
      /\ journal'[next] \in {journal[next], "pending"}
  BY RecordEffect
<1>2. journal[next] = "none" /\ \A i \in Held : i \in Ids /\ i # next
  <2>1. \A i \in Held : i \in Ids /\ i < next
    BY HeldAreMade
  <2> QED
    BY <2>1 DEF Owned, Ids, TypeOK
<1>3. next \notin todo
  BY DEF Travelling, Ids
<1>4. \A i \in Held : journal[i] # "done"
  BY DEF HeldOnce
<1> QED
  BY <1>1, <1>2, <1>3, <1>4 DEF Pending, Ids

LEMMA EnqueueDoubles ==
  ASSUME IInv, HeldOnce, Starting, NEW power \in Nat, power >= 1, \A t \in Tasks : Doubled(t, power),
         NEW c \in Callers, NEW u \in Tasks, Enqueue(c, u)
  PROVE  HeldOnce' /\ Starting' /\ \A t \in Tasks : Doubled(t, power)'
<1>0. TypeOK /\ Owned /\ Travelling
  BY DEF IInv
<1>n. PICK n \in Ids : n = next
  BY <1>0 DEF Enqueue, TypeOK, Ids
<1>1. /\ boot = "up" /\ caller[c] = 0 /\ next \in Ids /\ next' = next + 1 /\ Record(next, "pending")
      /\ (\A i \in Ids : owner[i] # u)
      /\ owner' = [owner EXCEPT ![n] = u] /\ caller' = [caller EXCEPT ![c] = n]
      /\ UNCHANGED <<queue, worker, boot, todo, runs>>
  BY <1>n DEF Enqueue
<1>2. /\ n \notin Held /\ n \notin todo /\ Held \subseteq Ids
      /\ \A i \in Held : i # n /\ journal'[i] # "done"
      /\ journal'[n] # "done"
      /\ Pending' \subseteq Pending \cup {n}
      /\ \A i \in Ids \ {n} : i \in Pending' <=> i \in Pending
  BY <1>0, <1>1, <1>n, NewId
<1>3. owner'[n] = u /\ \A i \in Ids \ {n} : owner'[i] = owner[i]
  BY <1>0, <1>1 DEF TypeOK
<1>4. InQueue' = InQueue /\ InWork' = InWork
  BY <1>1 DEF InQueue, InWork, Ids
<1>5. InHands' = InHands \cup {n}
  BY <1>0, <1>1 DEF InHands, TypeOK, Ids
<1>6. Held' = Held \cup {n}
  BY <1>4, <1>5 DEF Held
<1>7. HeldOnce'
  <2>1. \A d, e \in Callers : caller'[d] = caller'[e] /\ caller'[d] # 0 => d = e
    <3>1. \A d \in Callers : caller[d] # n
      BY <1>2 DEF Held, InHands
    <3> QED
      BY <1>0, <1>1, <3>1 DEF HeldOnce, TypeOK
  <2>2. n \notin InQueue
    BY <1>2 DEF Held
  <2>3. worker.pc # "idle" => worker.id # n
    BY <1>0, <1>n DEF Travelling, TypeOK
  <2>4. \A i \in Held' : journal'[i] # "done"
    BY <1>2, <1>6
  <2>5. \A j, k \in 1 .. Len(queue) : queue[j] = queue[k] => j = k
    BY DEF HeldOnce
  <2>6. InQueue' \cap InHands' = {} /\ (worker'.pc # "idle" => worker'.id \notin InQueue' \cup InHands')
    BY <1>1, <1>4, <1>5, <2>2, <2>3 DEF HeldOnce
  <2> QED
    BY <1>1, <2>1, <2>4, <2>5, <2>6 DEF HeldOnce
<1>8. Starting'
  BY <1>1 DEF Starting
<1>9. ASSUME NEW t \in Tasks, t # u PROVE Doubled(t, power)'
  <2>1. /\ HeldOf(t)' \subseteq HeldOf(t) /\ TodoOf(t)' \subseteq TodoOf(t) /\ FiledOf(t)' \subseteq FiledOf(t)
        /\ \A i \in Ids : owner[i] = t => owner'[i] = t
    <3>1. owner[n] = NoTask
      BY <1>0, <1>n DEF Owned, TypeOK
    <3>2. t # NoTask
      OBVIOUS
    <3>3. Pending \subseteq Ids /\ todo \subseteq Ids
      BY <1>0 DEF Pending, TypeOK
    <3>4. HeldOf(t)' \subseteq HeldOf(t)
      BY <1>2, <1>3, <1>6, <1>9 DEF HeldOf
    <3>5. TodoOf(t)' \subseteq TodoOf(t)
      BY <1>1, <1>2, <1>3, <1>9, <3>3 DEF TodoOf
    <3>6. FiledOf(t)' \subseteq FiledOf(t)
      BY <1>2, <1>3, <1>9, <3>3 DEF FiledOf
    <3> QED
      BY <1>3, <3>1, <3>2, <3>4, <3>5, <3>6
  <2> QED
    BY <1>0, <1>1, <2>1, NoneGrew
<1>10. Doubled(u, power)'
  <2>1. HeldOf(u)' \subseteq {n} /\ TodoOf(u)' = {} /\ FiledOf(u)' \subseteq {n}
    <3>1. Pending \subseteq Ids /\ todo \subseteq Ids
      BY <1>0 DEF Pending, TypeOK
    <3> QED
      BY <1>1, <1>2, <1>3, <1>6, <3>1 DEF HeldOf, TodoOf, FiledOf
  <2>2. runs'[u] = 0
    BY <1>1 DEF Doubled
  <2>3. IsFiniteSet({n}) /\ Cardinality({n}) = 1 /\ Cardinality({}) = 0
    BY FS_Singleton, FS_EmptySet
  <2>4. /\ Cardinality(HeldOf(u)') \in Nat /\ Cardinality(HeldOf(u)') <= 1
        /\ Cardinality(FiledOf(u)') \in Nat /\ Cardinality(FiledOf(u)') <= 1
        /\ Cardinality(TodoOf(u)') = 0
    BY <2>1, <2>3, Sizes
  <2>5. boot' = "up" /\ n \in Ids /\ owner'[n] = u
    BY <1>1, <1>3
  <2> DEFINE x == Cardinality(HeldOf(u)')
             y == Cardinality(TodoOf(u)')
             z == Cardinality(FiledOf(u)')
  <2>6. Doubled(u, power)' <=>
        /\ runs'[u] + x + y <= power /\ z + y <= power
        /\ boot' = "down" => 2 * runs'[u] <= power /\ 2 * z <= power
        /\ boot' = "rewrite" => 2 * y <= power
        /\ (\A i \in Ids : owner'[i] # u) => runs'[u] = 0
    BY DEF Doubled, Ids
  <2>7. x \in Nat /\ x <= 1 /\ z \in Nat /\ z <= 1 /\ y = 0
    BY <2>4
  <2> HIDE DEF x, y, z
  <2> QED
    BY <2>2, <2>5, <2>6, <2>7
<1> QED
  BY <1>7, <1>8, <1>9, <1>10

(* A death: what was run and what the file has is half of what may be.       *)
LEMMA CrashDoubles ==
  ASSUME IInv, HeldOnce, Starting, NEW power \in Nat, NEW double \in Nat, double = 2 * power,
         \A t \in Tasks : Doubled(t, power), Crash
  PROVE  HeldOnce' /\ Starting' /\ \A t \in Tasks : Doubled(t, double)'
<1>0. TypeOK
  BY DEF IInv
<1>1. /\ boot' = "down" /\ queue' = <<>> /\ worker' = [pc |-> "idle", id |-> 0] /\ todo' = {}
      /\ (\A c \in Callers : caller'[c] = 0) /\ owner' = owner /\ runs' = runs
      /\ \/ journal' = journal
         \/ \E S \in SUBSET todo : journal' = [i \in Ids |-> IF i \in S THEN "pending" ELSE "none"]
  BY DEF Crash, Rewritten
<1>2. Held' = {}
  <2>1. InQueue' = {} /\ InHands' = {} /\ InWork' = {}
    BY <1>1 DEF InQueue, InHands, InWork, Ids
  <2> QED
    BY <2>1 DEF Held
<1>3. HeldOnce'
  BY <1>1, <1>2 DEF HeldOnce, Held
<1>4. Starting'
  BY <1>1 DEF Starting
<1>5. ASSUME NEW t \in Tasks PROVE Doubled(t, double)'
  <2>1. HeldOf(t)' = {} /\ TodoOf(t)' = {}
    BY <1>1, <1>2 DEF HeldOf, TodoOf
  <2>2. FiledOf(t)' \subseteq FiledOf(t) \/ FiledOf(t)' \subseteq TodoOf(t)
    <3>1. Pending' = Pending \/ Pending' \subseteq todo
      BY <1>1 DEF Pending, Ids
    <3> QED
      BY <1>1, <3>1 DEF FiledOf, TodoOf
  <2> DEFINE z == Cardinality(FiledOf(t)')
             x == Cardinality(HeldOf(t)')
             y == Cardinality(TodoOf(t)')
             a == Cardinality(HeldOf(t))
             b == Cardinality(TodoOf(t))
             c == Cardinality(FiledOf(t))
             r == runs[t]
  <2>3. a \in Nat /\ b \in Nat /\ c \in Nat /\ z \in Nat /\ (z <= b \/ z <= c)
    BY <1>0, <2>2, Few, Sizes
  <2>4. x = 0 /\ y = 0
    BY <2>1, FS_EmptySet
  <2>5. r \in Nat /\ runs'[t] = r
    BY <1>0, <1>1 DEF TypeOK
  <2>6. r + a + b <= power /\ c + b <= power
    BY DEF Doubled
  <2>7. (\A i \in Ids : owner'[i] # t) => r = 0
    BY <1>1 DEF Doubled
  <2>8. Doubled(t, double)' <=>
        /\ runs'[t] + x + y <= double /\ z + y <= double
        /\ boot' = "down" => 2 * runs'[t] <= double /\ 2 * z <= double
        /\ boot' = "rewrite" => 2 * y <= double
        /\ (\A i \in Ids : owner'[i] # t) => runs'[t] = 0
    BY DEF Doubled, Ids
  <2> HIDE DEF x, y, z, a, b, c, r
  <2>9. boot' # "rewrite"
    BY <1>1
  <2> QED
    BY <2>3, <2>4, <2>5, <2>6, <2>7, <2>8, <2>9
<1> QED
  BY <1>3, <1>4, <1>5

(* A start makes of what the file has as much to be replayed, and may leave  *)
(* it there.                                                                 *)
LEMMA LoadDoubles ==
  ASSUME IInv, HeldOnce, Starting, NEW power \in Nat, \A t \in Tasks : Doubled(t, power), Load
  PROVE  HeldOnce' /\ Starting' /\ \A t \in Tasks : Doubled(t, power)'
<1>0. TypeOK
  BY DEF IInv
<1>1. /\ boot = "down" /\ todo' = Pending
      /\ \/ journal' = [i \in Ids |-> "none"] /\ boot' = "rewrite"
         \/ journal' = journal /\ boot' = "replay"
      /\ UNCHANGED <<owner, queue, caller, worker, runs>>
  BY DEF Load
<1>2. /\ queue = <<>> /\ worker.pc = "idle" /\ (\A c \in Callers : caller[c] = 0) /\ todo = {}
  BY <1>1 DEF Starting
<1>3. Held = {} /\ Held' = {}
  BY <1>1, <1>2 DEF Held, InQueue, InHands, InWork, Ids
<1>4. HeldOnce'
  BY <1>1, <1>2, <1>3 DEF HeldOnce, Held
<1>5. Starting'
  BY <1>1, <1>2 DEF Starting
<1>6. ASSUME NEW t \in Tasks PROVE Doubled(t, power)'
  <2>1. HeldOf(t)' = {} /\ HeldOf(t) = {} /\ TodoOf(t) = {} /\ TodoOf(t)' = FiledOf(t)
    BY <1>1, <1>2, <1>3 DEF HeldOf, TodoOf, FiledOf
  <2>2. FiledOf(t)' \subseteq FiledOf(t) /\ (boot' = "rewrite" => FiledOf(t)' = {})
    BY <1>1 DEF FiledOf, Pending, Ids
  <2> DEFINE z == Cardinality(FiledOf(t)')
             x == Cardinality(HeldOf(t)')
             y == Cardinality(TodoOf(t)')
             c == Cardinality(FiledOf(t))
             r == runs[t]
  <2>3. c \in Nat /\ z \in Nat /\ z <= c
    BY <1>0, <2>2, Few, Sizes
  <2>4. x = 0 /\ y = c
    BY <2>1, FS_EmptySet
  <2>5. boot' = "rewrite" => z = 0
    BY <2>2, FS_EmptySet
  <2>6. r \in Nat /\ runs'[t] = r
    BY <1>0, <1>1 DEF TypeOK
  <2>7. 2 * r <= power /\ 2 * c <= power
    BY <1>1 DEF Doubled
  <2>8. (\A i \in Ids : owner'[i] # t) => r = 0
    BY <1>1 DEF Doubled
  <2>9. Doubled(t, power)' <=>
        /\ runs'[t] + x + y <= power /\ z + y <= power
        /\ boot' = "down" => 2 * runs'[t] <= power /\ 2 * z <= power
        /\ boot' = "rewrite" => 2 * y <= power
        /\ (\A i \in Ids : owner'[i] # t) => runs'[t] = 0
    BY DEF Doubled, Ids
  <2> HIDE DEF x, y, z, c, r
  <2> QED
    BY <2>3, <2>4, <2>5, <2>6, <2>7, <2>8, <2>9, <1>1
<1> QED
  BY <1>4, <1>5, <1>6

LEMMA RewriteDoubles ==
  ASSUME IInv, HeldOnce, Starting, NEW power \in Nat, \A t \in Tasks : Doubled(t, power), Rewrite
  PROVE  HeldOnce' /\ Starting' /\ \A t \in Tasks : Doubled(t, power)'
<1>0. TypeOK
  BY DEF IInv
<1>1. /\ boot = "rewrite" /\ boot' = "replay"
      /\ (\E S \in SUBSET todo : journal' = [i \in Ids |-> IF i \in S THEN "pending" ELSE "none"])
      /\ UNCHANGED <<owner, queue, caller, worker, todo, runs>>
  BY DEF Rewrite, Rewritten
<1>2. /\ queue = <<>> /\ worker.pc = "idle" /\ (\A c \in Callers : caller[c] = 0)
  BY <1>1 DEF Starting
<1>3. Held = {} /\ Held' = {}
  BY <1>1, <1>2 DEF Held, InQueue, InHands, InWork, Ids
<1>4. HeldOnce'
  BY <1>1, <1>2, <1>3 DEF HeldOnce, Held
<1>5. Starting'
  BY <1>1, <1>2 DEF Starting
<1>6. ASSUME NEW t \in Tasks PROVE Doubled(t, power)'
  <2>1. HeldOf(t)' = {} /\ HeldOf(t) = {} /\ TodoOf(t)' = TodoOf(t)
    BY <1>1, <1>3 DEF HeldOf, TodoOf
  <2>2. FiledOf(t)' \subseteq TodoOf(t)
    <3>1. Pending' \subseteq todo
      BY <1>1 DEF Pending, Ids
    <3> QED
      BY <1>1, <3>1 DEF FiledOf, TodoOf
  <2> DEFINE z == Cardinality(FiledOf(t)')
             x == Cardinality(HeldOf(t)')
             y == Cardinality(TodoOf(t)')
             b == Cardinality(TodoOf(t))
             r == runs[t]
  <2>3. b \in Nat /\ z \in Nat /\ z <= b
    BY <1>0, <2>2, Few, Sizes
  <2>4. x = 0 /\ y = b
    BY <2>1, FS_EmptySet
  <2>5. r \in Nat /\ runs'[t] = r
    BY <1>0, <1>1 DEF TypeOK
  <2>6. 2 * b <= power /\ r + Cardinality(HeldOf(t)) + b <= power
    BY <1>1 DEF Doubled
  <2>7. Cardinality(HeldOf(t)) = 0
    BY <2>1, FS_EmptySet
  <2>8. (\A i \in Ids : owner'[i] # t) => r = 0
    BY <1>1 DEF Doubled
  <2>9. Doubled(t, power)' <=>
        /\ runs'[t] + x + y <= power /\ z + y <= power
        /\ boot' = "down" => 2 * runs'[t] <= power /\ 2 * z <= power
        /\ boot' = "rewrite" => 2 * y <= power
        /\ (\A i \in Ids : owner'[i] # t) => runs'[t] = 0
    BY DEF Doubled, Ids
  <2> HIDE DEF x, y, z, b, r
  <2> QED
    BY <2>3, <2>4, <2>5, <2>6, <2>7, <2>8, <2>9, <1>1
<1> QED
  BY <1>4, <1>5, <1>6

LEMMA UpDoubles ==
  ASSUME IInv, HeldOnce, Starting, NEW power \in Nat, \A t \in Tasks : Doubled(t, power), Up
  PROVE  HeldOnce' /\ Starting' /\ \A t \in Tasks : Doubled(t, power)'
<1>1. /\ boot' = "up" /\ todo = {} /\ UNCHANGED <<journal, owner, queue, caller, worker, todo, runs>>
  BY DEF Up
<1>2. Held' = Held /\ HeldOnce'
  <2>1. InQueue' = InQueue /\ InHands' = InHands /\ InWork' = InWork
    BY <1>1 DEF InQueue, InHands, InWork, Ids
  <2> QED
    BY <1>1, <2>1 DEF Held, HeldOnce
<1>3. Starting'
  BY <1>1 DEF Starting
<1>4. \A t \in Tasks : Doubled(t, power)'
  BY <1>1, <1>2 DEF Doubled, HeldOf, TodoOf, FiledOf, Pending, Ids
<1> QED
  BY <1>2, <1>3, <1>4

(* A task replayed is under its new id in the queue, perhaps in the file,    *)
(* and no longer among those to be replayed.                                 *)
LEMMA ReplayDoubles ==
  ASSUME IInv, HeldOnce, Starting, NEW power \in Nat, \A t \in Tasks : Doubled(t, power),
         NEW j \in Ids, Replay(j)
  PROVE  HeldOnce' /\ Starting' /\ \A t \in Tasks : Doubled(t, power)'
<1>0. TypeOK /\ Owned /\ Travelling
  BY DEF IInv
<1>1. /\ boot = "replay" /\ boot' = "replay" /\ j \in todo /\ todo' = todo \ {j}
      /\ UNCHANGED <<caller, worker, runs>>
  BY DEF Replay
<1>2. worker.pc = "idle" /\ (\A c \in Callers : caller[c] = 0)
  BY <1>1 DEF Starting
<1>s. Starting'
  BY <1>1, <1>2 DEF Starting
<1>3. CASE UNCHANGED <<journal, owner, next, queue>>
  <2>0. InQueue' = InQueue /\ InHands' = InHands /\ InWork' = InWork
    BY <1>1, <1>3 DEF InQueue, InHands, InWork, Ids
  <2>1. Held' = Held /\ HeldOnce'
    BY <1>1, <1>3, <2>0 DEF Held, HeldOnce
  <2>2. ASSUME NEW t \in Tasks PROVE Doubled(t, power)'
    <3>1. /\ HeldOf(t)' \subseteq HeldOf(t) /\ TodoOf(t)' \subseteq TodoOf(t)
          /\ FiledOf(t)' \subseteq FiledOf(t)
      BY <1>1, <1>3, <2>1 DEF HeldOf, TodoOf, FiledOf, Pending, Ids
    <3> QED
      BY <1>0, <1>1, <1>3, <3>1, NoneGrew
  <2> QED
    BY <1>s, <2>1, <2>2
<1>4. CASE Requeue(j)
  <2>n. PICK n \in Ids : n = next
    BY <1>0, <1>4 DEF Requeue, TypeOK, Ids
  <2>u. PICK u : u = owner[j]
    OBVIOUS
  <2>1. /\ next \in Ids /\ next' = next + 1 /\ Record(next, "pending")
        /\ owner' = [owner EXCEPT ![n] = u] /\ queue' = Append(queue, n)
    BY <1>4, <2>n, <2>u DEF Requeue
  <2>2. /\ n \notin Held /\ n \notin todo /\ Held \subseteq Ids
        /\ \A i \in Held : i # n /\ journal'[i] # "done"
        /\ journal'[n] # "done"
        /\ Pending' \subseteq Pending \cup {n}
        /\ \A i \in Ids \ {n} : i \in Pending' <=> i \in Pending
    BY <1>0, <2>1, <2>n, NewId
  <2>3. owner'[n] = u /\ \A i \in Ids \ {n} : owner'[i] = owner[i]
    BY <1>0, <2>1 DEF TypeOK
  <2>4. InHands' = InHands /\ InWork' = InWork /\ InHands = {} /\ InWork = {}
    BY <1>1, <1>2 DEF InHands, InWork, Ids
  <2>5. /\ \A k \in 1 .. Len(queue) : queue'[k] = queue[k]
        /\ Len(queue') = Len(queue) + 1 /\ queue'[Len(queue) + 1] = n /\ Len(queue) \in Nat
    BY <1>0, <2>1 DEF TypeOK
  <2>6. InQueue' = InQueue \cup {n}
    BY <2>5 DEF InQueue
  <2>7. Held' = Held \cup {n}
    BY <2>4, <2>6 DEF Held
  <2>8. HeldOnce'
    <3>1. n \notin InQueue
      BY <2>2 DEF Held
    <3>2. \A i, k \in 1 .. Len(queue') : queue'[i] = queue'[k] => i = k
      BY <2>5, <3>1 DEF HeldOnce, InQueue
    <3>3. \A i \in Held' : journal'[i] # "done"
      BY <2>2, <2>7
    <3>4. \A d, e \in Callers : caller'[d] = caller'[e] /\ caller'[d] # 0 => d = e
      BY <1>1, <1>2
    <3>5. InQueue' \cap InHands' = {} /\ worker'.pc = "idle"
      BY <1>1, <1>2, <2>4
    <3> QED
      BY <3>2, <3>3, <3>4, <3>5 DEF HeldOnce
  <2>9. ASSUME NEW t \in Tasks, t # u PROVE Doubled(t, power)'
    <3>1. owner[n] = NoTask /\ t # NoTask
      BY <1>0, <2>n DEF Owned, TypeOK
    <3>2. Pending \subseteq Ids /\ todo \subseteq Ids
      BY <1>0 DEF Pending, TypeOK
    <3>3. HeldOf(t)' \subseteq HeldOf(t)
      BY <2>2, <2>3, <2>7, <2>9 DEF HeldOf
    <3>4. TodoOf(t)' \subseteq TodoOf(t)
      BY <1>1, <2>2, <2>3, <2>9, <3>2 DEF TodoOf
    <3>5. FiledOf(t)' \subseteq FiledOf(t)
      BY <2>2, <2>3, <2>9, <3>2 DEF FiledOf
    <3> QED
      BY <1>0, <1>1, <2>3, <3>1, <3>3, <3>4, <3>5, NoneGrew
  <2>10. ASSUME NEW t \in Tasks, t = u PROVE Doubled(t, power)'
    <3>0. Pending \subseteq Ids /\ todo \subseteq Ids /\ owner[j] = t /\ j # n
      BY <1>0, <1>1, <2>2, <2>10, <2>u DEF Pending, TypeOK
    <3>1. HeldOf(t)' \subseteq HeldOf(t) \cup {n}
      BY <2>2, <2>3, <2>7 DEF HeldOf
    <3>2. TodoOf(t)' = TodoOf(t) \ {j} /\ j \in TodoOf(t)
      BY <1>1, <2>2, <2>3, <3>0 DEF TodoOf
    <3>3. FiledOf(t)' \subseteq FiledOf(t) \cup {n}
      BY <2>2, <2>3, <3>0 DEF FiledOf
    <3> DEFINE z == Cardinality(FiledOf(t)')
               x == Cardinality(HeldOf(t)')
               y == Cardinality(TodoOf(t)')
               a == Cardinality(HeldOf(t))
               b == Cardinality(TodoOf(t))
               c == Cardinality(FiledOf(t))
               r == runs[t]
    <3>4. a \in Nat /\ b \in Nat /\ c \in Nat /\ x \in Nat /\ z \in Nat /\ x <= a + 1 /\ z <= c + 1
      BY <1>0, <3>1, <3>3, Few, Sizes
    <3>5. y = b - 1
      <4>1. IsFiniteSet(TodoOf(t)) /\ Cardinality(TodoOf(t) \ {j}) = Cardinality(TodoOf(t)) - 1
        BY <1>0, <3>2, Few, Sizes
      <4> QED
        BY <3>2, <4>1, Zenon
    <3>6. r \in Nat /\ runs'[t] = r
      BY <1>0, <1>1 DEF TypeOK
    <3>7. r + a + b <= power /\ c + b <= power
      BY DEF Doubled
    <3>8. ~(\A i \in Ids : owner'[i] # t)
      BY <2>3, <2>10
    <3>9. Doubled(t, power)' <=>
          /\ runs'[t] + x + y <= power /\ z + y <= power
          /\ boot' = "down" => 2 * runs'[t] <= power /\ 2 * z <= power
          /\ boot' = "rewrite" => 2 * y <= power
          /\ (\A i \in Ids : owner'[i] # t) => runs'[t] = 0
      BY DEF Doubled, Ids
    <3> HIDE DEF x, y, z, a, b, c, r
    <3> QED
      BY <3>4, <3>5, <3>6, <3>7, <3>8, <3>9, <1>1
  <2> QED
    BY <1>s, <2>8, <2>9, <2>10
<1> QED
  BY <1>3, <1>4 DEF Replay

LEMMA DoublingInit == Init => DoublingInv
<1> SUFFICES ASSUME Init PROVE DoublingInv
  OBVIOUS
<1>1. Held = {}
  BY DEF Init, Held, InQueue, InHands, InWork, Ids
<1>2. HeldOnce /\ Starting
  BY <1>1 DEF Init, HeldOnce, Starting, Held
<1>3. ASSUME NEW t \in Tasks PROVE Doubled(t, 2^crashes)
  <2>1. HeldOf(t) = {} /\ TodoOf(t) = {} /\ FiledOf(t) = {}
    BY <1>1 DEF Init, HeldOf, TodoOf, FiledOf, Pending, Ids
  <2>2. Cardinality(HeldOf(t)) = 0 /\ Cardinality(TodoOf(t)) = 0 /\ Cardinality(FiledOf(t)) = 0
    BY <2>1, FS_EmptySet
  <2>3. 2^crashes = 1
    BY PowerZero DEF Init
  <2> DEFINE p == 2^crashes
  <2>4. p = 1
    BY <2>3
  <2>5. runs[t] = 0 /\ boot = "up"
    BY DEF Init
  <2> HIDE DEF p
  <2>6. Doubled(t, p)
    BY <2>2, <2>4, <2>5 DEF Doubled
  <2> QED
    BY <2>6 DEF p
<1> QED
  BY <1>2, <1>3 DEF DoublingInv

LEMMA DoublingStep == IInv /\ DoublingInv /\ [Next]_vars => DoublingInv'
<1> SUFFICES ASSUME IInv, DoublingInv, [Next]_vars PROVE DoublingInv'
  OBVIOUS
<1>0. TypeOK /\ HeldOnce /\ Starting
  BY DEF IInv, DoublingInv
<1>n. PICK n \in Nat : n = crashes
  BY <1>0 DEF TypeOK
<1>p. PICK p \in Nat : p = 2^n
  BY PowerNow
<1>1. p >= 1 /\ 2^(n + 1) = 2 * p
  <2>1. 2^n >= 1
    BY PowerNow, PowerPositive
  <2> QED
    BY <1>p, <2>1, PowerNext
<1>2. \A t \in Tasks : Doubled(t, p)
  BY <1>n, <1>p DEF DoublingInv
<1>3. ASSUME HeldOnce', Starting', \A t \in Tasks : Doubled(t, p)', crashes' = crashes PROVE DoublingInv'
  <2>1. (2^crashes)' = p
    BY <1>3, <1>n, <1>p
  <2> QED
    BY <1>3, <2>1 DEF DoublingInv, Doubled
<1>4. ASSUME NEW c \in Callers, Put(c) PROVE DoublingInv'
  BY <1>0, <1>2, <1>3, <1>4, PutDoubles DEF Put
<1>5. ASSUME NEW c \in Callers, NEW t \in Tasks, Enqueue(c, t) PROVE DoublingInv'
  BY <1>0, <1>1, <1>2, <1>3, <1>5, EnqueueDoubles DEF Enqueue
<1>6. CASE Get
  BY <1>0, <1>2, <1>3, <1>6, GetDoubles DEF Get
<1>7. CASE Start
  BY <1>0, <1>2, <1>3, <1>7, StartDoubles DEF Start
<1>8. CASE Run
  BY <1>0, <1>2, <1>3, <1>8, RunDoubles DEF Run
<1>9. CASE Done
  BY <1>0, <1>2, <1>3, <1>9, DoneDoubles DEF Done
<1>10. CASE Load
  BY <1>0, <1>2, <1>3, <1>10, LoadDoubles DEF Load
<1>11. CASE Rewrite
  BY <1>0, <1>2, <1>3, <1>11, RewriteDoubles DEF Rewrite
<1>12. ASSUME NEW i \in Ids, Replay(i) PROVE DoublingInv'
  BY <1>0, <1>2, <1>3, <1>12, ReplayDoubles DEF Replay
<1>13. CASE Up
  BY <1>0, <1>2, <1>3, <1>13, UpDoubles DEF Up
<1>14. CASE Crash
  <2>1. crashes' = n + 1
    BY <1>n, <1>14 DEF Crash
  <2>2. PICK d \in Nat : d = 2 * p
    OBVIOUS
  <2>3. HeldOnce' /\ Starting' /\ \A t \in Tasks : Doubled(t, d)'
    BY <1>0, <1>2, <1>14, <2>2, CrashDoubles
  <2>4. (2^crashes)' = d
    BY <1>1, <2>1, <2>2
  <2> QED
    BY <2>3, <2>4 DEF DoublingInv, Doubled
<1>15. CASE UNCHANGED vars
  <2>1. UNCHANGED <<journal, owner, queue, caller, worker, boot, todo, runs, crashes>>
    BY <1>15 DEF vars
  <2>2. Held' = Held /\ HeldOnce' /\ Starting'
    <3>1. InQueue' = InQueue /\ InHands' = InHands /\ InWork' = InWork
      BY <2>1 DEF InQueue, InHands, InWork, Ids
    <3> QED
      BY <1>0, <2>1, <3>1 DEF Held, HeldOnce, Starting
  <2>3. \A t \in Tasks : Doubled(t, p)'
    BY <1>2, <2>1, <2>2 DEF Doubled, HeldOf, TodoOf, FiledOf, Pending, Ids
  <2> QED
    BY <1>3, <2>1, <2>2, <2>3
<1> QED
  BY <1>4, <1>5, <1>6, <1>7, <1>8, <1>9, <1>10, <1>11, <1>12, <1>13, <1>14, <1>15
     DEF Next, Worker, Boot

(* However often the process dies, in the middle of a start too, a task is   *)
(* run no more than 2^n times over n deaths.                                 *)
THEOREM DoublingIsBounded == Spec => []DoublingBound
<1>1. IInv /\ DoublingInv => DoublingBound
  <2> SUFFICES ASSUME IInv, DoublingInv, NEW t \in Tasks PROVE runs[t] <= 2^crashes
    BY DEF DoublingBound
  <2>1. TypeOK /\ Doubled(t, 2^crashes)
    BY DEF IInv, DoublingInv
  <2> DEFINE p == 2^crashes
             a == Cardinality(HeldOf(t))
             b == Cardinality(TodoOf(t))
  <2>2. p \in Nat /\ a \in Nat /\ b \in Nat /\ runs[t] \in Nat
    BY <2>1, Few, PowerNow DEF TypeOK
  <2>3. runs[t] + a + b <= p
    BY <2>1 DEF Doubled
  <2> HIDE DEF p, a, b
  <2>4. runs[t] <= p
    BY <2>2, <2>3
  <2> QED
    BY <2>4 DEF p
<1> QED
  BY <1>1, InvInit, InvStep, DoublingInit, DoublingStep, PTL DEF Spec

------------------------------------------------------------------------------
(* Events                                                                    *)

USE EventsAssumption

TasksOf(e) == {t \in tasks : t[1] = e}

(* An event that came has been worked on, or waits to be, once.              *)
WorkedOnce(e) ==
  IF tries[e] = 0 THEN handled[e] = 0 /\ TasksOf(e) = {}
  ELSE \/ handled[e] = 0 /\ \E n \in Nat : TasksOf(e) = {<<e, n>>}
       \/ handled[e] = 1 /\ TasksOf(e) = {}

(* Its id is kept from its first delivery on, until its time is over.        *)
IdKept(e) ==
  /\ e \in DOMAIN seen => tries[e] > 0 /\ seen[e] = first[e]
  /\ tries[e] > 0 => e \in DOMAIN seen \/ minute - first[e] > SeenTtl
  /\ first[e] <= minute

EventInv == EventTypeOK /\ \A e \in Events \ excused : WorkedOnce(e) /\ IdKept(e)

LEMMA EventTypeInit == EventInit => EventTypeOK
BY DEF EventInit, EventTypeOK

LEMMA EventTypeStep == EventTypeOK /\ [EventNext]_eventVars => EventTypeOK'
<1> SUFFICES ASSUME EventTypeOK, [EventNext]_eventVars PROVE EventTypeOK'
  OBVIOUS
<1> USE DEF EventTypeOK
<1>1. ASSUME NEW e \in Events, DeliverEvent(e) PROVE EventTypeOK'
  <2>1. tries' \in [Events -> 0 .. MaxTries] /\ first' \in [Events -> Nat]
    BY <1>1 DEF DeliverEvent
  <2>2. answered' \subseteq Events /\ excused' \subseteq Events
    BY <1>1 DEF DeliverEvent
  <2>3. DOMAIN seen' \subseteq Events /\ \A k \in DOMAIN seen' : seen'[k] \in Nat
    BY <1>1 DEF DeliverEvent, Remember
  <2>4. tries[e] \in Nat
    OBVIOUS
  <2>5. tasks' \subseteq Events \X Nat
    BY <1>1, <2>4 DEF DeliverEvent
  <2> QED
    BY <1>1, <2>1, <2>2, <2>3, <2>5 DEF DeliverEvent
<1>2. ASSUME NEW t \in tasks, HandleMessage(t) PROVE EventTypeOK'
  BY <1>2 DEF HandleMessage
<1>3. CASE RestartBot
  BY <1>3 DEF RestartBot
<1>4. CASE Minute
  BY <1>4 DEF Minute
<1>5. CASE UNCHANGED eventVars
  BY <1>5 DEF eventVars
<1> QED
  BY <1>1, <1>2, <1>3, <1>4, <1>5 DEF EventNext

LEMMA EventStep == EventInv /\ [EventNext]_eventVars => EventInv'
<1> SUFFICES ASSUME EventInv, [EventNext]_eventVars, NEW e \in Events, e \notin excused'
             PROVE  (WorkedOnce(e) /\ IdKept(e))'
  BY EventTypeStep DEF EventInv
<1>0. /\ minute \in Nat /\ tries \in [Events -> 0 .. MaxTries] /\ first \in [Events -> Nat]
      /\ handled \in [Events -> Nat] /\ tasks \subseteq Events \X Nat
      /\ \A k \in DOMAIN seen : k \in Events /\ seen[k] \in Nat
      /\ tries[e] \in Nat /\ first[e] \in Nat /\ SeenTtl \in Nat
  BY DEF EventInv, EventTypeOK
<1>k. e \notin excused => WorkedOnce(e) /\ IdKept(e)
  BY DEF EventInv
<1>1. ASSUME NEW d \in Events, DeliverEvent(d) PROVE (WorkedOnce(e) /\ IdKept(e))'
  <2>0. e \notin excused /\ minute' = minute /\ handled' = handled
    BY <1>1 DEF DeliverEvent
  <2>1. CASE d \in DOMAIN seen
    <3>1. seen' = seen /\ tasks' = tasks
      BY <1>1, <2>1 DEF DeliverEvent
    <3>2. tries'[e] = 0 <=> tries[e] = 0
      BY <1>0, <1>1, <1>k, <2>0, <2>1 DEF DeliverEvent, IdKept
    <3>3. first'[e] = first[e]
      BY <1>0, <1>1, <1>k, <2>0, <2>1 DEF DeliverEvent, IdKept
    <3>4. tries'[e] \in Nat
      BY <1>0, <1>1 DEF DeliverEvent
    <3>5. WorkedOnce(e)'
      BY <1>k, <2>0, <3>1, <3>2 DEF WorkedOnce, TasksOf
    <3>6. IdKept(e)'
      BY <1>0, <1>k, <2>0, <3>1, <3>2, <3>3, <3>4 DEF IdKept
    <3> QED
      BY <3>5, <3>6
  <2>2. CASE d \notin DOMAIN seen /\ d = e
    <3>1. tries[e] = 0
      BY <1>0, <1>1, <1>k, <2>0, <2>2 DEF DeliverEvent, IdKept
    <3>2. /\ tries'[e] = 1 /\ first'[e] = minute /\ seen' = Remember(e)
          /\ tasks' = tasks \cup {<<e, 0>>}
      BY <1>0, <1>1, <2>2, <3>1 DEF DeliverEvent
    <3>3. TasksOf(e) = {} /\ handled[e] = 0
      BY <1>k, <2>0, <3>1 DEF WorkedOnce
    <3>4. TasksOf(e)' = {<<e, 0>>}
      BY <3>2, <3>3 DEF TasksOf
    <3>5. e \in DOMAIN seen' /\ seen'[e] = minute
      BY <3>2 DEF Remember
    <3>6. WorkedOnce(e)'
      BY <2>0, <3>2, <3>3, <3>4 DEF WorkedOnce
    <3>7. IdKept(e)'
      BY <1>0, <2>0, <3>2, <3>5 DEF IdKept
    <3> QED
      BY <3>6, <3>7
  <2>3. CASE d \notin DOMAIN seen /\ d # e
    <3>1. /\ tries'[e] = tries[e] /\ first'[e] = first[e] /\ seen' = Remember(d)
          /\ tasks' = tasks \cup {<<d, tries[d]>>}
      BY <1>0, <1>1, <2>3 DEF DeliverEvent
    <3>2. TasksOf(e)' = TasksOf(e)
      BY <2>3, <3>1 DEF TasksOf
    <3>3. /\ e \in DOMAIN seen' <=> e \in DOMAIN seen /\ minute - seen[e] <= SeenTtl
          /\ e \in DOMAIN seen' => seen'[e] = seen[e]
      BY <2>3, <3>1 DEF Remember
    <3>4. WorkedOnce(e)'
      BY <1>k, <2>0, <3>1, <3>2 DEF WorkedOnce
    <3>5. IdKept(e)'
      BY <1>0, <1>k, <2>0, <3>1, <3>3 DEF IdKept
    <3> QED
      BY <3>4, <3>5
  <2> QED
    BY <2>1, <2>2, <2>3
<1>2. ASSUME NEW t \in tasks, HandleMessage(t) PROVE (WorkedOnce(e) /\ IdKept(e))'
  <2>0. /\ tasks' = tasks \ {t} /\ handled' = [handled EXCEPT ![t[1]] = @ + 1]
        /\ UNCHANGED <<minute, tries, seen, first, excused>>
    BY <1>2 DEF HandleMessage
  <2>1. IdKept(e)' /\ WorkedOnce(e)
    BY <1>k, <2>0 DEF IdKept
  <2>2. CASE t[1] = e
    <3>1. t \in TasksOf(e)
      BY <2>2 DEF TasksOf
    <3>2. tries[e] # 0 /\ handled[e] = 0 /\ TasksOf(e) = {t}
      BY <2>1, <3>1 DEF WorkedOnce
    <3>3. TasksOf(e)' = {} /\ handled'[e] = 1
      BY <1>0, <2>0, <2>2, <3>2 DEF TasksOf
    <3> QED
      BY <2>0, <2>1, <3>2, <3>3 DEF WorkedOnce
  <2>3. CASE t[1] # e
    <3>1. TasksOf(e)' = TasksOf(e) /\ handled'[e] = handled[e]
      BY <1>0, <2>0, <2>3 DEF TasksOf
    <3> QED
      BY <2>0, <2>1, <3>1 DEF WorkedOnce
  <2> QED
    BY <2>2, <2>3
<1>3. CASE RestartBot
  <2>1. tries[e] = 0 /\ e \notin excused
    BY <1>0, <1>3 DEF RestartBot
  <2>2. handled[e] = 0 /\ first[e] <= minute
    BY <1>k, <2>1 DEF WorkedOnce, IdKept
  <2> QED
    BY <1>3, <2>1, <2>2 DEF RestartBot, WorkedOnce, IdKept, TasksOf
<1>4. CASE Minute
  <2>1. WorkedOnce(e)' /\ minute' = minute + 1 /\ UNCHANGED <<tries, seen, first, excused>>
    BY <1>4, <1>k DEF Minute, WorkedOnce, TasksOf
  <2> QED
    BY <1>0, <1>k, <2>1 DEF IdKept
<1>5. CASE UNCHANGED eventVars
  BY <1>5, <1>k DEF eventVars, WorkedOnce, IdKept, TasksOf
<1> QED
  BY <1>1, <1>2, <1>3, <1>4, <1>5 DEF EventNext

(* Clock, deliveries, ids and tasks keep their types.                        *)
THEOREM EventTypes == EventSpec => []EventTypeOK
BY EventTypeInit, EventTypeStep, PTL DEF EventSpec

(* However often Slack repeats its events, whatever comes between and        *)
(* however long the bot works on them, an event that came is worked on once, *)
(* unless a repetition came after its id was dropped or the process died.    *)
THEOREM WorkedOnceEach == EventSpec => []HandledOnce
<1>1. EventInit => EventInv
  <2> SUFFICES ASSUME EventInit PROVE EventInv
    OBVIOUS
  <2>1. \A e \in Events : WorkedOnce(e) /\ IdKept(e)
    BY DEF EventInit, WorkedOnce, IdKept, TasksOf
  <2> QED
    BY <2>1, EventTypeInit DEF EventInv
<1>2. EventInv => HandledOnce
  <2> SUFFICES ASSUME EventInv, NEW e \in Events \ excused
               PROVE  handled[e] + Cardinality(TasksOf(e)) = IF tries[e] = 0 THEN 0 ELSE 1
    BY DEF HandledOnce, TasksOf
  <2>1. WorkedOnce(e)
    BY DEF EventInv
  <2>2. CASE TasksOf(e) = {}
    <3>1. Cardinality(TasksOf(e)) = 0
      BY <2>2, FS_EmptySet
    <3>2. handled[e] = IF tries[e] = 0 THEN 0 ELSE 1
      BY <2>1, <2>2 DEF WorkedOnce
    <3> QED
      BY <3>1, <3>2
  <2>3. ASSUME NEW n \in Nat, TasksOf(e) = {<<e, n>>}, handled[e] = 0, tries[e] # 0
        PROVE  handled[e] + Cardinality(TasksOf(e)) = IF tries[e] = 0 THEN 0 ELSE 1
    <3>1. Cardinality(TasksOf(e)) = 1
      BY <2>3, FS_Singleton
    <3> QED
      BY <2>3, <3>1
  <2> QED
    BY <2>1, <2>2, <2>3 DEF WorkedOnce
<1> QED
  BY <1>1, <1>2, EventStep, PTL DEF EventSpec


------------------------------------------------------------------------------
(* Connections                                                               *)

USE PoolsAssumption

Connected(c) == client[c].pc \in {"try", "query", "commit", "put"}

(* Pools are made one after the other, the last in use; none is before the   *)
(* first, and a pool not made has nothing out.                               *)
PoolsHold ==
  /\ current \in 0 .. pools /\ shut \subseteq 1 .. pools
  /\ \A p \in 1 .. MaxPools : p > pools => taken[p] = {}
  /\ current = 0 => \A c \in Clients : client[c].pc \in {"idle", "none"}

Lost(c) == <<"replaced", c>> \in dropped \/ client[c].pool \in shut

(* What a thread knows of its connection and of its write.                   *)
ClientHolds(c) ==
  /\ client[c].attempt = 3 => client[c].pc \in {"shut", "remake", "putFailed", "done"}
  /\ Connected(c) => client[c].pool \in 1 .. pools
  /\ client[c].pool # 0 =>
       /\ client[c].alive \/ client[c].pool \in shut
       /\ client[c].pool = current \/ <<"replaced", c>> \in dropped
  /\ client[c].written => client[c].pc \in {"put", "putFailed", "done"}
  /\ client[c].pc = "put" =>
       client[c].written \/ <<"commit", c>> \in dropped \/ client[c].pool \in shut
  /\ client[c].pc = "putFailed" /\ client[c].written => Lost(c)
  /\ client[c].pc = "done" =>
       /\ client[c].said = "done" => client[c].written \/ <<"commit", c>> \in dropped
       /\ client[c].said = "failed" /\ client[c].written => Lost(c)

(* What is out of the pool in use, its threads have.                         *)
OutIsHeld ==
  current # 0 /\ current \notin shut => \A c \in taken[current] :
    client[c].pool = current /\ client[c].pc \notin {"idle", "none", "get", "done"}

PoolInv == PoolTypeOK /\ PoolsHold /\ OutIsHeld /\ \A c \in Clients : ClientHolds(c)

ClientRec == [pc : ClientPc, pool : 0 .. MaxPools, alive : BOOLEAN, attempt : 0 .. 3,
              written : BOOLEAN, said : {"nothing", "done", "failed"}]

(* What the pools, and the threads that take no part in a step, must see of  *)
(* it.                                                                       *)
LEMMA OthersHold ==
  ASSUME NEW d \in Clients, ClientHolds(d), client'[d] = client[d], shut \subseteq shut',
         pools \in Nat, pools' \in Nat, pools <= pools',
         \A what : <<what, d>> \in dropped => <<what, d>> \in dropped',
         client[d].pool # 0 /\ client[d].pool = current =>
           client[d].pool = current' \/ <<"replaced", d>> \in dropped'
  PROVE  ClientHolds(d)'
<1>1. Connected(d)' <=> Connected(d)
  BY DEF Connected
<1>2. Lost(d) => Lost(d)'
  BY DEF Lost
<1>3. client[d].pool \in 1 .. pools => client[d].pool \in 1 .. pools'
  OBVIOUS
<1> QED
  BY <1>1, <1>2, <1>3 DEF ClientHolds

LEMMA PoolInitHolds == PoolInit => PoolInv
<1> SUFFICES ASSUME PoolInit PROVE PoolInv
  OBVIOUS
<1>1. AtRestClient \in ClientRec
  BY DEF AtRestClient, ClientRec, ClientPc
<1>2. PoolTypeOK
  BY <1>1 DEF PoolInit, PoolTypeOK, ClientRec
<1>3. \A c \in Clients : ClientHolds(c)
  BY DEF PoolInit, AtRestClient, ClientHolds, Connected
<1>4. PoolsHold /\ OutIsHeld
  BY DEF PoolInit, AtRestClient, PoolsHold, OutIsHeld
<1> QED
  BY <1>2, <1>3, <1>4 DEF PoolInv

(* What a thread does to its own record, and to nobody else's.               *)
LEMMA StepMoves ==
  ASSUME PoolInv, NEW c \in Clients, NEW pc \in ClientPc, Step(c, pc)
  PROVE  /\ client' \in [Clients -> ClientRec] /\ \A d \in Clients : d # c => client'[d] = client[d]
         /\ client'[c].pc = pc /\ client'[c].pool = client[c].pool
         /\ client'[c].alive = client[c].alive /\ client'[c].attempt = client[c].attempt
         /\ client'[c].written = client[c].written /\ client'[c].said = client[c].said
<1> DEFINE w == [client[c] EXCEPT !.pc = pc]
<1>0. client \in [Clients -> ClientRec]
  BY DEF PoolInv, PoolTypeOK, ClientRec
<1>1. \A r \in ClientRec : LET v == [r EXCEPT !.pc = pc] IN
        /\ v \in ClientRec /\ v.pc = pc /\ v.pool = r.pool /\ v.alive = r.alive
        /\ v.attempt = r.attempt /\ v.written = r.written /\ v.said = r.said
  BY DEF ClientRec
<1>2. /\ w \in ClientRec /\ w.pc = pc /\ w.pool = client[c].pool /\ w.alive = client[c].alive
      /\ w.attempt = client[c].attempt /\ w.written = client[c].written /\ w.said = client[c].said
  BY <1>0, <1>1
<1>3. client' = [client EXCEPT ![c] = w]
  BY DEF Step
<1> HIDE DEF w
<1>4. client'[c] = w /\ client' \in [Clients -> ClientRec]
  BY <1>0, <1>2, <1>3
<1>5. \A d \in Clients : d # c => client'[d] = client[d]
  BY <1>0, <1>3
<1> QED
  BY <1>2, <1>4, <1>5

LEMMA EndsMoves ==
  ASSUME PoolInv, NEW c \in Clients, NEW word \in {"done", "failed"}, Ends(c, word)
  PROVE  /\ client' \in [Clients -> ClientRec] /\ \A d \in Clients : d # c => client'[d] = client[d]
         /\ client'[c].pc = "done" /\ client'[c].pool = client[c].pool
         /\ client'[c].alive = client[c].alive /\ client'[c].attempt = client[c].attempt
         /\ client'[c].written = client[c].written /\ client'[c].said = word
<1> DEFINE w == [client[c] EXCEPT !.pc = "done", !.said = word]
<1>0. client \in [Clients -> ClientRec]
  BY DEF PoolInv, PoolTypeOK, ClientRec
<1>1. \A r \in ClientRec : LET v == [r EXCEPT !.pc = "done", !.said = word] IN
        /\ v \in ClientRec /\ v.pc = "done" /\ v.pool = r.pool /\ v.alive = r.alive
        /\ v.attempt = r.attempt /\ v.written = r.written /\ v.said = word
  BY DEF ClientRec, ClientPc
<1>2. /\ w \in ClientRec /\ w.pc = "done" /\ w.pool = client[c].pool /\ w.alive = client[c].alive
      /\ w.attempt = client[c].attempt /\ w.written = client[c].written /\ w.said = word
  BY <1>0, <1>1
<1>3. client' = [client EXCEPT ![c] = w]
  BY DEF Ends
<1> HIDE DEF w
<1>4. client'[c] = w /\ client' \in [Clients -> ClientRec]
  BY <1>0, <1>2, <1>3
<1>5. \A d \in Clients : d # c => client'[d] = client[d]
  BY <1>0, <1>3
<1> QED
  BY <1>2, <1>4, <1>5

(* A step of one thread that makes and closes no pool and takes nothing out. *)
LEMMA ClientMoves ==
  ASSUME PoolInv, NEW c \in Clients,
         client' \in [Clients -> ClientRec], \A d \in Clients : d # c => client'[d] = client[d],
         pools' = pools, current' = current, shut' = shut,
         \A d \in Clients : d # c => \A what : <<what, d>> \in dropped => <<what, d>> \in dropped',
         dropped' \subseteq {"commit", "replaced"} \X Clients,
         taken' \in [1 .. MaxPools -> SUBSET Clients],
         \A p \in 1 .. MaxPools : taken'[p] \subseteq taken[p],
         current = 0 => client'[c].pc \in {"idle", "none"},
         current # 0 /\ current \notin shut /\ c \in taken'[current] =>
           client'[c].pool = current /\ client'[c].pc \notin {"idle", "none", "get", "done"},
         ClientHolds(c)'
  PROVE  PoolInv'
<1>0. pools \in Nat /\ pools <= MaxPools /\ current \in 0 .. MaxPools
  BY DEF PoolInv, PoolTypeOK
<1>1. PoolTypeOK'
  BY DEF PoolInv, PoolTypeOK, ClientRec
<1>2. PoolsHold'
  <2>1. \A p \in 1 .. MaxPools : p > pools => taken'[p] = {}
    BY DEF PoolInv, PoolsHold
  <2>2. current = 0 => \A d \in Clients : client'[d].pc \in {"idle", "none"}
    BY DEF PoolInv, PoolsHold
  <2> QED
    BY <2>1, <2>2 DEF PoolInv, PoolsHold
<1>3. OutIsHeld'
  <2> SUFFICES ASSUME current # 0, current \notin shut, NEW d \in taken'[current]
               PROVE  client'[d].pool = current /\ client'[d].pc \notin {"idle", "none", "get", "done"}
    BY DEF OutIsHeld
  <2>1. current \in 1 .. MaxPools
    BY <1>0
  <2>2. d \in taken[current] /\ d \in Clients
    BY <2>1
  <2>3. client[d].pool = current /\ client[d].pc \notin {"idle", "none", "get", "done"}
    BY <2>2 DEF PoolInv, OutIsHeld
  <2> QED
    BY <2>2, <2>3
<1>4. ASSUME NEW d \in Clients PROVE ClientHolds(d)'
  <2>1. CASE d = c
    BY <2>1
  <2>2. CASE d # c
    <3>1. ClientHolds(d) /\ client'[d] = client[d] /\ shut \subseteq shut' /\ pools' \in Nat /\ pools <= pools'
      BY <1>0, <2>2 DEF PoolInv
    <3>2. client[d].pool # 0 /\ client[d].pool = current =>
            client[d].pool = current' \/ <<"replaced", d>> \in dropped'
      OBVIOUS
    <3>3. \A what : <<what, d>> \in dropped => <<what, d>> \in dropped'
      BY <2>2
    <3> QED
      BY <1>0, <3>1, <3>2, <3>3, OthersHold
  <2> QED
    BY <2>1, <2>2
<1>5. \A d \in Clients : ClientHolds(d)'
  BY <1>4
<1> QED
  BY <1>1, <1>2, <1>3, <1>5 DEF PoolInv

(* Putting a connection back takes it out of the books, and adds none.       *)
LEMMA DiscardTakes ==
  ASSUME PoolInv, NEW c \in Clients, client[c].pool = current, current # 0, taken' = Discard(c)
  PROVE  /\ taken' \in [1 .. MaxPools -> SUBSET Clients]
         /\ \A p \in 1 .. MaxPools : taken'[p] \subseteq taken[p]
         /\ c \notin taken'[current]
<1>1. taken \in [1 .. MaxPools -> SUBSET Clients] /\ current \in 1 .. MaxPools
  BY DEF PoolInv, PoolTypeOK
<1>2. taken' = [taken EXCEPT ![current] = @ \ {c}]
  BY DEF Discard
<1> QED
  BY <1>1, <1>2

LEMMA PoolStep == PoolInv /\ [PoolNext]_poolVars => PoolInv'
<1> SUFFICES ASSUME PoolInv, [PoolNext]_poolVars PROVE PoolInv'
  OBVIOUS
<1>0. /\ client \in [Clients -> ClientRec] /\ taken \in [1 .. MaxPools -> SUBSET Clients]
      /\ pools \in Nat /\ pools <= MaxPools /\ current \in 0 .. pools /\ shut \subseteq 1 .. pools
      /\ dropped \subseteq {"commit", "replaced"} \X Clients
      /\ \A c \in Clients : client[c] \in ClientRec /\ ClientHolds(c)
      /\ current = 0 => \A c \in Clients : client[c].pc \in {"idle", "none"}
  BY DEF PoolInv, PoolTypeOK, PoolsHold, ClientRec
<1>o. ASSUME NEW c \in Clients, current # 0, current \notin shut, c \in taken[current]
      PROVE  client[c].pool = current /\ client[c].pc \notin {"idle", "none", "get", "done"}
  BY <1>o DEF PoolInv, OutIsHeld
<1>p. ClientPc = {"idle", "none", "get", "try", "shut", "remake", "query", "commit", "put", "putFailed", "done"}
  BY DEF ClientPc
<1>t. \A p \in 1 .. MaxPools : taken[p] \subseteq taken[p]
  OBVIOUS
<1>1. ASSUME NEW c \in Clients, AskConn(c) PROVE PoolInv'
  <2>0. PICK pc \in {"none", "get"} : Step(c, pc) /\ (current = 0 => pc = "none")
    BY <1>1 DEF AskConn
  <2>1. /\ client[c].pc = "idle" /\ pools' = pools /\ current' = current /\ shut' = shut
        /\ taken' = taken /\ dropped' = dropped
    BY <1>1 DEF AskConn
  <2>2. pc \in ClientPc
    BY <1>p, <2>0
  <2>3. /\ client' \in [Clients -> ClientRec] /\ \A d \in Clients : d # c => client'[d] = client[d]
        /\ client'[c].pc = pc /\ client'[c].pool = client[c].pool
        /\ client'[c].alive = client[c].alive /\ client'[c].attempt = client[c].attempt
        /\ client'[c].written = client[c].written
    BY <2>0, <2>2, StepMoves
  <2>4. ClientHolds(c)'
    BY <1>0, <2>0, <2>1, <2>3 DEF ClientHolds, Connected
  <2>5. ~(c \in taken'[current] /\ current \notin shut /\ current # 0)
    BY <1>o, <2>1
  <2>6. current = 0 => client'[c].pc \in {"idle", "none"}
    BY <2>0, <2>3
  <2> QED
    BY <1>0, <1>t, <2>1, <2>3, <2>4, <2>5, <2>6, ClientMoves
<1>2. ASSUME NEW c \in Clients, MakePool(c) PROVE PoolInv'
  <2> DEFINE gone == {<<"replaced", d>> : d \in {x \in Clients : client[x].pool # 0}}
  <2>0. PICK pc \in {"putFailed", "get"} : Step(c, pc) /\ (client[c].attempt = 3 => pc = "putFailed")
    BY <1>2 DEF MakePool
  <2>1. /\ client[c].pc \in {"none", "remake"}
        /\ pools < MaxPools /\ pools' = pools + 1 /\ current' = pools + 1
        /\ dropped' = dropped \cup gone /\ shut' = shut /\ taken' = taken
    BY <1>2 DEF MakePool
  <2>2. pc \in ClientPc
    BY <1>p, <2>0
  <2>3. /\ client' \in [Clients -> ClientRec] /\ \A d \in Clients : d # c => client'[d] = client[d]
        /\ client'[c].pc = pc /\ client'[c].pool = client[c].pool
        /\ client'[c].alive = client[c].alive /\ client'[c].attempt = client[c].attempt
        /\ client'[c].written = client[c].written
    BY <2>0, <2>2, StepMoves
  <2>4. \A d \in Clients : client[d].pool # 0 => <<"replaced", d>> \in dropped'
    BY <2>1
  <2>5. \A d, what : <<what, d>> \in dropped => <<what, d>> \in dropped'
    BY <2>1
  <2>6. dropped' \subseteq {"commit", "replaced"} \X Clients
    BY <1>0, <2>1
  <2> HIDE DEF gone
  <2>7. PoolTypeOK'
    BY <1>0, <2>1, <2>3, <2>6 DEF PoolInv, PoolTypeOK, ClientRec
  <2>8. PoolsHold'
    <3>1. pools' \in Nat /\ current' \in 0 .. pools' /\ shut' \subseteq 1 .. pools' /\ current' # 0
      BY <1>0, <2>1
    <3>2. \A p \in 1 .. MaxPools : p > pools' => taken'[p] = {}
      BY <1>0, <2>1 DEF PoolInv, PoolsHold
    <3> QED
      BY <3>1, <3>2 DEF PoolsHold
  <2>9. OutIsHeld'
    <3>1. taken'[current'] = {}
      BY <1>0, <2>1 DEF PoolInv, PoolsHold
    <3> QED
      BY <3>1 DEF OutIsHeld
  <2>10. ClientHolds(c)'
    <3>1. ClientHolds(c) /\ ~client[c].written
      BY <1>0, <2>1 DEF ClientHolds
    <3>2. client'[c].attempt = 3 => client'[c].pc = "putFailed"
      BY <2>0, <2>3
    <3>3. client'[c].pool # 0 => /\ client'[c].alive \/ client'[c].pool \in shut'
                                 /\ <<"replaced", c>> \in dropped'
      BY <2>1, <2>3, <2>4, <3>1 DEF ClientHolds
    <3> QED
      BY <2>0, <2>3, <3>1, <3>2, <3>3 DEF ClientHolds, Connected
  <2>11. ASSUME NEW d \in Clients PROVE ClientHolds(d)'
    <3>1. CASE d = c
      BY <2>10, <3>1
    <3>2. CASE d # c
      <4>1. /\ ClientHolds(d) /\ client'[d] = client[d] /\ shut \subseteq shut'
            /\ pools' \in Nat /\ pools <= pools'
        BY <1>0, <2>1, <2>3, <3>2
      <4>2. \A what : <<what, d>> \in dropped => <<what, d>> \in dropped'
        BY <2>5
      <4>3. client[d].pool # 0 /\ client[d].pool = current =>
              client[d].pool = current' \/ <<"replaced", d>> \in dropped'
        BY <2>4
      <4> QED
        BY <1>0, <4>1, <4>2, <4>3, OthersHold
    <3> QED
      BY <3>1, <3>2
  <2>12. \A d \in Clients : ClientHolds(d)'
    BY <2>11
  <2> QED
    BY <2>7, <2>8, <2>9, <2>12 DEF PoolInv
<1>3. ASSUME NEW c \in Clients, GetConn(c) PROVE PoolInv'
  <2>0. /\ client[c].pc = "get" /\ current # 0 /\ current \in 1 .. MaxPools
        /\ pools' = pools /\ current' = current /\ shut' = shut /\ dropped' = dropped
    BY <1>0, <1>3 DEF GetConn
  <2>h. ClientHolds(c) /\ ~client[c].written /\ client[c].attempt # 3
    BY <1>0, <2>0 DEF ClientHolds
  <2>1. CASE Ends(c, "failed") /\ taken' = taken
    <3>1. /\ client' \in [Clients -> ClientRec] /\ \A d \in Clients : d # c => client'[d] = client[d]
          /\ client'[c].pc = "done" /\ client'[c].pool = client[c].pool
          /\ client'[c].alive = client[c].alive /\ client'[c].attempt = client[c].attempt
          /\ client'[c].written = client[c].written /\ client'[c].said = "failed"
      BY <2>1, EndsMoves
    <3>2. ClientHolds(c)'
      BY <2>0, <2>h, <3>1 DEF ClientHolds, Connected
    <3>3. ~(c \in taken'[current] /\ current \notin shut)
      BY <1>o, <2>0, <2>1
    <3> QED
      BY <1>0, <1>t, <2>0, <2>1, <3>1, <3>2, <3>3, ClientMoves
  <2>2. CASE /\ current \notin shut
             /\ taken' = [taken EXCEPT ![current] = @ \cup {c}]
             /\ client' = [client EXCEPT ![c].pc = "try", ![c].pool = current, ![c].alive = TRUE]
    <3> DEFINE w == [client[c] EXCEPT !.pc = "try", !.pool = current, !.alive = TRUE]
    <3>0. \A r \in ClientRec, p \in 0 .. MaxPools :
            LET v == [r EXCEPT !.pc = "try", !.pool = p, !.alive = TRUE] IN
            /\ v \in ClientRec /\ v.pc = "try" /\ v.pool = p /\ v.alive
            /\ v.attempt = r.attempt /\ v.written = r.written
      BY DEF ClientRec, ClientPc
    <3>c. current \in 0 .. MaxPools /\ current \in 1 .. pools
      BY <1>0, <2>0
    <3>1. /\ w \in ClientRec /\ w.pc = "try" /\ w.pool = current /\ w.alive
          /\ w.attempt = client[c].attempt /\ w.written = client[c].written
      BY <1>0, <3>0, <3>c
    <3>2. client' = [client EXCEPT ![c] = w]
      BY <2>2
    <3> HIDE DEF w
    <3>3. /\ client'[c] = w /\ \A d \in Clients : d # c => client'[d] = client[d]
          /\ client' \in [Clients -> ClientRec]
      BY <1>0, <3>1, <3>2
    <3>4. ClientHolds(c)'
      BY <2>0, <2>h, <3>c, <3>1, <3>3 DEF ClientHolds, Connected
    <3>5. ASSUME NEW d \in Clients PROVE ClientHolds(d)'
      <4>1. CASE d = c
        BY <3>4, <4>1
      <4>2. CASE d # c
        <5>1. /\ ClientHolds(d) /\ client'[d] = client[d] /\ shut \subseteq shut'
              /\ pools' \in Nat /\ pools <= pools'
          BY <1>0, <2>0, <3>3, <4>2
        <5>2. /\ \A what : <<what, d>> \in dropped => <<what, d>> \in dropped'
              /\ client[d].pool # 0 /\ client[d].pool = current =>
                   client[d].pool = current' \/ <<"replaced", d>> \in dropped'
          BY <2>0
        <5> QED
          BY <1>0, <5>1, <5>2, OthersHold
      <4> QED
        BY <4>1, <4>2
    <3>6. taken' \in [1 .. MaxPools -> SUBSET Clients] /\ taken'[current] = taken[current] \cup {c}
      BY <1>0, <2>0, <2>2
    <3>7. PoolTypeOK'
      BY <2>0, <3>3, <3>6 DEF PoolInv, PoolTypeOK, ClientRec
    <3>8. PoolsHold'
      <4>1. \A p \in 1 .. MaxPools : p > pools => p # current
        BY <3>c, <1>0
      <4>2. \A p \in 1 .. MaxPools : p > pools => taken'[p] = {}
        BY <1>0, <2>2, <4>1 DEF PoolInv, PoolsHold
      <4> QED
        BY <2>0, <4>2 DEF PoolInv, PoolsHold
    <3>9. OutIsHeld'
      BY <1>0, <1>o, <2>0, <3>1, <3>3, <3>6 DEF OutIsHeld
    <3>10. \A d \in Clients : ClientHolds(d)'
      BY <3>5
    <3> QED
      BY <3>7, <3>8, <3>9, <3>10 DEF PoolInv
  <2> QED
    BY <1>3, <2>1, <2>2 DEF GetConn
<1>4. ASSUME NEW c \in Clients, TryConn(c) PROVE PoolInv'
  <2>0. /\ Step(c, "query") /\ client[c].pc = "try" /\ "query" \in ClientPc
        /\ pools' = pools /\ current' = current /\ shut' = shut /\ dropped' = dropped /\ taken' = taken
    BY <1>4, <1>p DEF TryConn
  <2>1. /\ client' \in [Clients -> ClientRec] /\ \A d \in Clients : d # c => client'[d] = client[d]
        /\ client'[c].pc = "query" /\ client'[c].pool = client[c].pool
        /\ client'[c].alive = client[c].alive /\ client'[c].attempt = client[c].attempt
        /\ client'[c].written = client[c].written
    BY <2>0, StepMoves
  <2>2. ClientHolds(c)'
    BY <1>0, <2>0, <2>1 DEF ClientHolds, Connected
  <2>3. /\ current # 0
        /\ current \notin shut /\ c \in taken'[current] => client'[c].pool = current
    BY <1>0, <1>o, <2>0, <2>1
  <2> QED
    BY <1>0, <1>t, <2>0, <2>1, <2>2, <2>3, ClientMoves
<1>5. ASSUME NEW c \in Clients, TryFails(c) PROVE PoolInv'
  <2>0. /\ client[c].pc = "try" /\ pools' = pools /\ current' = current /\ shut' = shut /\ dropped' = dropped
    BY <1>5 DEF TryFails
  <2>h. ClientHolds(c) /\ client[c].pool \in 1 .. pools /\ ~client[c].written /\ current # 0
    BY <1>0, <2>0 DEF ClientHolds, Connected
  <2>a. client[c].attempt \in 0 .. 2
    <3>1. client[c].attempt \in 0 .. 3
      BY <1>0 DEF ClientRec
    <3>2. client[c].attempt # 3
      BY <2>0, <2>h DEF ClientHolds
    <3> QED
      BY <3>1, <3>2
  <2>1. CASE /\ Accepts(c) /\ taken' = Discard(c)
             /\ client' = [client EXCEPT ![c].pc = "shut", ![c].pool = 0, ![c].attempt = @ + 1]
    <3> DEFINE n == client[c].attempt + 1
               w == [client[c] EXCEPT !.pc = "shut", !.pool = 0, !.attempt = n]
    <3>n. n \in 0 .. 3 /\ 0 \in 0 .. MaxPools
      BY <2>a
    <3>0. \A k \in 0 .. 3 : LET v == [client[c] EXCEPT !.pc = "shut", !.pool = 0, !.attempt = k] IN
            v \in ClientRec /\ v.pc = "shut" /\ v.pool = 0 /\ v.written = client[c].written
      <4>1. \A r \in ClientRec, k \in 0 .. 3 :
              LET v == [r EXCEPT !.pc = "shut", !.pool = 0, !.attempt = k] IN
              v \in ClientRec /\ v.pc = "shut" /\ v.pool = 0 /\ v.written = r.written
        BY <3>n DEF ClientRec, ClientPc
      <4>2. client[c] \in ClientRec
        BY <1>0
      <4> QED
        BY <4>1, <4>2
    <3>m. [client EXCEPT ![c].pc = "shut", ![c].pool = 0, ![c].attempt = @ + 1]
            = [client EXCEPT ![c] = w]
      BY <1>0
    <3> HIDE DEF n
    <3>w. w \in ClientRec /\ w.pc = "shut" /\ w.pool = 0 /\ w.written = client[c].written
      BY <3>0, <3>n
    <3>1. w \in ClientRec /\ w.pc = "shut" /\ w.pool = 0 /\ ~w.written
      BY <2>h, <3>w
    <3>2. client' = [client EXCEPT ![c] = w]
      BY <2>1, <3>m
    <3> HIDE DEF w
    <3>3. /\ client'[c] = w /\ \A d \in Clients : d # c => client'[d] = client[d]
          /\ client' \in [Clients -> ClientRec]
      BY <1>0, <3>1, <3>2
    <3>4. ClientHolds(c)'
      BY <3>1, <3>3 DEF ClientHolds, Connected
    <3>5. /\ taken' \in [1 .. MaxPools -> SUBSET Clients]
          /\ \A p \in 1 .. MaxPools : taken'[p] \subseteq taken[p]
          /\ c \notin taken'[current]
      BY <2>1, <2>h, DiscardTakes DEF Accepts
    <3> QED
      BY <1>0, <2>0, <2>h, <3>3, <3>4, <3>5, ClientMoves
  <2>2. CASE ~Accepts(c) /\ Ends(c, "failed") /\ taken' = taken
    <3>1. /\ client' \in [Clients -> ClientRec] /\ \A d \in Clients : d # c => client'[d] = client[d]
          /\ client'[c].pc = "done" /\ client'[c].pool = client[c].pool
          /\ client'[c].alive = client[c].alive /\ client'[c].attempt = client[c].attempt
          /\ client'[c].written = client[c].written /\ client'[c].said = "failed"
      BY <2>2, EndsMoves
    <3>2. ClientHolds(c)'
      BY <2>0, <2>h, <3>1 DEF ClientHolds, Connected
    <3>3. ~(c \in taken'[current] /\ current \notin shut)
      BY <1>o, <2>h, <2>2 DEF Accepts
    <3> QED
      BY <1>0, <1>t, <2>0, <2>2, <2>h, <3>1, <3>2, <3>3, ClientMoves
  <2> QED
    BY <1>5, <2>1, <2>2 DEF TryFails
<1>6. ASSUME NEW c \in Clients, ShutPool(c) PROVE PoolInv'
  <2>0. /\ client[c].pc = "shut" /\ current # 0 /\ shut' = shut \cup {current}
        /\ UNCHANGED <<pools, current, taken, dropped>> /\ ~client[c].written
    BY <1>0, <1>6 DEF ShutPool, ClientHolds
  <2> DEFINE w == [client[c] EXCEPT !.pc = "remake"]
             dead(d) == [client[d] EXCEPT !.alive = FALSE]
  <2>1. /\ w \in ClientRec /\ w.pc = "remake" /\ w.pool = client[c].pool /\ w.alive = client[c].alive
        /\ w.attempt = client[c].attempt /\ w.written = client[c].written /\ w.said = client[c].said
    <3>1. \A r \in ClientRec : LET v == [r EXCEPT !.pc = "remake"] IN
            /\ v \in ClientRec /\ v.pc = "remake" /\ v.pool = r.pool /\ v.alive = r.alive
            /\ v.attempt = r.attempt /\ v.written = r.written /\ v.said = r.said
      BY DEF ClientRec, ClientPc
    <3> QED
      BY <1>0, <3>1
  <2>a. \A r \in ClientRec : LET v == [r EXCEPT !.alive = FALSE] IN
          /\ v \in ClientRec /\ v.pc = r.pc /\ v.pool = r.pool /\ v.attempt = r.attempt
          /\ v.written = r.written /\ v.said = r.said
    BY DEF ClientRec
  <2>2. \A d \in Clients : /\ dead(d) \in ClientRec /\ dead(d).pc = client[d].pc
                           /\ dead(d).pool = client[d].pool /\ dead(d).attempt = client[d].attempt
                           /\ dead(d).written = client[d].written /\ dead(d).said = client[d].said
    BY <1>0, <2>a
  <2>3. client' = [d \in Clients |-> IF d = c THEN w ELSE IF client[d].pool = current
                                     THEN dead(d) ELSE client[d]]
    BY <1>6 DEF ShutPool
  <2> HIDE DEF w, dead
  <2>4. client'[c] = w
    BY <2>3
  <2>5. \A d \in Clients : /\ d # c => client'[d].pc = client[d].pc
                           /\ client'[d].pool = client[d].pool
                           /\ client'[d].attempt = client[d].attempt
                           /\ client'[d].written = client[d].written
                           /\ client'[d].said = client[d].said
                           /\ client[d].pool # current => (client'[d].alive <=> client[d].alive)
    BY <2>1, <2>2, <2>3
  <2>6. PoolTypeOK'
    <3>1. client' \in [Clients -> ClientRec]
      BY <1>0, <2>1, <2>2, <2>3
    <3> QED
      BY <1>0, <2>0, <3>1 DEF PoolInv, PoolTypeOK, ClientRec
  <2>7. PoolsHold' /\ OutIsHeld'
    <3>1. shut' \subseteq 1 .. pools /\ pools' = pools /\ current' = current /\ taken' = taken
      BY <1>0, <2>0
    <3>2. OutIsHeld'
      BY <2>0, <3>1 DEF OutIsHeld
    <3>3. PoolsHold'
      BY <1>0, <2>0, <3>1 DEF PoolInv, PoolsHold
    <3> QED
      BY <3>2, <3>3
  <2>8. ClientHolds(c)'
    <3>1. ClientHolds(c) /\ (Lost(c) => Lost(c)')
      BY <1>0, <2>0, <2>5 DEF Lost
    <3> QED
      BY <2>0, <2>1, <2>4, <2>5, <3>1 DEF ClientHolds, Connected
  <2>9. ASSUME NEW d \in Clients, d # c PROVE ClientHolds(d)'
    <3>1. ClientHolds(d) /\ (Lost(d) => Lost(d)') /\ (Connected(d)' <=> Connected(d))
      BY <1>0, <2>0, <2>5, <2>9 DEF Lost, Connected
    <3> QED
      BY <2>0, <2>5, <2>9, <3>1 DEF ClientHolds
  <2> QED
    BY <2>6, <2>7, <2>8, <2>9 DEF PoolInv
<1>7. ASSUME NEW c \in Clients, Query(c) PROVE PoolInv'
  <2>0. /\ client[c].pc = "query" /\ current # 0
        /\ pools' = pools /\ current' = current /\ shut' = shut /\ dropped' = dropped /\ taken' = taken
    BY <1>0, <1>7 DEF Query
  <2>1. PICK pc \in {"commit", "putFailed"} : Step(c, pc)
    BY <1>7 DEF Query
  <2>2. pc \in ClientPc
    BY <1>p, <2>1
  <2>3. /\ client' \in [Clients -> ClientRec] /\ \A d \in Clients : d # c => client'[d] = client[d]
        /\ client'[c].pc = pc /\ client'[c].pool = client[c].pool
        /\ client'[c].alive = client[c].alive /\ client'[c].attempt = client[c].attempt
        /\ client'[c].written = client[c].written
    BY <2>1, <2>2, StepMoves
  <2>4. ClientHolds(c) /\ client[c].attempt # 3 /\ ~client[c].written
    BY <1>0, <2>0 DEF ClientHolds
  <2>5. ClientHolds(c)'
    BY <2>0, <2>1, <2>3, <2>4 DEF ClientHolds, Connected
  <2>6. current \notin shut /\ c \in taken'[current] =>
          client'[c].pool = current /\ client'[c].pc \notin {"idle", "none", "get", "done"}
    BY <1>o, <2>0, <2>1, <2>3
  <2> QED
    BY <1>0, <1>t, <2>0, <2>3, <2>5, <2>6, ClientMoves
<1>8. ASSUME NEW c \in Clients, Commit(c) PROVE PoolInv'
  <2>0. /\ client[c].pc = "commit" /\ current # 0
        /\ pools' = pools /\ current' = current /\ shut' = shut /\ taken' = taken
    BY <1>0, <1>8 DEF Commit
  <2>h. ClientHolds(c) /\ client[c].attempt # 3 /\ ~client[c].written /\ client[c].pool \in 1 .. pools
    BY <1>0, <2>0 DEF ClientHolds, Connected
  <2>1. CASE client' = [client EXCEPT ![c].pc = "put", ![c].written = TRUE] /\ dropped' = dropped
    <3> DEFINE w == [client[c] EXCEPT !.pc = "put", !.written = TRUE]
    <3>0. \A r \in ClientRec : LET v == [r EXCEPT !.pc = "put", !.written = TRUE] IN
            /\ v \in ClientRec /\ v.pc = "put" /\ v.written /\ v.pool = r.pool
            /\ v.alive = r.alive /\ v.attempt = r.attempt
      BY DEF ClientRec, ClientPc
    <3>1. /\ w \in ClientRec /\ w.pc = "put" /\ w.written /\ w.pool = client[c].pool
          /\ w.alive = client[c].alive /\ w.attempt = client[c].attempt
      BY <1>0, <3>0
    <3>2. client' = [client EXCEPT ![c] = w]
      BY <2>1
    <3> HIDE DEF w
    <3>3. /\ client'[c] = w /\ \A d \in Clients : d # c => client'[d] = client[d]
          /\ client' \in [Clients -> ClientRec]
      BY <1>0, <3>1, <3>2
    <3>4. ClientHolds(c)'
      BY <2>0, <2>1, <2>h, <3>1, <3>3 DEF ClientHolds, Connected
    <3>5. current \notin shut /\ c \in taken'[current] => client'[c].pool = current
      BY <1>o, <2>0, <3>1, <3>3
    <3> QED
      BY <1>0, <1>t, <2>0, <2>1, <3>1, <3>3, <3>4, <3>5, ClientMoves
  <2>2. CASE /\ Step(c, "put")
             /\ \/ dropped' = dropped \cup {<<"commit", c>>}
                \/ ~client[c].alive /\ dropped' = dropped
    <3>0. "put" \in ClientPc
      BY <1>p
    <3>1. /\ client' \in [Clients -> ClientRec] /\ \A d \in Clients : d # c => client'[d] = client[d]
          /\ client'[c].pc = "put" /\ client'[c].pool = client[c].pool
          /\ client'[c].alive = client[c].alive /\ client'[c].attempt = client[c].attempt
          /\ client'[c].written = client[c].written
      BY <2>2, <3>0, StepMoves
    <3>2. /\ \A d, what : <<what, d>> \in dropped => <<what, d>> \in dropped'
          /\ dropped' \subseteq {"commit", "replaced"} \X Clients
      BY <1>0, <2>2
    <3>3. <<"commit", c>> \in dropped' \/ client[c].pool \in shut
      BY <2>2, <2>h DEF ClientHolds
    <3>4. client[c].pool = current \/ <<"replaced", c>> \in dropped'
      BY <2>h, <3>2 DEF ClientHolds
    <3>5. ClientHolds(c)'
      BY <2>0, <2>h, <3>1, <3>3, <3>4 DEF ClientHolds, Connected
    <3>6. current \notin shut /\ c \in taken'[current] => client'[c].pool = current
      BY <1>o, <2>0, <3>1
    <3> QED
      BY <1>0, <1>t, <2>0, <3>1, <3>2, <3>5, <3>6, ClientMoves
  <2> QED
    BY <1>8, <2>1, <2>2 DEF Commit
<1>9. ASSUME NEW c \in Clients, PutBack(c) PROVE PoolInv'
  <2>0. /\ client[c].pc = "put" /\ current # 0
        /\ pools' = pools /\ current' = current /\ shut' = shut /\ dropped' = dropped
    BY <1>0, <1>9 DEF PutBack
  <2>h. ClientHolds(c) /\ client[c].attempt # 3 /\ client[c].pool \in 1 .. pools
    BY <1>0, <2>0 DEF ClientHolds, Connected
  <2>1. CASE Accepts(c) /\ taken' = Discard(c) /\ Ends(c, "done")
    <3>1. /\ client' \in [Clients -> ClientRec] /\ \A d \in Clients : d # c => client'[d] = client[d]
          /\ client'[c].pc = "done" /\ client'[c].pool = client[c].pool
          /\ client'[c].alive = client[c].alive /\ client'[c].attempt = client[c].attempt
          /\ client'[c].written = client[c].written /\ client'[c].said = "done"
      BY <2>1, EndsMoves
    <3>2. ClientHolds(c)'
      BY <2>0, <2>1, <2>h, <3>1 DEF ClientHolds, Connected, Accepts
    <3>3. /\ taken' \in [1 .. MaxPools -> SUBSET Clients]
          /\ \A p \in 1 .. MaxPools : taken'[p] \subseteq taken[p]
          /\ c \notin taken'[current]
      BY <2>0, <2>1, DiscardTakes DEF Accepts
    <3> QED
      BY <1>0, <2>0, <3>1, <3>2, <3>3, ClientMoves
  <2>2. CASE ~Accepts(c) /\ Step(c, "putFailed") /\ taken' = taken
    <3>0. "putFailed" \in ClientPc
      BY <1>p
    <3>1. /\ client' \in [Clients -> ClientRec] /\ \A d \in Clients : d # c => client'[d] = client[d]
          /\ client'[c].pc = "putFailed" /\ client'[c].pool = client[c].pool
          /\ client'[c].alive = client[c].alive /\ client'[c].attempt = client[c].attempt
          /\ client'[c].written = client[c].written
      BY <2>2, <3>0, StepMoves
    <3>2. Lost(c)'
      BY <2>0, <2>2, <2>h, <3>1 DEF ClientHolds, Lost, Accepts
    <3>3. ClientHolds(c)'
      BY <2>0, <2>h, <3>1, <3>2 DEF ClientHolds, Connected
    <3>4. current \notin shut /\ c \in taken'[current] => client'[c].pool = current
      BY <1>o, <2>0, <2>2, <3>1
    <3> QED
      BY <1>0, <1>t, <2>0, <2>2, <3>1, <3>3, <3>4, ClientMoves
  <2> QED
    BY <1>9, <2>1, <2>2 DEF PutBack
<1>10. ASSUME NEW c \in Clients, PutFailed(c) PROVE PoolInv'
  <2>0. /\ client[c].pc = "putFailed" /\ current # 0 /\ Ends(c, "failed")
        /\ pools' = pools /\ current' = current /\ shut' = shut /\ dropped' = dropped
    BY <1>0, <1>10 DEF PutFailed
  <2>1. /\ client' \in [Clients -> ClientRec] /\ \A d \in Clients : d # c => client'[d] = client[d]
        /\ client'[c].pc = "done" /\ client'[c].pool = client[c].pool
        /\ client'[c].alive = client[c].alive /\ client'[c].attempt = client[c].attempt
        /\ client'[c].written = client[c].written /\ client'[c].said = "failed"
    BY <2>0, EndsMoves
  <2>2. ClientHolds(c) /\ (Lost(c) <=> Lost(c)')
    BY <1>0, <2>0, <2>1 DEF Lost
  <2>3. ClientHolds(c)'
    BY <2>0, <2>1, <2>2 DEF ClientHolds, Connected
  <2>4. /\ taken' \in [1 .. MaxPools -> SUBSET Clients]
        /\ \A p \in 1 .. MaxPools : taken'[p] \subseteq taken[p]
        /\ ~(c \in taken'[current] /\ current \notin shut)
    <3>1. CASE client[c].pool # 0 /\ Accepts(c)
      BY <1>10, <2>0, <3>1, DiscardTakes DEF PutFailed, Accepts
    <3>2. CASE ~(client[c].pool # 0 /\ Accepts(c))
      BY <1>0, <1>10, <1>o, <2>0, <3>2 DEF PutFailed, Accepts
    <3> QED
      BY <3>1, <3>2
  <2> QED
    BY <1>0, <2>0, <2>1, <2>3, <2>4, ClientMoves
<1>11. ASSUME NEW c \in Clients, Again(c) PROVE PoolInv'
  <2>1. /\ AtRestClient \in ClientRec /\ AtRestClient.pc = "idle" /\ AtRestClient.pool = 0
        /\ AtRestClient.attempt = 0 /\ ~AtRestClient.written
    BY DEF AtRestClient, ClientRec, ClientPc
  <2>2. /\ client' = [client EXCEPT ![c] = AtRestClient] /\ client[c].pc = "done" /\ current # 0
        /\ dropped' = dropped \ ({"commit", "replaced"} \X {c})
        /\ pools' = pools /\ current' = current /\ shut' = shut /\ taken' = taken
    BY <1>0, <1>11 DEF Again
  <2>3. /\ client'[c] = AtRestClient /\ \A d \in Clients : d # c => client'[d] = client[d]
        /\ client' \in [Clients -> ClientRec]
    BY <1>0, <2>1, <2>2
  <2>4. ClientHolds(c)'
    BY <2>1, <2>3 DEF ClientHolds, Connected
  <2>5. ~(c \in taken'[current] /\ current \notin shut)
    BY <1>o, <2>2
  <2>6. /\ \A d \in Clients : d # c => \A what : <<what, d>> \in dropped => <<what, d>> \in dropped'
        /\ dropped' \subseteq {"commit", "replaced"} \X Clients
    BY <1>0, <2>2
  <2> QED
    BY <1>0, <1>t, <2>1, <2>2, <2>3, <2>4, <2>5, <2>6, ClientMoves
<1>12. CASE UNCHANGED poolVars
  BY <1>12 DEF poolVars, PoolInv, PoolTypeOK, PoolsHold, OutIsHeld, ClientHolds, Connected, Lost
<1> QED
  BY <1>1, <1>2, <1>3, <1>4, <1>5, <1>6, <1>7, <1>8, <1>9, <1>10, <1>11, <1>12 DEF PoolNext

(* Pools, threads and what is out keep their types, and a thread tries at    *)
(* most three times.                                                         *)
THEOREM PoolTypes == PoolSpec => []PoolTypeOK
<1>1. PoolInv => PoolTypeOK
  BY DEF PoolInv
<1> QED
  BY <1>1, PoolInitHolds, PoolStep, PTL DEF PoolSpec

(* For any number of threads, whatever dies and whichever pool is closed or  *)
(* replaced under whom: what a caller hears of his write is so, but for the  *)
(* cases named, and only threads at work have a connection of the pool.      *)
THEOREM ReportsAreTrue == PoolSpec => []ReportsHold
<1>1. PoolInv => ReportsHold
  BY DEF PoolInv, ClientHolds, OutIsHeld, Lost, ReportsHold
<1> QED
  BY <1>1, PoolInitHolds, PoolStep, PTL DEF PoolSpec

------------------------------------------------------------------------------
(* Votes                                                                     *)

USE VotersAssumption

VoteRow == [saved : BOOLEAN, up : Int, down : Int]
Click == [pc : {"idle", "put", "return", "show"}, up : Int, down : Int]
Fields == {"up", "down"}

VoteKinds ==
  /\ entry.up \in Int /\ entry.down \in Int
  /\ DOMAIN entry.voters \subseteq Voters
  /\ \A u \in DOMAIN entry.voters : entry.voters[u] \in {1, -1}
  /\ row \in VoteRow /\ queued \in Seq(Counts) /\ click \in [Voters -> Click]

(* In the cache everybody who voted counts once; what its counts have and    *)
(* the row has not is on the queue, or in the hands of who voted.            *)
CacheCounts == "forgot" \notin history => entry.up = Side(1) /\ entry.down = Side(-1)
RowFollows ==
  "forgot" \notin history /\ "lost" \notin history =>
    row.up + Coming("up") = entry.up /\ row.down + Coming("down") = entry.down

(* Clicks that do not overlap are answered with the counts they left.        *)
Answered ==
  "forgot" \notin history /\ "crossed" \notin history =>
    /\ \A u, v \in Voters : click[u].pc # "idle" /\ click[v].pc # "idle" => u = v
    /\ \A u \in Voters : click[u].pc = "show" => click[u].up = entry.up /\ click[u].down = entry.down
    /\ (\A u \in Voters : click[u].pc = "idle") => shown = [up |-> entry.up, down |-> entry.down]

VoteInv == VoteKinds /\ CacheCounts /\ RowFollows /\ Answered

Column(q, field) == [i \in DOMAIN q |-> Part(q[i], field)]
Pressed(field) == [u \in Voters |-> IF click[u].pc = "put" THEN Part(click[u], field) ELSE 0]

LEMMA PartsAreInts ==
  /\ \A w \in Counts, field \in Fields : Part(w, field) \in Int
  /\ \A w \in Click, field \in Fields : Part(w, field) \in Int
BY DEF Part, Counts, Click, Fields

LEMMA WaitingType ==
  ASSUME NEW q \in Seq(Counts), NEW field \in Fields
  PROVE  Waiting(q, field) \in Int /\ Waiting(q, field) = Total(Column(q, field), 1 .. Len(q))
<1>1. DOMAIN q = 1 .. Len(q) /\ Len(q) \in Nat /\ \A i \in 1 .. Len(q) : q[i] \in Counts
  OBVIOUS
<1>2. \A i \in 1 .. Len(q) : Column(q, field)[i] \in Int
  BY <1>1, PartsAreInts DEF Column
<1>3. IsFiniteSet(1 .. Len(q))
  BY <1>1, FS_Interval
<1>4. Waiting(q, field) = Total(Column(q, field), 1 .. Len(q))
  BY <1>1 DEF Waiting, Column
<1> QED
  BY <1>2, <1>3, <1>4, TotalType

LEMMA WaitingNothing ==
  ASSUME NEW field \in Fields PROVE Waiting(<<>>, field) = 0
<1>1. <<>> \in Seq(Counts) /\ 1 .. Len(<<>>) = {}
  OBVIOUS
<1>2. Waiting(<<>>, field) = Total(Column(<<>>, field), {})
  BY <1>1, WaitingType
<1> QED
  BY <1>2, FS_EmptySet, TotalZero

(* A write on the queue is one more of what waits; ...                       *)
LEMMA WaitingGrows ==
  ASSUME NEW q \in Seq(Counts), NEW w \in Counts, NEW field \in Fields
  PROVE  Waiting(Append(q, w), field) = Waiting(q, field) + Part(w, field)
<1> DEFINE n == Len(q)
           r == Append(q, w)
           f == Column(q, field)
           g == Column(r, field)
<1>1. /\ n \in Nat /\ r \in Seq(Counts) /\ Len(r) = n + 1
      /\ r[n + 1] = w /\ \A i \in 1 .. n : r[i] = q[i]
  OBVIOUS
<1>2. \A i \in 1 .. n + 1 : g[i] = Part(r[i], field) /\ g[i] \in Int
  BY <1>1, PartsAreInts DEF Column
<1>3. \A i \in 1 .. n : f[i] = Part(q[i], field)
  BY DEF Column
<1>4. IsFiniteSet(1 .. n + 1) /\ IsFiniteSet(1 .. n)
  BY <1>1, FS_Interval
<1>5. (1 .. n + 1) \ {n + 1} = 1 .. n /\ n + 1 \in 1 .. n + 1
  BY <1>1
<1>6. Waiting(r, field) = Total(g, 1 .. n + 1) /\ Waiting(q, field) = Total(f, 1 .. n) /\ Waiting(q, field) \in Int
  BY <1>1, WaitingType
<1>7. \A i \in 1 .. n : f[i] = g[i]
  <2> TAKE i \in 1 .. n
  <2>1. i \in 1 .. n + 1
    BY <1>1
  <2> QED
    BY <1>1, <1>2, <1>3, <2>1
<1>8. g[n + 1] = Part(w, field) /\ Part(w, field) \in Int
  BY <1>1, <1>2, <1>5, PartsAreInts
<1> HIDE DEF f, g, r, n
<1>9. Total(g, 1 .. n + 1) = g[n + 1] + Total(g, 1 .. n)
  <2>1. Total(g, 1 .. n + 1) = g[n + 1] + Total(g, (1 .. n + 1) \ {n + 1})
    <3> DEFINE m == n + 1
               S == 1 .. n + 1
    <3>1. IsFiniteSet(S) /\ m \in S /\ \A i \in S : g[i] \in Int
      BY <1>2, <1>4, <1>5
    <3> HIDE DEF m, S
    <3>2. Total(g, S) = g[m] + Total(g, S \ {m})
      BY <3>1, TotalRemove
    <3> QED
      BY <3>2 DEF m, S
  <2> QED
    BY <1>5, <2>1
<1>10. Total(f, 1 .. n) = Total(g, 1 .. n)
  BY <1>4, <1>7, TotalSame
<1>11. Waiting(r, field) = Waiting(q, field) + Part(w, field)
  BY <1>6, <1>8, <1>9, <1>10
<1> QED
  BY <1>11 DEF r

(* ... and one taken from its head is one less.                              *)
LEMMA WaitingShrinks ==
  ASSUME NEW q \in Seq(Counts), q # <<>>, NEW field \in Fields
  PROVE  Waiting(q, field) = Waiting(Tail(q), field) + Part(Head(q), field)
<1> DEFINE n == Len(q)
           r == Tail(q)
           f == Column(q, field)
           g == Column(r, field)
           h == [i \in 1 .. n - 1 |-> i + 1]
<1>1. /\ n \in Nat /\ n > 0 /\ r \in Seq(Counts) /\ Len(r) = n - 1
      /\ Head(q) = q[1] /\ q[1] \in Counts /\ \A i \in 1 .. n - 1 : r[i] = q[i + 1]
  OBVIOUS
<1>2. \A i \in 1 .. n : f[i] = Part(q[i], field) /\ f[i] \in Int
  BY <1>1, PartsAreInts DEF Column
<1>3. \A i \in 1 .. n - 1 : g[i] = Part(r[i], field) /\ g[i] \in Int
  BY <1>1, PartsAreInts DEF Column
<1>4. IsFiniteSet(1 .. n) /\ IsFiniteSet(1 .. n - 1)
  BY <1>1, FS_Interval
<1>5. 1 \in 1 .. n /\ (1 .. n) \ {1} = 2 .. n
  BY <1>1
<1>a. \A j \in 2 .. n : \E i \in 1 .. n - 1 : h[i] = j
  <2> TAKE j \in 2 .. n
  <2>1. j - 1 \in 1 .. n - 1 /\ h[j - 1] = j
    BY <1>1
  <2> QED
    BY <2>1
<1>b. \A i \in 1 .. n - 1 : h[i] \in 2 .. n
  BY <1>1
<1>6. /\ Waiting(q, field) = Total(f, 1 .. n)
      /\ Waiting(r, field) = Total(g, 1 .. n - 1) /\ Waiting(r, field) \in Int
  BY <1>1, WaitingType
<1>7. \A i \in 1 .. n - 1 : f[h[i]] = g[i]
  <2> TAKE i \in 1 .. n - 1
  <2>1. h[i] = i + 1 /\ i + 1 \in 1 .. n
    BY <1>1
  <2> QED
    BY <1>1, <1>2, <1>3, <2>1
<1>8. f[1] = Part(Head(q), field) /\ Part(Head(q), field) \in Int
  BY <1>1, <1>2
<1>9. \A i, j \in 1 .. n - 1 : h[i] = h[j] => i = j
  BY <1>1
<1> HIDE DEF f, g, h, r, n
<1> DEFINE one == 1
           all == 1 .. n
           later == 2 .. n
           fewer == 1 .. n - 1
<1>c. /\ \A i \in all : f[i] \in Int
      /\ \A i \in fewer : g[i] \in Int /\ f[h[i]] = g[i] /\ h[i] \in later
      /\ \A i, j \in fewer : h[i] = h[j] => i = j
      /\ \A j \in later : \E i \in fewer : h[i] = j
      /\ one \in all /\ all \ {one} = later /\ IsFiniteSet(all) /\ IsFiniteSet(fewer)
  BY <1>2, <1>3, <1>4, <1>5, <1>7, <1>9, <1>a, <1>b
<1> HIDE DEF one, all, later, fewer
<1>10. Total(f, all) = f[one] + Total(f, later)
  BY <1>c, TotalRemove
<1>11. Total(f, later) = Total(g, fewer)
  BY <1>c, TotalRenamed
<1> USE DEF one, all, later, fewer
<1>12. Waiting(q, field) = Waiting(r, field) + Part(Head(q), field)
  BY <1>6, <1>8, <1>10, <1>11
<1> QED
  BY <1>12 DEF r

LEMMA ClickedType ==
  ASSUME NEW field \in Fields, click \in [Voters -> Click]
  PROVE  Clicked(field) \in Int /\ \A u \in Voters : Pressed(field)[u] \in Int
<1>1. \A u \in Voters : Pressed(field)[u] \in Int
  BY PartsAreInts DEF Pressed
<1>2. Clicked(field) = Total(Pressed(field), Voters)
  BY DEF Clicked, Pressed
<1> QED
  BY <1>1, <1>2, TotalType

(* A click of one voter changes what is in hand by what is in his.           *)
LEMMA ClickedMoves ==
  ASSUME click \in [Voters -> Click], click' \in [Voters -> Click], NEW u \in Voters, NEW field \in Fields,
         \A v \in Voters : v # u => click'[v] = click[v]
  PROVE  Clicked(field)' = Clicked(field)
           + ((IF click'[u].pc = "put" THEN Part(click'[u], field) ELSE 0)
              - (IF click[u].pc = "put" THEN Part(click[u], field) ELSE 0))
<1> DEFINE f == Pressed(field)
           g == [v \in Voters |-> IF click'[v].pc = "put" THEN Part(click'[v], field) ELSE 0]
<1>1. \A v \in Voters : f[v] \in Int /\ g[v] \in Int
  BY PartsAreInts DEF Pressed
<1>2. \A v \in Voters \ {u} : f[v] = g[v]
  BY DEF Pressed
<1>3. Clicked(field) = Total(f, Voters) /\ Clicked(field)' = Total(g, Voters)
  BY DEF Clicked, Pressed, Part
<1>4. /\ g[u] = IF click'[u].pc = "put" THEN Part(click'[u], field) ELSE 0
      /\ f[u] = IF click[u].pc = "put" THEN Part(click[u], field) ELSE 0
  BY DEF Pressed
<1> HIDE DEF f, g
<1>5. Total(g, Voters) = Total(f, Voters) + (g[u] - f[u])
  BY <1>1, <1>2, TotalChange
<1> QED
  BY <1>3, <1>4, <1>5

(* A vote adds its voter to one side, and takes him from the other.          *)
LEMMA SideMoves ==
  ASSUME VoteKinds, NEW u \in Voters, NEW vote \in {1, -1}, NEW side \in {1, -1}, Before(u) # vote,
         entry'.voters = [v \in DOMAIN entry.voters \cup {u} |-> IF v = u THEN vote ELSE entry.voters[v]]
  PROVE  /\ Side(side) \in Nat /\ Side(side)' \in Nat
         /\ Side(side)' = Side(side) + (IF vote = side THEN 1 ELSE IF Before(u) = side THEN -1 ELSE 0)
<1> DEFINE A == {v \in DOMAIN entry.voters : entry.voters[v] = side}
           B == {v \in DOMAIN entry'.voters : entry'.voters[v] = side}
<1>0. Side(side) = Cardinality(A) /\ Side(side)' = Cardinality(B)
  BY DEF Side
<1>1. IsFiniteSet(A) /\ Cardinality(A) \in Nat
  <2>1. A \in SUBSET Voters
    BY DEF VoteKinds
  <2> QED
    BY <2>1, FS_Subset, FS_CardinalityType
<1>2. u \in A <=> Before(u) = side
  BY DEF Before
<1>3. vote = side => B = A \cup {u}
  OBVIOUS
<1>4. vote # side => B = A \ {u}
  OBVIOUS
<1> HIDE DEF A, B
<1>5. CASE vote = side
  <2>1. u \notin A
    BY <1>2, <1>5
  <2>2. Cardinality(B) = Cardinality(A) + 1
    BY <1>1, <1>3, <1>5, <2>1, FS_AddElement
  <2> QED
    BY <1>0, <1>1, <1>5, <2>2
<1>6. CASE vote # side
  <2>1. Cardinality(B) = IF u \in A THEN Cardinality(A) - 1 ELSE Cardinality(A)
    BY <1>1, <1>4, <1>6, FS_RemoveElement
  <2>2. IsFiniteSet(B) /\ Cardinality(B) \in Nat
    BY <1>1, <1>4, <1>6, FS_RemoveElement, FS_CardinalityType
  <2> QED
    BY <1>0, <1>1, <1>2, <1>6, <2>1, <2>2
<1> QED
  BY <1>5, <1>6

LEMMA VoteInitHolds == VoteInit => VoteInv
<1> SUFFICES ASSUME VoteInit PROVE VoteInv
  OBVIOUS
<1>1. /\ entry = [up |-> 0, down |-> 0, voters |-> <<>>] /\ row = [saved |-> FALSE, up |-> 0, down |-> 0]
      /\ queued = <<>> /\ click = [u \in Voters |-> NoClick] /\ shown = Zero
  BY DEF VoteInit
<1>2. DOMAIN entry.voters = {}
  BY <1>1
<1>3. VoteKinds
  BY <1>1, <1>2 DEF VoteKinds, VoteRow, Click, NoClick
<1>4. \A side : Side(side) = 0
  <2> TAKE side
  <2>1. {u \in DOMAIN entry.voters : entry.voters[u] = side} = {}
    BY <1>2
  <2> QED
    BY <2>1, FS_EmptySet DEF Side
<1>5. \A field \in Fields : Coming(field) = 0
  <2> TAKE field \in Fields
  <2>1. Waiting(queued, field) = 0
    BY <1>1, WaitingNothing
  <2>2. Clicked(field) = Total(Pressed(field), Voters)
    BY DEF Clicked, Pressed
  <2>3. \A u \in Voters : Pressed(field)[u] = 0
    BY <1>1 DEF Pressed, NoClick
  <2>4. Clicked(field) = 0
    BY <2>2, <2>3, TotalZero
  <2> QED
    BY <2>1, <2>4 DEF Coming
<1>6. CacheCounts
  BY <1>1, <1>4 DEF CacheCounts
<1>7. RowFollows
  BY <1>1, <1>5 DEF RowFollows, Fields
<1>8. Answered
  BY <1>1 DEF Answered, NoClick, Zero
<1> QED
  BY <1>3, <1>6, <1>7, <1>8 DEF VoteInv

LEMMA VoteStep == VoteInv /\ [VoteNext]_voteVars => VoteInv'
<1> SUFFICES ASSUME VoteInv, [VoteNext]_voteVars PROVE VoteInv'
  OBVIOUS
<1>0. /\ VoteKinds /\ CacheCounts /\ RowFollows /\ Answered
      /\ entry.up \in Int /\ entry.down \in Int /\ row \in VoteRow /\ row.up \in Int /\ row.down \in Int
      /\ queued \in Seq(Counts) /\ click \in [Voters -> Click]
  BY DEF VoteInv, VoteKinds, VoteRow
<1>f. "up" \in Fields /\ "down" \in Fields
  BY DEF Fields
<1>s. \A u \in Voters : click[u] \in Click /\ click[u].up \in Int /\ click[u].down \in Int
  BY <1>0 DEF Click
<1>t. \A field \in Fields : Coming(field) \in Int /\ Waiting(queued, field) \in Int /\ Clicked(field) \in Int
  BY <1>0, WaitingType, ClickedType DEF Coming
<1>c. \A field \in Fields : Coming(field) = Waiting(queued, field) + Clicked(field)
  BY DEF Coming
<1>d. \A field \in Fields : Coming(field)' = Waiting(queued', field) + Clicked(field)'
  BY DEF Coming, Waiting, Part
<1>1. ASSUME PutInsert PROVE VoteInv'
  <2>1. /\ queued' = Append(queued, Insert) /\ entry' = entry /\ row' = row /\ click' = click
        /\ shown' = shown /\ history' = history
    BY <1>1 DEF PutInsert
  <2>2. Insert \in Counts /\ Insert.up = 0 /\ Insert.down = 0
    BY DEF Insert, Counts
  <2>3. \A field \in Fields : Part(Insert, field) = 0
    BY <2>2 DEF Part
  <2>4. \A field \in Fields : Coming(field)' = Coming(field)
    <3> TAKE field \in Fields
    <3>1. Waiting(queued', field) = Waiting(queued, field)
      BY <1>0, <1>t, <2>1, <2>2, <2>3, WaitingGrows
    <3>2. Clicked(field)' = Clicked(field)
      BY <2>1 DEF Clicked, Part
    <3> QED
      BY <1>c, <1>d, <3>1, <3>2
  <2>5. VoteKinds'
    BY <1>0, <2>1, <2>2 DEF VoteKinds
  <2>6. CacheCounts' /\ Answered'
    BY <1>0, <2>1 DEF CacheCounts, Answered, Side
  <2>7. RowFollows'
    BY <1>0, <1>f, <2>1, <2>4 DEF RowFollows
  <2> QED
    BY <2>5, <2>6, <2>7 DEF VoteInv
<1>2. ASSUME NEW u \in Voters, NEW vote \in {1, -1}, Vote(u, vote) PROVE VoteInv'
  <2> DEFINE b == Before(u)
             d == Delta(b, vote)
             c == [pc |-> "put", up |-> d.up, down |-> d.down]
  <2>1. /\ click[u].pc = "idle" /\ b # vote
        /\ entry' = [up |-> AtLeastZero(entry.up + d.up), down |-> AtLeastZero(entry.down + d.down),
                     voters |-> [v \in DOMAIN entry.voters \cup {u} |->
                                   IF v = u THEN vote ELSE entry.voters[v]]]
        /\ click' = [click EXCEPT ![u] = c]
        /\ history' = IF \E v \in Voters : click[v].pc # "idle" THEN history \cup {"crossed"} ELSE history
        /\ row' = row /\ queued' = queued /\ shown' = shown
    BY <1>2 DEF Vote
  <2>2. b \in {1, -1, 0}
    BY <1>0 DEF Before, VoteKinds
  <2>3. /\ d.up = IF vote = 1 THEN 1 ELSE IF b = 1 THEN -1 ELSE 0
        /\ d.down = IF vote = -1 THEN 1 ELSE IF b = -1 THEN -1 ELSE 0
        /\ d.up \in Int /\ d.down \in Int
    BY DEF Delta
  <2>4. c \in Click /\ c.pc = "put" /\ c.up = d.up /\ c.down = d.down
    BY <2>3 DEF Click
  <2> HIDE DEF c, d
  <2>5. click' \in [Voters -> Click] /\ click'[u] = c /\ \A v \in Voters : v # u => click'[v] = click[v]
    BY <1>0, <2>1, <2>4
  <2>6. /\ entry'.up = AtLeastZero(entry.up + d.up) /\ entry'.down = AtLeastZero(entry.down + d.down)
        /\ entry'.voters = [v \in DOMAIN entry.voters \cup {u} |-> IF v = u THEN vote ELSE entry.voters[v]]
    BY <2>1
  <2>7. VoteKinds'
    <3>1. entry'.up \in Int /\ entry'.down \in Int
      BY <1>0, <2>3, <2>6 DEF AtLeastZero
    <3>2. DOMAIN entry'.voters \subseteq Voters
      BY <1>0, <2>6 DEF VoteKinds
    <3>3. \A v \in DOMAIN entry'.voters : entry'.voters[v] \in {1, -1}
      BY <1>0, <2>6 DEF VoteKinds
    <3> QED
      BY <1>0, <2>1, <2>5, <3>1, <3>2, <3>3 DEF VoteKinds
  <2>8. "forgot" \notin history' => "forgot" \notin history
    BY <2>1
  <2>9. ASSUME "forgot" \notin history
        PROVE  /\ entry'.up = entry.up + d.up /\ entry'.up = Side(1)'
               /\ entry'.down = entry.down + d.down /\ entry'.down = Side(-1)'
    <3>1. /\ Side(1) \in Nat /\ Side(1)' \in Nat
          /\ Side(1)' = Side(1) + (IF vote = 1 THEN 1 ELSE IF b = 1 THEN -1 ELSE 0)
      BY <1>0, <2>1, <2>6, SideMoves
    <3>2. /\ Side(-1) \in Nat /\ Side(-1)' \in Nat
          /\ Side(-1)' = Side(-1) + (IF vote = -1 THEN 1 ELSE IF b = -1 THEN -1 ELSE 0)
      BY <1>0, <2>1, <2>6, SideMoves
    <3>3. Side(1)' = entry.up + d.up /\ Side(-1)' = entry.down + d.down
      BY <1>0, <2>3, <2>9, <3>1, <3>2 DEF CacheCounts
    <3>4. \A n \in Nat : AtLeastZero(n) = n
      BY DEF AtLeastZero
    <3> QED
      BY <2>6, <3>1, <3>2, <3>3, <3>4
  <2>10. CacheCounts'
    BY <2>8, <2>9 DEF CacheCounts
  <2>11. RowFollows'
    <3>1. \A field \in Fields : Clicked(field)' = Clicked(field) + Part(c, field)
      <4> TAKE field \in Fields
      <4>1. Clicked(field)' = Clicked(field) + (Part(c, field) - 0)
        BY <1>0, <2>1, <2>4, <2>5, ClickedMoves
      <4> QED
        BY <1>t, <2>4, <4>1, PartsAreInts
    <3>2. Part(c, "up") = d.up /\ Part(c, "down") = d.down
      BY <2>4 DEF Part
    <3>3. Coming("up")' = Coming("up") + d.up /\ Coming("down")' = Coming("down") + d.down
      BY <1>c, <1>d, <1>f, <1>t, <2>1, <2>3, <3>1, <3>2
    <3>4. "lost" \notin history' => "lost" \notin history
      BY <2>1
    <3>5. ASSUME "forgot" \notin history, "lost" \notin history
          PROVE  row'.up + Coming("up")' = entry'.up /\ row'.down + Coming("down")' = entry'.down
      <4>1. row.up + Coming("up") = entry.up /\ row.down + Coming("down") = entry.down
        BY <1>0, <3>5 DEF RowFollows
      <4>2. Coming("up") \in Int /\ Coming("down") \in Int
        BY <1>f, <1>t
      <4>4. row'.up = row.up /\ row'.down = row.down
        BY <2>1
      <4>5. row.up + (Coming("up") + d.up) = entry.up + d.up
        BY <1>0, <2>3, <4>1, <4>2
      <4>6. row.down + (Coming("down") + d.down) = entry.down + d.down
        BY <1>0, <2>3, <4>1, <4>2
      <4>3. entry'.up = entry.up + d.up /\ entry'.down = entry.down + d.down
        BY <2>9, <3>5
      <4> QED
        BY <3>3, <4>3, <4>4, <4>5, <4>6
    <3> QED
      BY <2>8, <3>4, <3>5 DEF RowFollows
  <2>12. Answered'
    <3> SUFFICES ASSUME "forgot" \notin history', "crossed" \notin history' PROVE Answered'
      BY DEF Answered
    <3>1. \A v \in Voters : click[v].pc = "idle"
      BY <2>1
    <3>2. \A v \in Voters : v # u => click'[v].pc = "idle"
      BY <2>5, <3>1
    <3> QED
      BY <2>4, <2>5, <3>2 DEF Answered
  <2> QED
    BY <2>7, <2>10, <2>11, <2>12 DEF VoteInv
<1>3. ASSUME NEW u \in Voters, PutVote(u) PROVE VoteInv'
  <2> DEFINE w == [up |-> click[u].up, down |-> click[u].down]
             c == [pc |-> "return", up |-> 0, down |-> 0]
  <2>1. /\ click[u].pc = "put" /\ queued' = Append(queued, w) /\ click' = [click EXCEPT ![u] = c]
        /\ entry' = entry /\ row' = row /\ shown' = shown /\ history' = history
    BY <1>3 DEF PutVote
  <2>2. w \in Counts /\ w.up = click[u].up /\ w.down = click[u].down
    BY <1>s DEF Counts
  <2>3. c \in Click /\ c.pc = "return"
    BY DEF Click
  <2> HIDE DEF c, w
  <2>4. click' \in [Voters -> Click] /\ click'[u] = c /\ \A v \in Voters : v # u => click'[v] = click[v]
    BY <1>0, <2>1, <2>3
  <2>5. \A field \in Fields : Coming(field)' = Coming(field)
    <3> TAKE field \in Fields
    <3>1. Waiting(queued', field) = Waiting(queued, field) + Part(w, field)
      BY <1>0, <2>1, <2>2, WaitingGrows
    <3>2. Clicked(field)' = Clicked(field) + (0 - Part(click[u], field))
      BY <1>0, <2>1, <2>3, <2>4, ClickedMoves
    <3>3. Part(w, field) = Part(click[u], field) /\ Part(click[u], field) \in Int
      BY <1>s, <2>2 DEF Part
    <3> QED
      BY <1>c, <1>d, <1>t, <3>1, <3>2, <3>3
  <2>6. queued' \in Seq(Counts)
    BY <1>0, <2>1, <2>2
  <2>7. VoteKinds'
    BY <1>0, <2>1, <2>4, <2>6 DEF VoteKinds
  <2>8. CacheCounts'
    BY <1>0, <2>1 DEF CacheCounts, Side
  <2>9. RowFollows'
    BY <1>0, <1>f, <2>1, <2>5 DEF RowFollows
  <2>10. Answered'
    BY <1>0, <2>1, <2>3, <2>4 DEF Answered
  <2> QED
    BY <2>7, <2>8, <2>9, <2>10 DEF VoteInv
<1>4. ASSUME NEW u \in Voters, NEW c \in Click, click' = [click EXCEPT ![u] = c],
             click[u].pc # "put", c.pc # "put", entry' = entry, row' = row, queued' = queued,
             history' = history, Answered'
      PROVE  VoteInv'
  <2>1. click' \in [Voters -> Click] /\ click'[u] = c /\ \A v \in Voters : v # u => click'[v] = click[v]
    BY <1>0, <1>4
  <2>2. \A field \in Fields : Coming(field)' = Coming(field)
    <3> TAKE field \in Fields
    <3>1. Clicked(field)' = Clicked(field) + (0 - 0)
      BY <1>0, <1>4, <2>1, ClickedMoves
    <3> QED
      BY <1>c, <1>d, <1>t, <1>4, <3>1
  <2>3. VoteKinds' /\ CacheCounts'
    BY <1>0, <1>4, <2>1 DEF VoteKinds, CacheCounts, Side
  <2>4. RowFollows'
    BY <1>0, <1>4, <1>f, <2>2 DEF RowFollows
  <2> QED
    BY <1>4, <2>3, <2>4 DEF VoteInv
<1>5. ASSUME NEW u \in Voters, Return(u) PROVE VoteInv'
  <2> DEFINE c == [pc |-> "show", up |-> entry.up, down |-> entry.down]
  <2>1. /\ click[u].pc = "return" /\ click' = [click EXCEPT ![u] = c]
        /\ entry' = entry /\ row' = row /\ queued' = queued /\ shown' = shown /\ history' = history
    BY <1>5 DEF Return
  <2>2. c \in Click /\ c.pc = "show" /\ c.up = entry.up /\ c.down = entry.down
    BY <1>0 DEF Click
  <2> HIDE DEF c
  <2>3. click'[u] = c /\ \A v \in Voters : v # u => click'[v] = click[v]
    BY <1>0, <2>1
  <2>4. Answered'
    BY <1>0, <2>1, <2>2, <2>3 DEF Answered
  <2> QED
    BY <1>4, <2>1, <2>2, <2>4
<1>6. ASSUME NEW u \in Voters, Show(u) PROVE VoteInv'
  <2>1. /\ click[u].pc = "show" /\ click' = [click EXCEPT ![u] = NoClick]
        /\ shown' = [up |-> click[u].up, down |-> click[u].down]
        /\ entry' = entry /\ row' = row /\ queued' = queued /\ history' = history
    BY <1>6 DEF Show
  <2>2. NoClick \in Click /\ NoClick.pc = "idle"
    BY DEF Click, NoClick
  <2>3. click'[u] = NoClick /\ \A v \in Voters : v # u => click'[v] = click[v]
    BY <1>0, <2>1
  <2>4. Answered'
    BY <1>0, <2>1, <2>2, <2>3 DEF Answered
  <2> QED
    BY <1>4, <2>1, <2>2, <2>4
<1>7. ASSUME RunWrite PROVE VoteInv'
  <2> DEFINE w == Head(queued)
  <2>1. /\ queued # <<>> /\ queued' = Tail(queued)
        /\ entry' = entry /\ click' = click /\ shown' = shown
        /\ \/ w = Insert /\ row' = [row EXCEPT !.saved = TRUE] /\ history' = history
           \/ row' = [row EXCEPT !.up = @ + w.up, !.down = @ + w.down] /\ history' = history
           \/ history' = history \cup {"lost"} /\ row' = row
    BY <1>7 DEF RunWrite
  <2>2. queued' \in Seq(Counts) /\ w \in Counts /\ w.up \in Int /\ w.down \in Int
    <3>1. queued' \in Seq(Counts) /\ w \in Counts
      BY <1>0, <2>1
    <3> QED
      BY <3>1 DEF Counts
  <2> HIDE DEF w
  <2>3. row' \in VoteRow
    <3>1. [row EXCEPT !.saved = TRUE] \in VoteRow
      BY <1>0 DEF VoteRow
    <3>2. [row EXCEPT !.up = @ + w.up, !.down = @ + w.down] \in VoteRow
      <4>1. \A m, n \in Int : [row EXCEPT !.up = m, !.down = n] \in VoteRow
        BY <1>0 DEF VoteRow
      <4>2. row.up + w.up \in Int /\ row.down + w.down \in Int
        <5>1. row.up \in Int /\ row.down \in Int
          BY <1>0 DEF VoteRow
        <5> QED
          BY <2>2, <5>1
      <4> QED
        BY <4>1, <4>2
    <3> QED
      BY <1>0, <2>1, <3>1, <3>2
  <2>4. VoteKinds' /\ CacheCounts' /\ Answered'
    BY <1>0, <2>1, <2>2, <2>3 DEF VoteKinds, CacheCounts, Answered, Side
  <2>5. \A field \in Fields : /\ Coming(field) = Coming(field)' + Part(w, field)
                              /\ Coming(field)' \in Int
    <3> TAKE field \in Fields
    <3>1. Waiting(queued, field) = Waiting(queued', field) + Part(w, field)
      BY <1>0, <2>1, WaitingShrinks DEF w
    <3>2. Clicked(field)' = Clicked(field)
      BY <2>1 DEF Clicked, Part
    <3>3. Waiting(queued', field) \in Int /\ Part(w, field) \in Int
      BY <2>2, WaitingType, PartsAreInts
    <3> QED
      BY <1>c, <1>d, <1>t, <3>1, <3>2, <3>3
  <2>6. Coming("up")' \in Int /\ Coming("down")' \in Int
    BY <1>f, <2>5
  <2>7. Part(w, "up") = w.up /\ Part(w, "down") = w.down
    BY DEF Part
  <2>8. Coming("up") = Coming("up")' + w.up /\ Coming("down") = Coming("down")' + w.down
    BY <1>f, <2>5, <2>7
  <2>9. ASSUME "forgot" \notin history', "lost" \notin history'
        PROVE  row'.up + Coming("up")' = entry'.up /\ row'.down + Coming("down")' = entry'.down
    <3>0. row.up + Coming("up") = entry.up /\ row.down + Coming("down") = entry.down
      BY <1>0, <2>1, <2>9 DEF RowFollows
    <3>1. row'.up = row.up + w.up /\ row'.down = row.down + w.down
      <4>1. CASE w = Insert /\ row' = [row EXCEPT !.saved = TRUE]
        <5>1. row'.up = row.up /\ row'.down = row.down /\ w.up = 0 /\ w.down = 0
          BY <1>0, <4>1 DEF VoteRow, Insert
        <5> QED
          BY <1>0, <5>1
      <4>2. CASE row' = [row EXCEPT !.up = @ + w.up, !.down = @ + w.down]
        BY <1>0, <4>2 DEF VoteRow
      <4> QED
        BY <2>1, <2>9, <4>1, <4>2
    <3>2. entry'.up = entry.up /\ entry'.down = entry.down
      BY <2>1
    <3>3. /\ row.up \in Int /\ w.up \in Int /\ Coming("up")' \in Int
          /\ row.up + (Coming("up")' + w.up) = entry.up
      BY <1>0, <2>2, <2>6, <2>8, <3>0
    <3>4. (row.up + w.up) + Coming("up")' = entry.up
      BY <3>3
    <3>5. /\ row.down \in Int /\ w.down \in Int /\ Coming("down")' \in Int
          /\ row.down + (Coming("down")' + w.down) = entry.down
      BY <1>0, <2>2, <2>6, <2>8, <3>0
    <3>6. (row.down + w.down) + Coming("down")' = entry.down
      BY <3>5
    <3> QED
      BY <3>1, <3>2, <3>4, <3>6
  <2>11. RowFollows'
    BY <2>9 DEF RowFollows
  <2> QED
    BY <2>4, <2>11 DEF VoteInv
<1>8. ASSUME Reload PROVE VoteInv'
  <2>1. /\ entry' = [up |-> row.up, down |-> row.down, voters |-> <<>>]
        /\ "forgot" \in history' /\ row' = row /\ queued' = queued /\ click' = click
    BY <1>8 DEF Reload
  <2>2. VoteKinds'
    BY <1>0, <2>1 DEF VoteKinds
  <2> QED
    BY <2>1, <2>2 DEF VoteInv, CacheCounts, RowFollows, Answered
<1>9. CASE UNCHANGED voteVars
  <2>1. \A field \in Fields : Coming(field)' = Coming(field)
    BY <1>9 DEF voteVars, Coming, Waiting, Clicked, Part
  <2>2. VoteKinds' /\ CacheCounts' /\ Answered'
    BY <1>0, <1>9 DEF voteVars, VoteKinds, CacheCounts, Answered, Side
  <2>3. RowFollows'
    BY <1>0, <1>9, <1>f, <2>1 DEF voteVars, RowFollows
  <2> QED
    BY <2>2, <2>3 DEF VoteInv
<1> QED
  BY <1>1, <1>2, <1>3, <1>5, <1>6, <1>7, <1>8, <1>9 DEF VoteNext

(* For any voters and votes, with whatever is on the queue: the cache counts *)
(* everybody once until it forgets, the row has it all but what is still to  *)
(* come unless a write was lost, and clicks that did not overlap leave the   *)
(* counts in the post.                                                       *)
THEOREM VotesAreKept == VoteSpec => []VotesMatch
<1>1. VoteInv => VotesMatch
  BY DEF VoteInv, CacheCounts, RowFollows, Answered, VotesMatch
<1> QED
  BY <1>1, VoteInitHolds, VoteStep, PTL DEF VoteSpec

------------------------------------------------------------------------------
(* Messages of a ticket                                                      *)

USE TextsAssumption

Amendment == [letter : Letters, text : Texts]
Writing == [op : {"save", "edit"}, letter : Letters, text : Texts]

RelayKinds ==
  /\ RelayTypeOK
  /\ outbox \in Seq(Writing)
  /\ editor \in [Editors -> Amendment \cup {NoEdit}]

Amended(l) == \E e \in Editors : editor[e] # NoEdit /\ editor[e].letter = l

(* In the queue q: a save of l; a save of l before every edit; and nothing   *)
(* that leaves another text than x in its row, which has r.                  *)
Saving(q, l) == \E i \in 1 .. Len(q) : q[i].letter = l /\ q[i].op = "save"
SavedFirst(q, l) ==
  \A i \in 1 .. Len(q) : q[i].letter = l /\ q[i].op = "edit" =>
    \E j \in 1 .. Len(q) : j < i /\ q[j].letter = l /\ q[j].op = "save"
LeavesText(q, l, r, x) ==
  /\ (\A i \in 1 .. Len(q) : q[i].letter # l) => r = x
  /\ \A i \in 1 .. Len(q) : q[i].letter = l /\ q[i].text # x =>
       \E j \in 1 .. Len(q) : i < j /\ q[j].letter = l /\ q[j].text = x

(* What is so of a message l of sort k whose handler is at s, with d on the  *)
(* other side, r in its row, q queued and e whether an edit is on its way.   *)
(* The last three are so as long as nothing of it was lost.                  *)
Apart(l, s, d, r, q, e) ==
  /\ s # "sent" => r = None /\ ~e /\ \A i \in 1 .. Len(q) : q[i].letter # l
  /\ s = "no" => d \notin Texts
  /\ s = "posted" => d \in {1, Gone}
Rowless(l, k, r, q) ==
  /\ k = "detected" => r = None /\ ~Saving(q, l)
  /\ k \in {"client", "paraphrase"} => r \in {None, 1}
Recorded(l, k, s, r, q) == s = "sent" /\ k # "detected" => r # None \/ Saving(q, l)
InOrder(l, k, r, q) == k = "question" => r # None \/ SavedFirst(q, l)
UpToDate(l, k, s, d, r, q, e) ==
  s = "sent" /\ k = "question" /\ d \in Texts => LeavesText(q, l, r, d) \/ e

Fits(l, k, s, d, r, q, e) ==
  Recorded(l, k, s, r, q) /\ InOrder(l, k, r, q) /\ UpToDate(l, k, s, d, r, q, e)

LetterHolds(l) ==
  /\ Apart(l, sending[l], duplicate[l], rows[l], outbox, Amended(l))
  /\ Rowless(l, sort[l], rows[l], outbox)
  /\ l \notin spoiled =>
       Fits(l, sort[l], sending[l], duplicate[l], rows[l], outbox, Amended(l))

SavesAreFirst == \A i \in 1 .. Len(outbox) : outbox[i].op = "save" => outbox[i].text = 1

(* The asker's last text is the copy, or comes.                              *)
HeaderHolds ==
  /\ header.coming \subseteq 1 .. header.said /\ header.copied <= header.said
  /\ HeaderName \notin spoiled => header.copied = header.said \/ header.said \in header.coming

RelayInv == RelayKinds /\ SavesAreFirst /\ HeaderHolds /\ \A l \in Letters : LetterHolds(l)

LEMMA RelayNames == NoEdit \notin Amendment /\ Gone \notin Texts /\ None \notin Texts /\ 1 \in Texts /\ Gone \in Nat
BY DEF NoEdit, Amendment, Gone, None, Texts

(* One more write on the queue.                                              *)
LEMMA Queued ==
  ASSUME NEW q \in Seq(Writing), NEW w \in Writing, NEW l, NEW p, p = Append(q, w)
  PROVE  /\ p \in Seq(Writing)
         /\ \A i \in 1 .. Len(p) : p[i] = w \/ \E j \in 1 .. Len(q) : p[i] = q[j]
         /\ Saving(p, l) <=> Saving(q, l) \/ (w.letter = l /\ w.op = "save")
         /\ SavedFirst(q, l) /\ (w.letter = l /\ w.op = "edit" => Saving(q, l)) => SavedFirst(p, l)
         /\ w.letter = l => \A r : LeavesText(p, l, r, w.text)
         /\ w.letter # l => \A r, x : LeavesText(q, l, r, x) => LeavesText(p, l, r, x)
<1>1. /\ p \in Seq(Writing) /\ Len(q) \in Nat /\ Len(p) = Len(q) + 1
      /\ p[Len(q) + 1] = w /\ \A i \in 1 .. Len(q) : p[i] = q[i]
  OBVIOUS
<1>2. PICK n \in Nat : n = Len(q)
  BY <1>1
<1>3. /\ Len(p) = n + 1 /\ p[n + 1] = w /\ \A i \in 1 .. n : p[i] = q[i]
      /\ \A i \in 1 .. n + 1 : i \in 1 .. n \/ i = n + 1
      /\ \A i \in 1 .. n : i \in 1 .. n + 1 /\ i < n + 1
      /\ n + 1 \in 1 .. n + 1
  BY <1>1, <1>2
<1>4. Saving(p, l) <=> Saving(q, l) \/ (w.letter = l /\ w.op = "save")
  <2>1. \A i \in 1 .. Len(p) : p[i] = w \/ \E j \in 1 .. Len(q) : p[i] = q[j]
    BY <1>2, <1>3
  <2>2. \A j \in 1 .. Len(q) : \E i \in 1 .. Len(p) : p[i] = q[j]
    BY <1>2, <1>3
  <2>3. \E i \in 1 .. Len(p) : p[i] = w
    BY <1>2, <1>3
  <2> QED
    BY <2>1, <2>2, <2>3 DEF Saving
<1>5. ASSUME SavedFirst(q, l), w.letter = l /\ w.op = "edit" => Saving(q, l)
      PROVE  SavedFirst(p, l)
  BY <1>2, <1>3, <1>5 DEF SavedFirst, Saving
<1>6. ASSUME w.letter = l, NEW r PROVE LeavesText(p, l, r, w.text)
  BY <1>2, <1>3, <1>6 DEF LeavesText
<1>7. ASSUME w.letter # l, NEW r, NEW x, LeavesText(q, l, r, x) PROVE LeavesText(p, l, r, x)
  BY <1>2, <1>3, <1>7 DEF LeavesText
<1>8. \A i \in 1 .. Len(p) : p[i] = w \/ \E j \in 1 .. Len(q) : p[i] = q[j]
  BY <1>2, <1>3
<1> QED
  BY <1>1, <1>4, <1>5, <1>6, <1>7, <1>8

(* The first write of the queue done, or lost.                               *)
LEMMA Unqueued ==
  ASSUME NEW q \in Seq(Writing), q # <<>>, NEW w, w = Head(q), NEW l, NEW p, p = Tail(q)
  PROVE  /\ p \in Seq(Writing) /\ w \in Writing /\ w = q[1] /\ 1 \in 1 .. Len(q)
         /\ \A i \in 1 .. Len(p) : \E j \in 1 .. Len(q) : p[i] = q[j]
         /\ Saving(p, l) => Saving(q, l)
         /\ Saving(q, l) => Saving(p, l) \/ (w.letter = l /\ w.op = "save")
         /\ w.letter # l /\ SavedFirst(q, l) => SavedFirst(p, l)
         /\ w.letter = l /\ SavedFirst(q, l) => w.op = "save"
         /\ w.letter # l => \A r, x : LeavesText(q, l, r, x) => LeavesText(p, l, r, x)
         /\ w.letter = l => \A r, x : LeavesText(q, l, r, x) => LeavesText(p, l, w.text, x)
<1>1. /\ p \in Seq(Writing) /\ Len(q) \in Nat /\ Len(q) > 0 /\ Len(p) = Len(q) - 1
      /\ w = q[1] /\ w \in Writing /\ \A i \in 1 .. Len(q) - 1 : p[i] = q[i + 1]
  OBVIOUS
<1>2. PICK n \in Nat : Len(q) = n + 1
  <2>1. Len(q) - 1 \in Nat /\ Len(q) = (Len(q) - 1) + 1
    BY <1>1
  <2> QED
    BY <1>1, <2>1
<1>3. /\ Len(p) = n /\ 1 \in 1 .. n + 1
      /\ \A i \in 1 .. n : p[i] = q[i + 1] /\ i + 1 \in 1 .. n + 1
      /\ \A j \in 1 .. n + 1 : j = 1 \/ (j - 1 \in 1 .. n /\ p[j - 1] = q[j])
  <2>1. Len(p) = n /\ 1 \in 1 .. n + 1 /\ \A i \in 1 .. n : p[i] = q[i + 1] /\ i + 1 \in 1 .. n + 1
    BY <1>1, <1>2
  <2>2. ASSUME NEW j \in 1 .. n + 1, j # 1 PROVE j - 1 \in 1 .. n /\ p[j - 1] = q[j]
    <3>1. j - 1 \in 1 .. n /\ (j - 1) + 1 = j
      BY <1>2, <2>2
    <3>2. p[j - 1] = q[(j - 1) + 1]
      BY <2>1, <3>1
    <3> QED
      BY <3>1, <3>2
  <2> QED
    BY <2>1, <2>2
<1>4. \A i \in 1 .. n : \E j \in 1 .. n + 1 : j = i + 1 /\ p[i] = q[j]
  BY <1>3
<1>5. \A j \in 1 .. n + 1 : j = 1 \/ \E i \in 1 .. n : j = i + 1 /\ p[i] = q[j]
  BY <1>3
<1>6. Saving(p, l) => Saving(q, l)
  BY <1>2, <1>3, <1>4 DEF Saving
<1>7. Saving(q, l) => Saving(p, l) \/ (w.letter = l /\ w.op = "save")
  <2>1. \A j \in 1 .. Len(q) : q[j] = w \/ \E i \in 1 .. Len(p) : p[i] = q[j]
    BY <1>1, <1>2, <1>3, <1>5
  <2> QED
    BY <2>1 DEF Saving
<1>8. ASSUME w.letter # l, SavedFirst(q, l) PROVE SavedFirst(p, l)
  <2> SUFFICES ASSUME NEW i \in 1 .. n, p[i].letter = l, p[i].op = "edit"
               PROVE  \E j \in 1 .. n : j < i /\ p[j].letter = l /\ p[j].op = "save"
    BY <1>3 DEF SavedFirst
  <2>1. PICK k \in 1 .. n + 1 : k < i + 1 /\ q[k].letter = l /\ q[k].op = "save"
    BY <1>2, <1>3, <1>8 DEF SavedFirst
  <2>2. k # 1
    BY <1>1, <1>8, <2>1
  <2>3. k - 1 \in 1 .. n /\ p[k - 1] = q[k]
    BY <1>3, <2>1, <2>2
  <2>4. k - 1 < i
    BY <2>1
  <2> QED
    BY <2>1, <2>3, <2>4
<1>9. ASSUME w.letter = l, SavedFirst(q, l) PROVE w.op = "save"
  <2>1. ~\E j \in 1 .. n + 1 : j < 1
    OBVIOUS
  <2>2. w.op # "edit"
    BY <1>1, <1>2, <1>3, <1>9, <2>1 DEF SavedFirst
  <2> QED
    BY <1>1, <2>2 DEF Writing
<1>10. ASSUME NEW r, NEW x, LeavesText(q, l, r, x), NEW i \in 1 .. n, p[i].letter = l, p[i].text # x
       PROVE  \E j \in 1 .. n : i < j /\ p[j].letter = l /\ p[j].text = x
  <2>1. PICK k \in 1 .. n + 1 : i + 1 < k /\ q[k].letter = l /\ q[k].text = x
    BY <1>2, <1>3, <1>10 DEF LeavesText
  <2>2. k - 1 \in 1 .. n /\ i < k - 1 /\ p[k - 1] = q[k]
    BY <1>3, <2>1
  <2> QED
    BY <2>1, <2>2
<1>11. ASSUME w.letter # l, NEW r, NEW x, LeavesText(q, l, r, x) PROVE LeavesText(p, l, r, x)
  <2>1. (\A i \in 1 .. n : p[i].letter # l) => \A j \in 1 .. n + 1 : q[j].letter # l
    BY <1>1, <1>5, <1>11
  <2>2. \A i \in 1 .. n : p[i].letter = l /\ p[i].text # x =>
          \E j \in 1 .. n : i < j /\ p[j].letter = l /\ p[j].text = x
    BY <1>10, <1>11
  <2>3. (\A j \in 1 .. n + 1 : q[j].letter # l) => r = x
    BY <1>2, <1>11 DEF LeavesText
  <2> QED
    BY <1>3, <2>1, <2>2, <2>3 DEF LeavesText
<1>12. ASSUME w.letter = l, NEW r, NEW x, LeavesText(q, l, r, x) PROVE LeavesText(p, l, w.text, x)
  <2>1. ASSUME \A i \in 1 .. n : p[i].letter # l PROVE w.text = x
    <3>1. \A j \in 1 .. n + 1 : j # 1 => q[j].letter # l
      BY <1>5, <2>1
    <3> QED
      <4>1. q[1].letter = l /\ 1 \in 1 .. Len(q)
        BY <1>1, <1>2, <1>3, <1>12
      <4>2. ~\E j \in 1 .. Len(q) : 1 < j /\ q[j].letter = l /\ q[j].text = x
        BY <1>2, <3>1
      <4>3. q[1].text = x
        BY <1>12, <4>1, <4>2 DEF LeavesText
      <4> QED
        BY <1>1, <4>3
  <2>2. \A i \in 1 .. n : p[i].letter = l /\ p[i].text # x =>
          \E j \in 1 .. n : i < j /\ p[j].letter = l /\ p[j].text = x
    BY <1>10, <1>12
  <2> QED
    BY <1>3, <2>1, <2>2 DEF LeavesText
<1>13. \A i \in 1 .. Len(p) : \E j \in 1 .. Len(q) : p[i] = q[j]
  BY <1>2, <1>3, <1>4
<1> QED
  BY <1>1, <1>2, <1>3, <1>6, <1>7, <1>8, <1>9, <1>11, <1>12, <1>13

(* What a restart replays: the saves of the queue, all of them.              *)
LEMMA ReplayedIs ==
  ASSUME outbox \in Seq(Writing), NEW p, p = Replayed
  PROVE  /\ p \in Seq(Writing)
         /\ \A i \in 1 .. Len(p) : p[i].op = "save" /\ \E j \in 1 .. Len(outbox) : p[i] = outbox[j]
         /\ \A j \in 1 .. Len(outbox) : outbox[j].op = "save" => \E i \in 1 .. Len(p) : p[i] = outbox[j]
<1> DEFINE S == Saves
           m == Cardinality(S)
           Upto(i) == {j \in S : j <= i}
           rank == [i \in S |-> Cardinality(Upto(i))]
<1>1. /\ S \subseteq 1 .. Len(outbox) /\ Len(outbox) \in Nat /\ S \subseteq Nat
      /\ \A j \in 1 .. Len(outbox) : outbox[j] \in Writing /\ (j \in S <=> outbox[j].op = "save")
  BY DEF Saves
<1>2. IsFiniteSet(S) /\ m \in Nat
  <2>1. IsFiniteSet(1 .. Len(outbox))
    BY <1>1, FS_Interval
  <2>2. IsFiniteSet(S)
    BY <1>1, <2>1, FS_Subset
  <2> QED
    BY <2>2, FS_CardinalityType
<1> HIDE DEF S
<1>3. \A i \in S : IsFiniteSet(Upto(i)) /\ Cardinality(Upto(i)) \in 1 .. m
  <2> TAKE i \in S
  <2>1. Upto(i) \subseteq S /\ i \in Upto(i)
    BY <1>1
  <2>2. IsFiniteSet(Upto(i)) /\ Cardinality(Upto(i)) <= m /\ Cardinality(Upto(i)) \in Nat
    BY <1>2, <2>1, FS_Subset, FS_CardinalityType
  <2>3. Cardinality(Upto(i)) # 0
    BY <2>1, <2>2, FS_EmptySet
  <2> QED
    BY <1>2, <2>2, <2>3
<1>4. ASSUME NEW i \in S, NEW k \in S, i < k PROVE Cardinality(Upto(i)) # Cardinality(Upto(k))
  <2> DEFINE A == Upto(i)
             B == Upto(k)
  <2>0. i \in Nat /\ k \in Nat /\ \A j \in S : j \in Nat
    BY <1>1
  <2>1. A \subseteq B /\ k \in B /\ k \notin A
    <3>1. \A j \in S : j <= i => j <= k
      BY <1>4, <2>0
    <3>2. k <= k /\ ~(k <= i)
      BY <1>4, <2>0
    <3> QED
      BY <3>1, <3>2
  <2>2. IsFiniteSet(B)
    BY <1>3
  <2> HIDE DEF A, B
  <2>3. Cardinality(B) # Cardinality(A)
    BY <2>1, <2>2, FS_Subset
  <2> QED
    BY <2>3 DEF A, B
<1>5. \A i, k \in S : rank[i] = rank[k] => i = k
  <2> SUFFICES ASSUME NEW i \in S, NEW k \in S, i # k PROVE rank[i] # rank[k]
    OBVIOUS
  <2>1. i < k \/ k < i
    BY <1>1
  <2> QED
    BY <1>4, <2>1
<1>6. \A k \in 1 .. m : \E i \in S : rank[i] = k
  <2> DEFINE T == 1 .. m
  <2>1. IsFiniteSet(T) /\ Cardinality(T) = Cardinality(S)
    BY <1>2, FS_Interval
  <2>2. \A i \in S : rank[i] \in T
    BY <1>3
  <2> HIDE DEF T
  <2>3. rank \in [S -> T]
    BY <2>2
  <2>4. rank \in Injection(S, T)
    BY <1>5, <2>3 DEF Injection, IsInjective
  <2>5. rank \in Surjection(S, T)
    BY <2>1, <2>4, FS_Injection
  <2>6. \A k \in T : \E i \in S : rank[i] = k
    BY <2>5 DEF Surjection
  <2> QED
    BY <2>6 DEF T
<1>7. \A k \in 1 .. m : SaveAt(k) \in S /\ rank[SaveAt(k)] = k
  <2> TAKE k \in 1 .. m
  <2>1. \E i \in S : Cardinality({j \in S : j <= i}) = k
    BY <1>6
  <2>2. SaveAt(k) \in S /\ Cardinality({j \in S : j <= SaveAt(k)}) = k
    BY <2>1 DEF SaveAt, S
  <2> QED
    BY <2>2
<1>8. p = [k \in 1 .. m |-> outbox[SaveAt(k)]]
  BY DEF Replayed, S
<1> HIDE DEF m, rank
<1>9. \A k \in 1 .. m : outbox[SaveAt(k)] \in Writing /\ SaveAt(k) \in 1 .. Len(outbox)
  BY <1>1, <1>7
<1>10. p \in [1 .. m -> Writing]
  BY <1>8, <1>9
<1>11. p \in Seq(Writing) /\ Len(p) = m
  BY <1>2, <1>10
<1>12. ASSUME NEW k \in 1 .. m
       PROVE  p[k].op = "save" /\ \E j \in 1 .. Len(outbox) : p[k] = outbox[j]
  <2>1. p[k] = outbox[SaveAt(k)] /\ SaveAt(k) \in S /\ SaveAt(k) \in 1 .. Len(outbox)
    BY <1>7, <1>8, <1>9, <1>12
  <2> QED
    BY <1>1, <2>1
<1>13. ASSUME NEW j \in 1 .. Len(outbox), outbox[j].op = "save"
       PROVE  \E i \in 1 .. m : p[i] = outbox[j]
  <2>1. j \in S
    BY <1>1, <1>13
  <2>2. rank[j] \in 1 .. m
    BY <1>3, <2>1 DEF rank
  <2>3. SaveAt(rank[j]) = j
    BY <1>5, <1>7, <2>1, <2>2
  <2>4. p[rank[j]] = outbox[j]
    BY <1>8, <2>2, <2>3
  <2> QED
    BY <2>2, <2>4
<1> QED
  BY <1>11, <1>12, <1>13

(* A message no part of which a step touches, but what was excused.          *)
LEMMA LetterStays ==
  ASSUME NEW l \in Letters, LetterHolds(l), sort'[l] = sort[l], sending'[l] = sending[l],
         duplicate'[l] = duplicate[l], rows'[l] = rows[l], outbox' = outbox,
         Amended(l)' <=> Amended(l), spoiled \subseteq spoiled'
  PROVE  LetterHolds(l)'
BY DEF LetterHolds, Apart, Rowless, Fits, Recorded, InOrder, UpToDate

LEMMA RelayStart == RelayInit => RelayInv
<1> SUFFICES ASSUME RelayInit PROVE RelayInv
  OBVIOUS
<1>1. RelayKinds
  <2>1. header \in [said : Texts, copied : Texts, coming : SUBSET Texts]
    BY DEF RelayInit, Head0, Texts
  <2>2. duplicate \in [Letters -> 0 .. Gone] /\ rows \in [Letters -> 0 .. MaxTexts]
    BY DEF RelayInit, None, Gone
  <2>3. outbox \in Seq(Writing) /\ DOMAIN outbox = {}
    BY DEF RelayInit
  <2>4. \A e \in Editors : editor[e] = NoEdit /\ editor[e].text \in 0 .. MaxTexts
    BY DEF RelayInit, NoEdit, None
  <2> QED
    BY <2>1, <2>2, <2>3, <2>4 DEF RelayInit, RelayKinds, RelayTypeOK
<1>2. SavesAreFirst /\ HeaderHolds
  BY DEF RelayInit, SavesAreFirst, HeaderHolds, Head0
<1>3. ASSUME NEW l \in Letters PROVE LetterHolds(l)
  <2>1. ~Amended(l) /\ sending[l] = "no" /\ duplicate[l] = None /\ rows[l] = None
    BY DEF RelayInit, Amended
  <2>2. \A i \in 1 .. Len(outbox) : FALSE
    BY DEF RelayInit
  <2>3. ~Saving(outbox, l) /\ SavedFirst(outbox, l)
    BY <2>2 DEF Saving, SavedFirst
  <2> QED
    BY RelayNames, <2>1, <2>2, <2>3 DEF LetterHolds, Apart, Rowless, Fits, Recorded, InOrder, UpToDate
<1> QED
  BY <1>1, <1>2, <1>3 DEF RelayInv

(* The copy on the other side is posted.                                     *)
LEMMA Posts == ASSUME RelayInv, NEW k \in Letters, PostCopy(k) PROVE RelayInv'
<1>1. RelayKinds'
  BY DEF RelayInv, RelayKinds, RelayTypeOK, PostCopy, Gone
<1>2. SavesAreFirst' /\ HeaderHolds'
  BY DEF RelayInv, SavesAreFirst, HeaderHolds, PostCopy
<1>3. ASSUME NEW l \in Letters, l # k PROVE LetterHolds(l)'
  BY <1>3, LetterStays DEF RelayInv, RelayKinds, RelayTypeOK, PostCopy, Amended
<1>4. LetterHolds(k)'
  BY DEF RelayInv, RelayKinds, RelayTypeOK, PostCopy, Amended, LetterHolds, Apart, Rowless, Fits,
     Recorded, InOrder, UpToDate
<1> QED
  BY <1>1, <1>2, <1>3, <1>4 DEF RelayInv

(* The copy goes.                                                            *)
LEMMA Deletes ==
  ASSUME RelayInv, NEW k \in Letters, duplicate' = [duplicate EXCEPT ![k] = Gone],
         purging' \subseteq purging,
         UNCHANGED <<sort, sending, rows, editor, outbox, header, spoiled>>
  PROVE  RelayInv'
<1>1. RelayKinds'
  BY RelayNames DEF RelayInv, RelayKinds, RelayTypeOK
<1>2. SavesAreFirst' /\ HeaderHolds'
  BY DEF RelayInv, SavesAreFirst, HeaderHolds
<1>3. ASSUME NEW l \in Letters, l # k PROVE LetterHolds(l)'
  BY <1>3, LetterStays DEF RelayInv, RelayKinds, RelayTypeOK, Amended
<1>4. LetterHolds(k)'
  BY RelayNames DEF RelayInv, RelayKinds, RelayTypeOK, Amended, LetterHolds, Apart, Rowless, Fits,
     Recorded, InOrder, UpToDate
<1> QED
  BY <1>1, <1>2, <1>3, <1>4 DEF RelayInv

(* Staff edit the copy.                                                      *)
LEMMA Edits ==
  ASSUME RelayInv, NEW k \in Letters, NEW e \in Editors, NEW text \in Texts, EditCopy(e, k, text)
  PROVE  RelayInv'
<1> DEFINE a == [letter |-> k, text |-> text]
<1>0. a \in Amendment /\ a # NoEdit /\ a.letter = k /\ a.text = text
  BY RelayNames DEF Amendment
<1> HIDE DEF a
<1>1. editor' = [editor EXCEPT ![e] = a] /\ editor[e] = NoEdit
  BY DEF EditCopy, a
<1>2. RelayKinds'
  <2>1. editor' \in [Editors -> Amendment \cup {NoEdit}]
    BY <1>0, <1>1 DEF RelayInv, RelayKinds
  <2>2. \A d \in Editors : editor'[d].text \in 0 .. MaxTexts
    BY <1>0, <1>1 DEF RelayInv, RelayKinds, RelayTypeOK, Texts
  <2>3. duplicate' \in [Letters -> 0 .. Gone]
    BY DEF RelayInv, RelayKinds, RelayTypeOK, EditCopy, Texts, Gone
  <2> QED
    BY <2>1, <2>2, <2>3 DEF RelayInv, RelayKinds, RelayTypeOK, EditCopy
<1>3. SavesAreFirst' /\ HeaderHolds'
  BY DEF RelayInv, SavesAreFirst, HeaderHolds, EditCopy
<1>4. ASSUME NEW l \in Letters, l # k PROVE LetterHolds(l)'
  <2>1. Amended(l)' <=> Amended(l)
    BY <1>0, <1>1, <1>4 DEF Amended, RelayInv, RelayKinds
  <2> QED
    BY <1>4, <2>1, LetterStays DEF RelayInv, RelayKinds, RelayTypeOK, EditCopy
<1>5. LetterHolds(k)'
  <2>1. Amended(k)'
    BY <1>0, <1>1 DEF Amended, RelayInv, RelayKinds
  <2> QED
    BY <2>1 DEF RelayInv, RelayKinds, RelayTypeOK, EditCopy, LetterHolds, Apart, Rowless, Fits,
       Recorded, InOrder, UpToDate
<1> QED
  BY <1>2, <1>3, <1>4, <1>5 DEF RelayInv

(* Nothing of a message changes.                                             *)
LEMMA MessagesStay ==
  ASSUME RelayInv, UNCHANGED <<sort, sending, duplicate, rows, editor, outbox>>,
         spoiled \subseteq spoiled'
  PROVE  SavesAreFirst' /\ \A l \in Letters : LetterHolds(l)'
<1>1. SavesAreFirst'
  BY DEF RelayInv, SavesAreFirst
<1>2. ASSUME NEW l \in Letters PROVE LetterHolds(l)'
  BY <1>2, LetterStays DEF RelayInv, Amended
<1> QED
  BY <1>1, <1>2

LEMMA Others ==
  ASSUME RelayInv, PurgeList \/ EditHeader \/ \E text \in Texts : CopyHeader(text)
  PROVE  RelayInv'
<1>1. CASE PurgeList
  BY <1>1, MessagesStay DEF PurgeList, RelayInv, RelayKinds, RelayTypeOK, HeaderHolds
<1>2. CASE EditHeader
  <2>0. header.said \in 1 .. MaxTexts /\ header.copied \in 1 .. MaxTexts /\ header.said < MaxTexts
    BY <1>2 DEF RelayInv, RelayKinds, RelayTypeOK, Texts, EditHeader
  <2>1. header' \in [said : Texts, copied : Texts, coming : SUBSET Texts]
        /\ header'.said = header.said + 1 /\ header'.copied = header.copied
        /\ header'.coming = header.coming \cup {header.said + 1}
    <3>1. header.said + 1 \in Texts /\ header.coming \cup {header.said + 1} \in SUBSET Texts
      BY <2>0 DEF RelayInv, RelayKinds, RelayTypeOK, Texts
    <3>2. header \in [said : Texts, copied : Texts, coming : SUBSET Texts]
      BY DEF RelayInv, RelayKinds, RelayTypeOK
    <3>3. header' = [header EXCEPT !.said = header.said + 1, !.coming = header.coming \cup {header.said + 1}]
      BY <1>2 DEF EditHeader
    <3> QED
      BY <3>1, <3>2, <3>3
  <2>2. HeaderHolds'
    BY <2>0, <2>1 DEF RelayInv, HeaderHolds
  <2>3. RelayKinds'
    BY <1>2, <2>1 DEF RelayInv, RelayKinds, RelayTypeOK, EditHeader
  <2> QED
    BY <1>2, <2>2, <2>3, MessagesStay DEF RelayInv, EditHeader
<1>3. ASSUME NEW text \in Texts, CopyHeader(text) PROVE RelayInv'
  <2>0. header.said \in 1 .. MaxTexts /\ header.copied \in 1 .. MaxTexts /\ text \in header.coming
        /\ text \in 1 .. MaxTexts
    BY <1>3 DEF RelayInv, RelayKinds, RelayTypeOK, Texts, CopyHeader
  <2>1. header' \in [said : Texts, copied : Texts, coming : SUBSET Texts]
        /\ header'.said = header.said /\ header'.copied = text
        /\ header'.coming = header.coming \ {text}
    BY <1>3 DEF RelayInv, RelayKinds, RelayTypeOK, Texts, CopyHeader
  <2>2. spoiled' = IF text < header.copied THEN spoiled \cup {HeaderName} ELSE spoiled
    BY <1>3 DEF CopyHeader
  <2>3. HeaderHolds'
    BY <2>0, <2>1, <2>2 DEF RelayInv, HeaderHolds
  <2>4. RelayKinds'
    BY <1>3, <2>1, <2>2 DEF RelayInv, RelayKinds, RelayTypeOK, CopyHeader
  <2> QED
    BY <1>3, <2>2, <2>3, <2>4, MessagesStay DEF RelayInv, CopyHeader
<1> QED
  BY <1>1, <1>2, <1>3

(* The row of a message is queued.                                           *)
LEMMA QueuesRow == ASSUME RelayInv, NEW k \in Letters, QueueRow(k) PROVE RelayInv'
<1> DEFINE w == [op |-> "save", letter |-> k, text |-> 1]
<1>0. w \in Writing /\ w.op = "save" /\ w.letter = k /\ w.text = 1 /\ w.op # "edit"
  BY RelayNames DEF Writing
<1> HIDE DEF w
<1>1. /\ outbox \in Seq(Writing) /\ sending[k] = "posted"
      /\ sending' = [sending EXCEPT ![k] = "sent"]
      /\ outbox' = IF sort[k] = "detected" THEN outbox ELSE Append(outbox, w)
      /\ UNCHANGED <<sort, duplicate, rows, editor, purging, header, spoiled>>
  BY DEF RelayInv, RelayKinds, QueueRow, w
<1>2. PICK p : p = outbox'
  OBVIOUS
<1>3. p \in Seq(Writing) /\ \A i \in 1 .. Len(p) : p[i] = w \/ \E j \in 1 .. Len(outbox) : p[i] = outbox[j]
  BY <1>0, <1>1, <1>2, Queued
<1>4. RelayKinds'
  <2>1. \A i \in DOMAIN p : p[i] \in Writing
    BY <1>3
  <2>2. \A i \in DOMAIN p : p[i].letter \in Letters /\ p[i].text \in Texts
    BY <2>1 DEF Writing
  <2>3. sending' \in [Letters -> {"no", "posted", "sent"}]
    BY <1>1 DEF RelayInv, RelayKinds, RelayTypeOK
  <2> QED
    BY <1>1, <1>2, <1>3, <2>2, <2>3 DEF RelayInv, RelayKinds, RelayTypeOK
<1>5. SavesAreFirst'
  BY <1>0, <1>2, <1>3 DEF RelayInv, SavesAreFirst
<1>6. HeaderHolds'
  BY <1>1 DEF RelayInv, HeaderHolds
<1>7. \A l : Amended(l)' <=> Amended(l)
  BY <1>1 DEF Amended
<1>8. ASSUME NEW l \in Letters, l # k PROVE LetterHolds(l)'
  <2>1. sending'[l] = sending[l]
    BY <1>1, <1>8 DEF RelayInv, RelayKinds, RelayTypeOK
  <2>2. CASE p = outbox
    BY <1>1, <1>2, <1>7, <1>8, <2>1, <2>2, LetterStays DEF RelayInv
  <2>3. CASE p = Append(outbox, w)
    <3>1. /\ Saving(p, l) <=> Saving(outbox, l)
          /\ SavedFirst(outbox, l) => SavedFirst(p, l)
          /\ \A r, x : LeavesText(outbox, l, r, x) => LeavesText(p, l, r, x)
      BY <1>0, <1>1, <1>8, <2>3, Queued
    <3>2. (\A i \in 1 .. Len(outbox) : outbox[i].letter # l) => \A i \in 1 .. Len(p) : p[i].letter # l
      BY <1>0, <1>3, <1>8
    <3> QED
      BY <1>1, <1>2, <1>7, <2>1, <3>1, <3>2
      DEF RelayInv, LetterHolds, Apart, Rowless, Fits, Recorded, InOrder, UpToDate
  <2> QED
    BY <1>1, <1>2, <2>2, <2>3
<1>9. LetterHolds(k)'
  <2>1. /\ rows[k] = None /\ ~Amended(k) /\ \A i \in 1 .. Len(outbox) : outbox[i].letter # k
        /\ duplicate[k] \in {1, Gone}
    BY <1>1 DEF RelayInv, LetterHolds, Apart
  <2>2. ~Saving(outbox, k) /\ SavedFirst(outbox, k)
    BY <2>1 DEF Saving, SavedFirst
  <2>3. sending'[k] = "sent" /\ duplicate'[k] = duplicate[k] /\ rows'[k] = None /\ sort'[k] = sort[k]
    BY <1>1, <2>1 DEF RelayInv, RelayKinds, RelayTypeOK
  <2>4. CASE sort[k] = "detected"
    BY <1>1, <1>2, <2>2, <2>3, <2>4 DEF LetterHolds, Apart, Rowless, Fits, Recorded, InOrder, UpToDate
  <2>5. CASE sort[k] # "detected"
    <3>1. p = Append(outbox, w)
      BY <1>1, <1>2, <2>5
    <3>2. Saving(p, k) /\ SavedFirst(p, k) /\ \A r : LeavesText(p, k, r, 1)
      BY <1>0, <1>1, <2>2, <3>1, Queued
    <3> QED
      BY <1>2, <2>1, <2>3, <2>5, <3>2, RelayNames
      DEF LetterHolds, Apart, Rowless, Fits, Recorded, InOrder, UpToDate
  <2> QED
    BY <2>4, <2>5
<1> QED
  BY <1>4, <1>5, <1>6, <1>8, <1>9 DEF RelayInv

(* An edit is queued.                                                        *)
LEMMA QueuesEdit == ASSUME RelayInv, NEW e \in Editors, QueueEdit(e) PROVE RelayInv'
<1>0. editor[e] \in Amendment /\ editor[e] # NoEdit
  BY DEF RelayInv, RelayKinds, QueueEdit
<1>1. PICK k \in Letters, x \in Texts : k = editor[e].letter /\ x = editor[e].text
  BY <1>0 DEF Amendment
<1> DEFINE w == [op |-> "edit", letter |-> k, text |-> x]
<1>2. w \in Writing /\ w.op = "edit" /\ w.letter = k /\ w.text = x /\ w.op # "save"
  BY DEF Writing
<1>3. /\ outbox \in Seq(Writing) /\ outbox' = Append(outbox, w)
      /\ editor' = [editor EXCEPT ![e] = NoEdit]
      /\ spoiled' = (IF Shown(k) /\ duplicate[k] # x THEN spoiled \cup {k} ELSE spoiled)
      /\ UNCHANGED <<sort, sending, duplicate, rows, purging, header>>
  BY <1>1 DEF RelayInv, RelayKinds, QueueEdit
<1> HIDE DEF w
<1>4. PICK p : p = outbox'
  OBVIOUS
<1>5. p \in Seq(Writing) /\ \A i \in 1 .. Len(p) : p[i] = w \/ \E j \in 1 .. Len(outbox) : p[i] = outbox[j]
  BY <1>2, <1>3, <1>4, Queued
<1>6. RelayKinds'
  <2>1. \A i \in DOMAIN p : p[i] \in Writing
    BY <1>5
  <2>2. \A i \in DOMAIN p : p[i].letter \in Letters /\ p[i].text \in Texts
    BY <2>1 DEF Writing
  <2>3. editor' \in [Editors -> Amendment \cup {NoEdit}]
    BY <1>3 DEF RelayInv, RelayKinds
  <2>4. \A d \in Editors : editor'[d].text \in 0 .. MaxTexts
    BY <1>3 DEF RelayInv, RelayKinds, RelayTypeOK, NoEdit, None
  <2>5. spoiled' \subseteq Letters \cup {HeaderName}
    BY <1>3 DEF RelayInv, RelayKinds, RelayTypeOK
  <2> QED
    BY <1>3, <1>4, <1>5, <2>2, <2>3, <2>4, <2>5 DEF RelayInv, RelayKinds, RelayTypeOK
<1>7. SavesAreFirst'
  BY <1>2, <1>4, <1>5 DEF RelayInv, SavesAreFirst
<1>8. HeaderHolds'
  BY <1>3 DEF RelayInv, HeaderHolds
<1>9. ASSUME NEW l \in Letters, l # k PROVE LetterHolds(l)'
  <2>1. Amended(l)' <=> Amended(l)
    BY <1>1, <1>3, <1>9 DEF Amended, RelayInv, RelayKinds
  <2>2. /\ Saving(p, l) <=> Saving(outbox, l)
        /\ SavedFirst(outbox, l) => SavedFirst(p, l)
        /\ \A r, y : LeavesText(outbox, l, r, y) => LeavesText(p, l, r, y)
    BY <1>2, <1>3, <1>4, <1>9, Queued
  <2>3. (\A i \in 1 .. Len(outbox) : outbox[i].letter # l) => \A i \in 1 .. Len(p) : p[i].letter # l
    BY <1>2, <1>5, <1>9
  <2>4. l \notin spoiled' => l \notin spoiled
    BY <1>3
  <2> QED
    BY <1>3, <1>4, <2>1, <2>2, <2>3, <2>4
    DEF RelayInv, LetterHolds, Apart, Rowless, Fits, Recorded, InOrder, UpToDate
<1>10. LetterHolds(k)'
  <2>1. Amended(k)
    BY <1>0, <1>1 DEF Amended
  <2>2. sending[k] = "sent"
    BY <2>1 DEF RelayInv, LetterHolds, Apart
  <2>3. /\ Saving(p, k) <=> Saving(outbox, k)
        /\ SavedFirst(outbox, k) /\ Saving(outbox, k) => SavedFirst(p, k)
        /\ \A r : LeavesText(p, k, r, x)
    BY <1>2, <1>3, <1>4, Queued
  <2>4. k \notin spoiled' => k \notin spoiled /\ (duplicate[k] \in Texts => duplicate[k] = x)
    BY <1>3 DEF Shown
  <2>5. LetterHolds(k)
    BY DEF RelayInv
  <2> QED
    BY <1>3, <1>4, <2>2, <2>3, <2>4, <2>5
    DEF LetterHolds, Apart, Rowless, Fits, Recorded, InOrder, UpToDate
<1> QED
  BY <1>6, <1>7, <1>8, <1>9, <1>10 DEF RelayInv

(* The worker does the first write, or loses it.                             *)
LEMMA RunsTask == ASSUME RelayInv, RunTask PROVE RelayInv'
<1>1. PICK w : w = Head(outbox)
  OBVIOUS
<1>2. PICK p : p = outbox'
  OBVIOUS
<1>3. /\ outbox \in Seq(Writing) /\ outbox # <<>> /\ p = Tail(outbox)
      /\ UNCHANGED <<sort, sending, duplicate, editor, purging, header>>
  BY <1>2 DEF RelayInv, RelayKinds, RunTask
<1>4. /\ p \in Seq(Writing) /\ w \in Writing /\ w = outbox[1] /\ 1 \in 1 .. Len(outbox)
      /\ \A i \in 1 .. Len(p) : \E j \in 1 .. Len(outbox) : p[i] = outbox[j]
  BY <1>1, <1>3, Unqueued
<1>5. PICK k \in Letters, x \in Texts : k = w.letter /\ x = w.text
  BY <1>4 DEF Writing
<1>6. \/ /\ rows' = [rows EXCEPT ![k] = IF w.op = "save" THEN x ELSE EditedRow(k, x)]
         /\ spoiled' = spoiled
      \/ rows' = rows /\ spoiled' = spoiled \cup {k}
  BY <1>1, <1>5 DEF RunTask
<1>7. EditedRow(k, x) = IF rows[k] # None /\ sort[k] = "question" THEN x ELSE rows[k]
  BY DEF EditedRow
<1>8. w.op = "save" => x = 1
  BY <1>4, <1>5 DEF RelayInv, SavesAreFirst
<1>9. rows \in [Letters -> 0 .. MaxTexts] /\ sort \in [Letters -> Sorts]
  BY DEF RelayInv, RelayKinds, RelayTypeOK
<1>10. rows' \in [Letters -> 0 .. MaxTexts] /\ \A l \in Letters : l # k => rows'[l] = rows[l]
  <2>1. x \in 0 .. MaxTexts /\ rows[k] \in 0 .. MaxTexts
    BY <1>9 DEF Texts
  <2> QED
    BY <1>6, <1>7, <1>9, <2>1
<1>11. RelayKinds'
  <2>1. \A i \in DOMAIN p : p[i] \in Writing
    BY <1>4
  <2>2. \A i \in DOMAIN p : p[i].letter \in Letters /\ p[i].text \in Texts
    BY <2>1 DEF Writing
  <2>3. spoiled' \subseteq Letters \cup {HeaderName}
    BY <1>6 DEF RelayInv, RelayKinds, RelayTypeOK
  <2> QED
    BY <1>2, <1>3, <1>4, <1>10, <2>2, <2>3 DEF RelayInv, RelayKinds, RelayTypeOK
<1>12. SavesAreFirst'
  BY <1>2, <1>4 DEF RelayInv, SavesAreFirst
<1>13. HeaderHolds'
  BY <1>3, <1>6 DEF RelayInv, HeaderHolds
<1>14. \A l : Amended(l)' <=> Amended(l)
  BY <1>3 DEF Amended
<1>15. \A l \in Letters : (\A i \in 1 .. Len(outbox) : outbox[i].letter # l) => \A i \in 1 .. Len(p) : p[i].letter # l
  BY <1>4
<1>16. ASSUME NEW l \in Letters, l # k PROVE LetterHolds(l)'
  <2>1. /\ Saving(p, l) <=> Saving(outbox, l)
        /\ SavedFirst(outbox, l) => SavedFirst(p, l)
        /\ \A r, y : LeavesText(outbox, l, r, y) => LeavesText(p, l, r, y)
    <3>1. w.letter # l
      BY <1>5, <1>16
    <3>2. /\ Saving(p, l) => Saving(outbox, l)
          /\ Saving(outbox, l) => Saving(p, l) \/ (w.letter = l /\ w.op = "save")
          /\ w.letter # l /\ SavedFirst(outbox, l) => SavedFirst(p, l)
          /\ w.letter # l => \A r, y : LeavesText(outbox, l, r, y) => LeavesText(p, l, r, y)
      BY <1>1, <1>3, Unqueued
    <3> QED
      BY <3>1, <3>2
  <2>2. l \notin spoiled' => l \notin spoiled
    BY <1>6
  <2>3. rows'[l] = rows[l]
    BY <1>10, <1>16
  <2> QED
    BY <1>2, <1>3, <1>14, <1>15, <2>1, <2>2, <2>3
    DEF RelayInv, LetterHolds, Apart, Rowless, Fits, Recorded, InOrder, UpToDate
<1>17. LetterHolds(k)'
  <2>1. /\ Saving(p, k) => Saving(outbox, k)
        /\ Saving(outbox, k) => Saving(p, k) \/ w.op = "save"
        /\ SavedFirst(outbox, k) => w.op = "save"
        /\ \A r, y : LeavesText(outbox, k, r, y) => LeavesText(p, k, x, y)
    BY <1>1, <1>3, <1>5, Unqueued
  <2>2. sending[k] = "sent" /\ LetterHolds(k)
    BY <1>4, <1>5 DEF RelayInv, LetterHolds, Apart
  <2>3. w.op = "save" => Saving(outbox, k)
    BY <1>4, <1>5 DEF Saving
  <2>4. CASE rows' = rows /\ spoiled' = spoiled \cup {k}
    BY <1>2, <1>3, <2>1, <2>2, <2>4 DEF LetterHolds, Apart, Rowless
  <2>5. CASE /\ rows' = [rows EXCEPT ![k] = IF w.op = "save" THEN x ELSE EditedRow(k, x)]
             /\ spoiled' = spoiled
    <3>1. rows'[k] = IF w.op = "save" \/ (rows[k] # None /\ sort[k] = "question") THEN x ELSE rows[k]
      BY <1>7, <1>9, <2>5
    <3>2. Rowless(k, sort[k], rows'[k], p)
      BY <1>8, <2>1, <2>2, <2>3, <3>1 DEF LetterHolds, Rowless
    <3>3. ASSUME k \notin spoiled
          PROVE  Fits(k, sort[k], sending[k], duplicate[k], rows'[k], p, Amended(k))
      <4>1. Recorded(k, sort[k], sending[k], rows[k], outbox) /\ InOrder(k, sort[k], rows[k], outbox)
            /\ UpToDate(k, sort[k], sending[k], duplicate[k], rows[k], outbox, Amended(k))
        BY <2>2, <3>3 DEF LetterHolds, Fits
      <4>2. Recorded(k, sort[k], sending[k], rows'[k], p)
        BY <2>1, <3>1, <4>1, RelayNames DEF Recorded
      <4>3. sort[k] = "question" => rows'[k] = x
        BY <2>1, <3>1, <4>1 DEF InOrder
      <4>4. InOrder(k, sort[k], rows'[k], p)
        BY <4>3, RelayNames DEF InOrder
      <4>5. UpToDate(k, sort[k], sending[k], duplicate[k], rows'[k], p, Amended(k))
        BY <2>1, <4>1, <4>3 DEF UpToDate
      <4> QED
        BY <4>2, <4>4, <4>5 DEF Fits
    <3> QED
      BY <1>2, <1>3, <1>14, <2>2, <2>5, <3>2, <3>3 DEF LetterHolds, Apart
  <2> QED
    BY <1>6, <2>4, <2>5
<1> QED
  BY <1>11, <1>12, <1>13, <1>16, <1>17 DEF RelayInv

(* A restart: the queue has its saves, and no handler goes on.               *)
LEMMA Restarts == ASSUME RelayInv, RestartRelay PROVE RelayInv'
<1>1. PICK p : p = outbox'
  OBVIOUS
<1>2. /\ outbox \in Seq(Writing) /\ p = Replayed
      /\ editor' = [e \in Editors |-> NoEdit] /\ purging' = {}
      /\ header' = [header EXCEPT !.coming = {}]
      /\ UNCHANGED <<sort, duplicate, rows>>
  BY <1>1 DEF RelayInv, RelayKinds, RestartRelay
<1>3. /\ p \in Seq(Writing)
      /\ \A i \in 1 .. Len(p) : p[i].op = "save" /\ \E j \in 1 .. Len(outbox) : p[i] = outbox[j]
      /\ \A j \in 1 .. Len(outbox) : outbox[j].op = "save" => \E i \in 1 .. Len(p) : p[i] = outbox[j]
  BY <1>2, ReplayedIs
<1>4. /\ spoiled \subseteq spoiled'
      /\ \A j \in 1 .. Len(outbox) : outbox[j].op = "edit" => outbox[j].letter \in spoiled'
      /\ \A l \in Letters : sending[l] = "posted" => l \in spoiled'
      /\ \A e \in Editors : editor[e] # NoEdit => editor[e].letter \in spoiled'
      /\ header.coming # {} => HeaderName \in spoiled'
  <2>1. DOMAIN outbox = 1 .. Len(outbox)
    BY <1>2
  <2> QED
    BY <2>1 DEF RestartRelay
<1>5. spoiled' \subseteq Letters \cup {HeaderName}
  <2>1. \A e \in Editors : editor[e] # NoEdit => editor[e].letter \in Letters
    BY DEF RelayInv, RelayKinds, Amendment
  <2>2. \A i \in DOMAIN outbox : outbox[i].letter \in Letters
    BY DEF RelayInv, RelayKinds, RelayTypeOK
  <2>3. spoiled \subseteq Letters \cup {HeaderName}
    BY DEF RelayInv, RelayKinds, RelayTypeOK
  <2> QED
    BY <2>1, <2>2, <2>3 DEF RestartRelay
<1>6. /\ sending' \in [Letters -> {"no", "posted", "sent"}]
      /\ \A l \in Letters : sending'[l] = IF sending[l] = "posted" THEN "sent" ELSE sending[l]
  BY DEF RelayInv, RelayKinds, RelayTypeOK, RestartRelay
<1>7. header' \in [said : Texts, copied : Texts, coming : SUBSET Texts]
      /\ header'.said = header.said /\ header'.copied = header.copied /\ header'.coming = {}
  BY <1>2 DEF RelayInv, RelayKinds, RelayTypeOK
<1>8. RelayKinds'
  <2>1. \A i \in DOMAIN p : p[i] \in Writing
    BY <1>3
  <2>2. \A i \in DOMAIN p : p[i].letter \in Letters /\ p[i].text \in Texts
    BY <2>1 DEF Writing
  <2>3. \A e \in Editors : editor'[e] = NoEdit /\ editor'[e].text \in 0 .. MaxTexts
    BY <1>2 DEF NoEdit, None
  <2>4. editor' \in [Editors -> Amendment \cup {NoEdit}]
    BY <1>2
  <2>5. /\ sort' \in [Letters -> Sorts] /\ duplicate' \in [Letters -> 0 .. Gone]
        /\ rows' \in [Letters -> 0 .. MaxTexts] /\ purging' \subseteq Letters
    BY <1>2 DEF RelayInv, RelayKinds, RelayTypeOK
  <2>6. header' \in [said : Texts, copied : Texts, coming : SUBSET Texts]
    BY <1>7
  <2>7. RelayTypeOK'
    BY <1>1, <1>5, <1>6, <2>2, <2>3, <2>5, <2>6 DEF RelayTypeOK
  <2> QED
    BY <1>1, <1>3, <2>4, <2>7 DEF RelayKinds
<1>9. SavesAreFirst'
  <2>1. ASSUME NEW i \in 1 .. Len(p) PROVE p[i].op = "save" => p[i].text = 1
    <3>1. PICK j \in 1 .. Len(outbox) : p[i] = outbox[j]
      BY <1>3
    <3> QED
      BY <3>1 DEF RelayInv, SavesAreFirst
  <2> QED
    BY <1>1, <2>1 DEF SavesAreFirst
<1>10. HeaderHolds'
  BY <1>4, <1>7 DEF RelayInv, HeaderHolds
<1>11. ASSUME NEW l \in Letters PROVE LetterHolds(l)'
  <2>1. ~Amended(l)' /\ LetterHolds(l)
    BY <1>2 DEF Amended, RelayInv
  <2>2. /\ Saving(p, l) => Saving(outbox, l)
        /\ Saving(outbox, l) => Saving(p, l)
        /\ SavedFirst(p, l)
    <3>1. Saving(p, l) => Saving(outbox, l)
      BY <1>3 DEF Saving
    <3>2. Saving(outbox, l) => Saving(p, l)
      BY <1>3 DEF Saving
    <3>3. \A i \in 1 .. Len(p) : p[i].op # "edit"
      BY <1>3
    <3>4. SavedFirst(p, l)
      BY <3>3 DEF SavedFirst
    <3> QED
      BY <3>1, <3>2, <3>4
  <2>3. (\A i \in 1 .. Len(outbox) : outbox[i].letter # l) => \A i \in 1 .. Len(p) : p[i].letter # l
    BY <1>3
  <2>4. ASSUME l \notin spoiled', sending[l] = "sent", sort[l] = "question", duplicate[l] \in Texts
        PROVE  LeavesText(p, l, rows[l], duplicate[l])
    <3>1. ~Amended(l) /\ l \notin spoiled
      BY <1>4, <2>4 DEF Amended
    <3>2. LeavesText(outbox, l, rows[l], duplicate[l])
      BY <2>1, <2>4, <3>1 DEF LetterHolds, Fits, UpToDate
    <3>3. \A j \in 1 .. Len(outbox) : outbox[j].letter = l => outbox[j].op = "save"
      <4>1. \A j \in 1 .. Len(outbox) : outbox[j] \in Writing
        BY <1>2
      <4>2. \A j \in 1 .. Len(outbox) : outbox[j].op \in {"save", "edit"}
        BY <4>1 DEF Writing
      <4> QED
        BY <1>4, <2>4, <4>2
    <3>4. \A j \in 1 .. Len(outbox) : outbox[j].letter = l => outbox[j].text = 1
      BY <3>3 DEF RelayInv, SavesAreFirst
    <3>5. (\A i \in 1 .. Len(p) : p[i].letter # l) => \A j \in 1 .. Len(outbox) : outbox[j].letter # l
      BY <1>3, <3>3
    <3>6. \A j \in 1 .. Len(outbox) : outbox[j].letter = l => duplicate[l] = 1
      <4> SUFFICES ASSUME NEW j \in 1 .. Len(outbox), outbox[j].letter = l, duplicate[l] # 1
                   PROVE  FALSE
        OBVIOUS
      <4>1. outbox[j].text # duplicate[l]
        BY <3>4
      <4>2. PICK i \in 1 .. Len(outbox) : outbox[i].letter = l /\ outbox[i].text = duplicate[l]
        BY <3>2, <4>1 DEF LeavesText
      <4> QED
        BY <3>4, <4>2
    <3>7. \A i \in 1 .. Len(p) : p[i].letter = l => p[i].text = duplicate[l]
      <4> SUFFICES ASSUME NEW i \in 1 .. Len(p), p[i].letter = l PROVE p[i].text = duplicate[l]
        OBVIOUS
      <4>1. PICK j \in 1 .. Len(outbox) : p[i] = outbox[j]
        BY <1>3
      <4> QED
        BY <3>4, <3>6, <4>1
    <3> QED
      BY <3>2, <3>5, <3>7 DEF LeavesText
  <2>5. l \notin spoiled' => l \notin spoiled /\ sending'[l] = sending[l]
    BY <1>4, <1>6
  <2>6. sending'[l] # "sent" => sending[l] # "sent" /\ sending'[l] = "no" /\ sending[l] = "no"
    BY <1>6 DEF RelayInv, RelayKinds, RelayTypeOK
  <2>7. Apart(l, sending'[l], duplicate[l], rows[l], p, Amended(l)')
    BY <2>1, <2>3, <2>6 DEF LetterHolds, Apart
  <2>8. Rowless(l, sort[l], rows[l], p)
    BY <2>1, <2>2 DEF LetterHolds, Rowless
  <2>9. ASSUME l \notin spoiled'
        PROVE  Fits(l, sort[l], sending'[l], duplicate[l], rows[l], p, Amended(l)')
    BY <2>1, <2>2, <2>4, <2>5, <2>9 DEF LetterHolds, Fits, Recorded, InOrder, UpToDate
  <2> QED
    BY <1>1, <1>2, <2>7, <2>8, <2>9 DEF LetterHolds
<1> QED
  BY <1>8, <1>9, <1>10, <1>11 DEF RelayInv

LEMMA RelayStep == RelayInv /\ [RelayNext]_relayVars => RelayInv'
<1> SUFFICES ASSUME RelayInv, [RelayNext]_relayVars PROVE RelayInv'
  OBVIOUS
<1>1. ASSUME NEW l \in Letters, DeleteCopy(l) \/ DeleteByLink(l) \/ PurgeDelete(l) PROVE RelayInv'
  BY <1>1, Deletes DEF DeleteCopy, DeleteByLink, PurgeDelete
<1>2. CASE UNCHANGED relayVars
  <2>1. RelayKinds' /\ HeaderHolds'
    BY <1>2 DEF relayVars, RelayInv, RelayKinds, RelayTypeOK, HeaderHolds
  <2> QED
    BY <1>2, <2>1, MessagesStay DEF relayVars, RelayInv
<1> QED
  BY <1>1, <1>2, Posts, QueuesRow, Edits, QueuesEdit, RunsTask, Restarts, Others DEF RelayNext

(* Copies, rows, queue and what is on its way keep their types.              *)
THEOREM RelayTypes == RelaySpec => []RelayTypeOK
<1>1. RelayInv => RelayTypeOK
  BY DEF RelayInv, RelayKinds
<1> QED
  BY <1>1, RelayStart, RelayStep, PTL DEF RelaySpec

(* For any number of messages and of edits on their way, over failed writes  *)
(* and restarts: once all is done, each message somebody sees has the row it *)
(* should have, unless something of it was lost or edits of it crossed, and  *)
(* the staff's header is the asker's (relay.py:157-185, 362-514,             *)
(* handlers.py:245-251).                                                      *)
THEOREM RowsFollowCopies == RelaySpec => []RecordsAgree
<1>1. RelayInv => RecordsAgree
  <2> SUFFICES ASSUME RelayInv, Drained PROVE RecordsAgree
    BY DEF RecordsAgree
  <2>1. \A i \in 1 .. Len(outbox) : FALSE
    BY DEF Drained
  <2>2. HeaderName \notin spoiled => header.copied = header.said
    BY DEF RelayInv, HeaderHolds, Drained
  <2>3. ASSUME NEW l \in Letters, l \notin spoiled, Shown(l)
        PROVE  /\ sort[l] = "question" => rows[l] = duplicate[l]
               /\ sort[l] = "detected" => rows[l] = None
               /\ sort[l] # "question" /\ sort[l] # "detected" => rows[l] = 1
    <3>1. LetterHolds(l) /\ sort[l] \in Sorts /\ ~Amended(l) /\ duplicate[l] \in Texts
      BY <2>3 DEF RelayInv, RelayKinds, RelayTypeOK, Drained, Amended, Shown
    <3>2. sending[l] = "sent"
      BY <3>1 DEF RelayInv, RelayKinds, RelayTypeOK, Drained, LetterHolds, Apart
    <3>3. ~Saving(outbox, l)
      BY <2>1 DEF Saving
    <3>4. sort[l] = "question" => LeavesText(outbox, l, rows[l], duplicate[l])
      BY <2>3, <3>1, <3>2 DEF LetterHolds, Fits, UpToDate
    <3>5. sort[l] = "question" => rows[l] = duplicate[l]
      BY <2>1, <3>4 DEF LeavesText
    <3>6. sort[l] # "detected" => rows[l] # None
      BY <2>3, <3>1, <3>2, <3>3 DEF LetterHolds, Fits, Recorded
    <3> QED
      BY <3>1, <3>5, <3>6 DEF LetterHolds, Rowless, Sorts
  <2>4. ASSUME NEW l \in Letters, l \notin spoiled, Shown(l)
        PROVE  rows[l] = CASE sort[l] = "question" -> duplicate[l]
                           [] sort[l] = "detected" -> None
                           [] OTHER -> 1
    BY <2>3, <2>4
  <2> QED
    BY <2>2, <2>4 DEF RecordsAgree
<1> QED
  BY <1>1, RelayStart, RelayStep, PTL DEF RelaySpec
=============================================================================
