----------------------------- MODULE TaskJournal -----------------------------
(***************************************************************************)
(* The write queue of sw-bot and the journal that is to carry it over a     *)
(* restart (worker.py, task_journal.py).  Handler threads record a task in  *)
(* the journal and put it on an in-memory queue; one worker thread takes    *)
(* tasks off, runs them and records that they are done.  At the next start  *)
(* the tasks without a "done" are loaded, the file is rewritten with them   *)
(* and they are put on the queue again.                                     *)
(*                                                                          *)
(* The file is kept as what load_pending makes of it: the last status of    *)
(* every id.  A uuid is the number of its record, so that the order of ids  *)
(* is the order of records, which is the order load_pending returns.        *)
(***************************************************************************)
EXTENDS Naturals, Sequences

CONSTANTS
  Tasks,       \* the calls of enqueue()
  Registered,  \* those whose function TASK_REGISTRY knows
  Callers,     \* handler threads
  NoTask,
  MaxId,       \* bound: ids ever made
  MaxCrashes   \* bound: how often the process dies

ASSUME TasksAssumption == Registered \subseteq Tasks /\ NoTask \notin Tasks
ASSUME BoundsAssumption == MaxId \in Nat /\ MaxCrashes \in Nat

VARIABLES
  journal,   \* [Ids -> the last status the file has for the id]
  owner,     \* [Ids -> the task the id was made for]
  next,      \* the next id
  queue,     \* write_queue
  caller,    \* [Callers -> the id recorded and not yet put, or 0]
  worker,    \* the worker thread: [pc, id]
  boot,      \* where load_and_replay is; "up" when it has returned
  todo,      \* ids loaded and not yet replayed
  runs,      \* [Tasks -> how often the task was run]
  crashes,   \* how often the process died
  kept,      \* tasks whose first record reached the file
  finished,  \* tasks whose record_done reached the file
  lost       \* tasks in the file when a rewrite of it was cut short

vars == <<journal, owner, next, queue, caller, worker, boot, todo, runs,
          crashes, kept, finished, lost>>

Ids == 1 .. MaxId
Pending == {i \in Ids : journal[i] \in {"pending", "started"}}

TypeOK ==
  /\ journal \in [Ids -> {"none", "pending", "started", "done"}]
  /\ owner \in [Ids -> Tasks \cup {NoTask}]
  /\ next \in Nat \ {0}
  /\ queue \in Seq(Ids)
  /\ caller \in [Callers -> Ids \cup {0}]
  /\ worker \in [pc : {"idle", "taken", "started", "ran"}, id : Ids \cup {0}]
  /\ worker.pc # "idle" => worker.id # 0
  /\ boot \in {"down", "rewrite", "replay", "up"}
  /\ todo \subseteq Ids
  /\ runs \in [Tasks -> Nat]
  /\ crashes \in Nat
  /\ kept \subseteq Tasks /\ finished \subseteq Tasks /\ lost \subseteq Tasks

Init ==
  /\ journal = [i \in Ids |-> "none"]
  /\ owner = [i \in Ids |-> NoTask]
  /\ next = 1
  /\ queue = <<>>
  /\ caller = [c \in Callers |-> 0]
  /\ worker = [pc |-> "idle", id |-> 0]
  /\ boot = "up"
  /\ todo = {}
  /\ runs = [t \in Tasks |-> 0]
  /\ crashes = 0
  /\ kept = {} /\ finished = {} /\ lost = {}

------------------------------------------------------------------------------
(* A record for id i.  It may stay out of the file: append() swallows an    *)
(* OSError, and arguments json cannot serialise are not recorded.           *)
Record(i, status) ==
  \/ journal' = [journal EXCEPT ![i] = status]
  \/ UNCHANGED journal

(* A later record of an id the file does not know means nothing.            *)
Note(i, status) ==
  IF journal[i] = "none" THEN UNCHANGED journal ELSE Record(i, status)

------------------------------------------------------------------------------
(* enqueue(): the record first, the queue second.                            *)

Enqueue(c, t) ==
  /\ boot = "up"
  /\ caller[c] = 0
  /\ next <= MaxId
  /\ \A i \in Ids : owner[i] # t
  /\ Record(next, "pending")
  /\ kept' = IF journal'[next] = "pending" THEN kept \cup {t} ELSE kept
  /\ owner' = [owner EXCEPT ![next] = t]
  /\ next' = next + 1
  /\ caller' = [caller EXCEPT ![c] = next]
  /\ UNCHANGED <<queue, worker, boot, todo, runs, crashes, finished, lost>>

Put(c) ==
  /\ caller[c] # 0
  /\ queue' = Append(queue, caller[c])
  /\ caller' = [caller EXCEPT ![c] = 0]
  /\ UNCHANGED <<journal, owner, next, worker, boot, todo, runs, crashes,
                 kept, finished, lost>>

------------------------------------------------------------------------------
(* Worker.run()                                                              *)

Get ==
  /\ boot = "up"
  /\ worker.pc = "idle"
  /\ queue # <<>>
  /\ worker' = [pc |-> "taken", id |-> Head(queue)]
  /\ queue' = Tail(queue)
  /\ UNCHANGED <<journal, owner, next, caller, boot, todo, runs, crashes,
                 kept, finished, lost>>

Start ==
  /\ worker.pc = "taken"
  /\ Note(worker.id, "started")
  /\ worker' = [worker EXCEPT !.pc = "started"]
  /\ UNCHANGED <<owner, next, queue, caller, boot, todo, runs, crashes, kept,
                 finished, lost>>

(* The call: what it raises is logged, and the task counts as done.          *)
Run ==
  /\ worker.pc = "started"
  /\ runs' = [runs EXCEPT ![owner[worker.id]] = @ + 1]
  /\ worker' = [worker EXCEPT !.pc = "ran"]
  /\ UNCHANGED <<journal, owner, next, queue, caller, boot, todo, crashes, kept,
                 finished, lost>>

Done ==
  /\ worker.pc = "ran"
  /\ Note(worker.id, "done")
  /\ finished' = IF journal'[worker.id] = "done"
                 THEN finished \cup {owner[worker.id]} ELSE finished
  /\ worker' = [pc |-> "idle", id |-> 0]
  /\ UNCHANGED <<owner, next, queue, caller, boot, todo, runs, crashes, kept, lost>>

------------------------------------------------------------------------------
(* The file gets a record for the ids in S, and loses the others.            *)
Rewritten(S) ==
  /\ journal' = [i \in Ids |-> IF i \in S THEN "pending" ELSE "none"]
  /\ lost' = lost \cup {owner[i] : i \in todo \ S}

(* The process dies.  While compact() rewrites the file, any part of it may *)
(* have been flushed.                                                        *)
Crash ==
  /\ crashes < MaxCrashes
  /\ crashes' = crashes + 1
  /\ boot' = "down"
  /\ queue' = <<>>
  /\ caller' = [c \in Callers |-> 0]
  /\ worker' = [pc |-> "idle", id |-> 0]
  /\ todo' = {}
  /\ \/ boot # "rewrite" /\ UNCHANGED <<journal, lost>>
     \/ boot = "rewrite" /\ \E S \in SUBSET todo : Rewritten(S)
  /\ UNCHANGED <<owner, next, runs, kept, finished>>

------------------------------------------------------------------------------
(* load_and_replay()                                                         *)

(* Fault: a task that was being run when the process died is taken as done.  *)
LoadUnstarted ==
  /\ boot = "down"
  /\ todo' = {i \in Ids : journal[i] = "pending"}
  /\ journal' = [i \in Ids |-> "none"]
  /\ boot' = "rewrite"
  /\ UNCHANGED <<owner, next, queue, caller, worker, runs, crashes, kept, finished, lost>>

(* load_pending(), and compact() opens the file: it is empty now.  If it     *)
(* cannot be opened it stays as it is.                                       *)
Load ==
  /\ boot = "down"
  /\ todo' = Pending
  /\ \/ journal' = [i \in Ids |-> "none"] /\ boot' = "rewrite"
     \/ UNCHANGED journal /\ boot' = "replay"
  /\ UNCHANGED <<owner, next, queue, caller, worker, runs, crashes, kept, finished, lost>>

(* It is closed with a record for every pending task, under its old id, or, *)
(* after a swallowed OSError, for some of them.                             *)
Rewrite ==
  /\ boot = "rewrite"
  /\ \E S \in SUBSET todo : Rewritten(S)
  /\ boot' = "replay"
  /\ UNCHANGED <<owner, next, queue, caller, worker, todo, runs, crashes, kept,
                 finished>>

(* Fault: the task is queued under both its ids.                             *)
RequeueTwice(i) ==
  /\ next <= MaxId
  /\ Record(next, "pending")
  /\ owner' = [owner EXCEPT ![next] = owner[i]]
  /\ next' = next + 1
  /\ queue' = queue \o <<i, next>>

(* A registered task gets a new id, a new record and its place in the queue.*)
Requeue(i) ==
  /\ next <= MaxId
  /\ Record(next, "pending")
  /\ owner' = [owner EXCEPT ![next] = owner[i]]
  /\ next' = next + 1
  /\ queue' = Append(queue, next)

Replay(i) ==
  /\ boot = "replay"
  /\ i \in todo
  /\ \A k \in todo : i <= k
  /\ todo' = todo \ {i}
  /\ \/ owner[i] \in Registered /\ Requeue(i)
     \/ owner[i] \notin Registered /\ UNCHANGED <<journal, owner, next, queue>>
  /\ UNCHANGED <<caller, worker, boot, runs, crashes, kept, finished, lost>>

(* The threads start and the server answers.                                *)
Up ==
  /\ boot = "replay"
  /\ todo = {}
  /\ boot' = "up"
  /\ UNCHANGED <<journal, owner, next, queue, caller, worker, todo, runs,
                 crashes, kept, finished, lost>>

------------------------------------------------------------------------------
Worker == Get \/ Start \/ Run \/ Done
Boot == Load \/ Rewrite \/ (\E i \in Ids : Replay(i)) \/ Up

Next ==
  \/ \E c \in Callers : Put(c) \/ \E t \in Tasks : Enqueue(c, t)
  \/ Worker
  \/ Boot
  \/ Crash

Spec == Init /\ [][Next]_vars

(* A thread that may go on does, and a process that died is started again.  *)
FairSpec ==
  /\ Spec
  /\ WF_vars(Worker)
  /\ WF_vars(Boot)
  /\ \A c \in Callers : WF_vars(Put(c))

------------------------------------------------------------------------------
(* Properties                                                                *)

(* Task t can still be run after a restart: the file has it, or the start   *)
(* in progress has it in memory.                                             *)
Remembered(t) ==
  \E i \in Ids : /\ owner[i] = t
                 /\ i \in Pending \/ (boot = "rewrite" /\ i \in todo)

(* No task is forgotten: one whose record reached the journal has been run, *)
(* or will be remembered by the next start, whenever the process dies;      *)
(* excepted are those a death or an OSError in the middle of compact() took *)
(* with it (task_journal.py:78-93 truncates the only copy).                  *)
NothingForgotten == \A t \in kept : runs[t] > 0 \/ Remembered(t) \/ t \in lost

(* ... and a task that a start can replay is run in the end.                *)
KeptTasksRun ==
  \A t \in Registered : t \in kept ~> runs[t] > 0 \/ t \in lost

(* A start replays pending tasks ("Replayed {replayed} pending tasks from   *)
(* journal", worker.py:45): none whose completion is on record.             *)
ReplaysOnlyPending ==
  [][\A i \in Ids : Replay(i) /\ owner[i] \in Registered =>
       owner[i] \notin finished]_vars

(* compact() keeps the old id of a task next to the new one, so every start *)
(* may double the copies of it: n deaths run a task at most 2^n times.      *)
DoublingBound == \A t \in Tasks : runs[t] <= 2^crashes
=============================================================================
