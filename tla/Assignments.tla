----------------------------- MODULE Assignments -----------------------------
(***************************************************************************)
(* The assignment of one ship cert: created for the reviewer with the right  *)
(* skills and the least work, reassigned, worked on, and talked about in     *)
(* notes kept in one column (assignments/route.ts and [id]/).  Handlers push *)
(* to the users concerned one after the other, after the row is written.    *)
(***************************************************************************)
EXTENDS Naturals, Sequences, FiniteSets

CONSTANTS
  Members,   \* users
  NoOne,
  Desks,     \* slots for requests
  MaxNotes,  \* bound: notes
  MaxMoves   \* bound: requests that create, reassign or change the status

ASSUME AssignAssumption == {MaxNotes, MaxMoves} \subseteq Nat
ASSUME NoOneAssumption == NoOne \notin Members

VARIABLES
  assignment,  \* the row; NoOne and "none" before it exists
  comments,    \* the row's comments: numbers of notes
  noted,       \* history: notes written
  removed,     \* history: notes deleted
  overtaken,      \* history: notes written or deleted while another request, which had
               \* read the column before, was yet to write it
  subscribed,  \* assignSubsc: who hears of notes
  told,        \* [Members -> ...]: the last push a user got about it
  desk,        \* [Desks -> Work]: requests in progress
  moves,
  mishaps      \* history: "crossed", "unheard"

columnVars == <<comments, noted, removed, overtaken>>
assignVars == <<assignment, columnVars, subscribed, told, desk, moves, mishaps>>

Someone == Members \cup {NoOne}
Statuses == {"none", "unassigned", "pending", "in_progress", "completed"}
Message == {"assigned", "unassigned"}
Work == [pc : {"idle", "create", "reassign", "status", "tell", "note", "unnote", "subscribe"},
         who : Someone, was : Someone, status : Statuses,
         pushes : Seq([to : Members, what : Message]), seen : SUBSET (1 .. MaxNotes),
         note : 0 .. MaxNotes]
NoWork == [pc |-> "idle", who |-> NoOne, was |-> NoOne, status |-> "none",
           pushes |-> <<>>, seen |-> {}, note |-> 0]

AssignTypeOK ==
  /\ assignment \in [assignee : Someone, status : Statuses]
  /\ comments \subseteq 1 .. noted /\ noted \in 0 .. MaxNotes
  /\ removed \subseteq 1 .. noted /\ overtaken \subseteq 1 .. noted
  /\ subscribed \subseteq Members
  /\ told \in [Members -> Message \cup {"nothing"}]
  /\ desk \in [Desks -> Work]
  /\ moves \in 0 .. MaxMoves
  /\ mishaps \subseteq {"crossed", "unheard"}

AssignInit ==
  /\ assignment = [assignee |-> NoOne, status |-> "none"]
  /\ comments = {} /\ noted = 0 /\ removed = {} /\ overtaken = {} /\ subscribed = {}
  /\ told = [u \in Members |-> "nothing"]
  /\ desk = [h \in Desks |-> NoWork]
  /\ moves = 0 /\ mishaps = {}

Exists == assignment.status # "none"

(* A request that may change the row begins.                                *)
BeginMove(h, work) ==
  /\ desk[h].pc = "idle" /\ moves < MaxMoves
  /\ moves' = moves + 1
  /\ desk' = [desk EXCEPT ![h] = work]
  /\ mishaps' = IF \E g \in Desks : desk[g].pc \in {"create", "reassign", "status", "tell"}
                  THEN mishaps \cup {"crossed"} ELSE mishaps
  /\ UNCHANGED <<assignment, columnVars, subscribed, told>>

Writes(h, who, status, pushes) ==
  /\ assignment' = [assignee |-> who, status |-> status]
  /\ desk' = [desk EXCEPT ![h] = [NoWork EXCEPT !.pc = "tell", !.pushes = pushes]]
  /\ UNCHANGED <<columnVars, subscribed, told, moves, mishaps>>

(* POST: there is none yet; somebody suits, or nobody does.                 *)
ChooseAssignee(h, who) ==
  ~Exists /\ BeginMove(h, [NoWork EXCEPT !.pc = "create", !.who = who])

(* shipCertId is unique: the second of two creations fails.                 *)
CreateAssignment(h) ==
  /\ desk[h].pc = "create" /\ ~Exists
  /\ IF desk[h].who = NoOne THEN Writes(h, NoOne, "unassigned", <<>>)
     ELSE Writes(h, desk[h].who, "pending", <<[to |-> desk[h].who, what |-> "assigned"]>>)

(* PATCH reassign: reads the current assignee, to tell him later.           *)
ReadAssignee(h, who) ==
  /\ Exists
  /\ BeginMove(h, [NoWork EXCEPT !.pc = "reassign", !.who = who, !.was = assignment.assignee])

(* Fault: the new assignee is told first.                                    *)
NoticesSwapped(was, who) ==
  <<[to |-> who, what |-> "assigned"]>> \o
  (IF was = NoOne THEN <<>> ELSE <<[to |-> was, what |-> "unassigned"]>>)

Notices(was, who) ==
  (IF was = NoOne THEN <<>> ELSE <<[to |-> was, what |-> "unassigned"]>>) \o
  <<[to |-> who, what |-> "assigned"]>>

Reassign(h) ==
  /\ desk[h].pc = "reassign"
  /\ Writes(h, desk[h].who, "pending", Notices(desk[h].was, desk[h].who))

(* PATCH status: the assignee, or who may override, and then by id alone.   *)
CheckOwner(h, u, overrides, status) ==
  /\ Exists /\ (assignment.assignee = u \/ overrides)
  /\ BeginMove(h, [NoWork EXCEPT !.pc = "status", !.status = status])

SetStatus(h) ==
  /\ desk[h].pc = "status"
  /\ assignment' = [assignment EXCEPT !.status = desk[h].status]
  /\ desk' = [desk EXCEPT ![h] = NoWork]
  /\ UNCHANGED <<columnVars, subscribed, told, moves, mishaps>>

(* A push reaches the user's browsers, or nobody: no subscription, an error. *)
Push(h) ==
  /\ desk[h].pc = "tell"
  /\ IF desk[h].pushes = <<>>
       THEN /\ desk' = [desk EXCEPT ![h] = NoWork]
            /\ UNCHANGED <<told, mishaps>>
       ELSE /\ desk' = [desk EXCEPT ![h].pushes = Tail(@)]
            /\ LET m == Head(desk[h].pushes) IN
                 \/ told' = [told EXCEPT ![m.to] = m.what] /\ UNCHANGED mishaps
                 \/ UNCHANGED told /\ mishaps' = mishaps \cup {"unheard"}
  /\ UNCHANGED <<assignment, columnVars, subscribed, moves>>

(* The notes are one column: POST and DELETE read it and write it whole.      *)
BeginNote(h, work) ==
  /\ Exists /\ desk[h].pc = "idle"
  /\ desk' = [desk EXCEPT ![h] = work]
  /\ UNCHANGED <<assignment, columnVars, subscribed, told, moves, mishaps>>

(* n changes; whoever has read the column and not written it knows nothing of it. *)
Changes(h, n) ==
  overtaken' = IF \E g \in Desks \ {h} : desk[g].pc \in {"note", "unnote"} THEN overtaken \cup {n} ELSE overtaken

(* POST: the note is added; its author and those mentioned are subscribed.   *)
ReadNotes(h, u) ==
  noted < MaxNotes /\ BeginNote(h, [NoWork EXCEPT !.pc = "note", !.who = u, !.seen = comments])

(* Fault: the notes read are lost.                                           *)
WithNoteAlone(seen, n) == {n}

WithNote(seen, n) == seen \cup {n}

WriteNotes(h) ==
  /\ desk[h].pc = "note" /\ noted < MaxNotes
  /\ noted' = noted + 1
  /\ comments' = WithNote(desk[h].seen, noted + 1)
  /\ Changes(h, noted + 1)
  /\ desk' = [desk EXCEPT ![h].pc = "subscribe"]
  /\ UNCHANGED <<assignment, removed, subscribed, told, moves, mishaps>>

(* DELETE: a note of the column, by its author or who may override.          *)
FindNote(h, n) ==
  n \in comments /\ BeginNote(h, [NoWork EXCEPT !.pc = "unnote", !.seen = comments, !.note = n])

RemoveNote(h) ==
  /\ desk[h].pc = "unnote"
  /\ comments' = desk[h].seen \ {desk[h].note}
  /\ removed' = removed \cup {desk[h].note}
  /\ Changes(h, desk[h].note)
  /\ desk' = [desk EXCEPT ![h] = NoWork]
  /\ UNCHANGED <<assignment, noted, subscribed, told, moves, mishaps>>

Subscribe(h, mentioned) ==
  /\ desk[h].pc = "subscribe"
  /\ subscribed' = subscribed \cup {desk[h].who} \cup mentioned
  /\ desk' = [desk EXCEPT ![h] = NoWork]
  /\ UNCHANGED <<assignment, columnVars, told, moves, mishaps>>

Unsubscribe(u) ==
  /\ Exists
  /\ subscribed' = subscribed \ {u}
  /\ UNCHANGED <<assignment, columnVars, told, desk, moves, mishaps>>

(* The database fails or the process dies; pushes to come are not sent.      *)
Drop(h) ==
  /\ desk[h].pc # "idle"
  /\ desk' = [desk EXCEPT ![h] = NoWork]
  /\ mishaps' = IF desk[h].pushes = <<>> THEN mishaps ELSE mishaps \cup {"unheard"}
  /\ UNCHANGED <<assignment, columnVars, subscribed, told, moves>>

AssignNext ==
  \/ \E h \in Desks :
       \/ \E who \in Someone : ChooseAssignee(h, who)
       \/ \E who \in Members : ReadAssignee(h, who) \/ ReadNotes(h, who)
       \/ \E who \in Members, overrides \in BOOLEAN,
             status \in {"pending", "in_progress", "completed"} : CheckOwner(h, who, overrides, status)
       \/ \E n \in 1 .. MaxNotes : FindNote(h, n)
       \/ \E mentioned \in SUBSET Members : Subscribe(h, mentioned)
       \/ CreateAssignment(h) \/ Reassign(h) \/ SetStatus(h) \/ Push(h) \/ WriteNotes(h)
       \/ RemoveNote(h) \/ Drop(h)
  \/ \E u \in Members : Unsubscribe(u)

AssignSpec == AssignInit /\ [][AssignNext]_assignVars

------------------------------------------------------------------------------
(* Properties                                                                *)

(* Once all pushes are out, a user's last one says the assignment is his     *)
(* exactly if it is, unless two requests overlapped or a push got lost       *)
(* (reassign/route.ts:57-125, assignments/route.ts:117-144).                 *)
LastPushIsTrue ==
  (\A h \in Desks : desk[h].pc # "tell") /\ {"crossed", "unheard"} \cap mishaps = {} =>
    \A u \in Members : told[u] = "assigned" <=> assignment.assignee = u

(* Whatever is added and deleted, together too: the column has each note      *)
(* that was written and not deleted, and no other, but for those whose       *)
(* writing or deletion another request missed, which had read the column      *)
(* and then wrote it whole (notes/route.ts:76-119, 270-304).                   *)
NotesKept == \A n \in 1 .. noted \ overtaken : n \in comments <=> n \notin removed
=============================================================================
