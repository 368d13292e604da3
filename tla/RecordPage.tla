----------------------------- MODULE RecordPage -----------------------------
(***************************************************************************)
(* Pages that show one row and change it column by column: the profile of a  *)
(* user (users/[id]/page.tsx, user-profile.tsx) and the form of an           *)
(* assignment (useAssignment.ts, useAssignmentActions.tsx, edit/form.tsx).   *)
(* Each control has one request at a time and then puts what it asked for    *)
(* into the copy the page shows; the profile loads its log again behind the  *)
(* answer's back, and a reassignment's answer replaces the whole copy.       *)
(* Several visitors have the page open, and others write the row directly.   *)
(* Every visitor may do all: of the roles, those that see a profile or may   *)
(* touch another's assignment have every permission (lib/perms.ts).          *)
(***************************************************************************)
EXTENDS Naturals

CONSTANTS
  Visits,    \* pages open
  Surfaces,  \* "profile", "assignment"
  Yubikeys,  \* ids of the user's keys
  Ranked, Lowest,   \* users.role; "observer"
  Writings, Blank,  \* skills, notes, api keys and types; none of it
  Assignees,
  MaxAlters    \* bound: requests sent and changes made elsewhere

VARIABLES
  surface,  \* which of the Surfaces
  filed,   \* the row
  trail,    \* entries in the audit log
  sight,    \* [Visits -> ...]: what has been read for the page, and what it shows
  asking,   \* [Visits -> [Controls -> ...]]: requests in progress
  logging,  \* [Visits -> ...]: loads of the log, and the log shown
  knows,    \* history: the pages that read, or made, the last change of a column
  failed,   \* history: answers that told of no success: "told", "untold"
  tangled,  \* history: pages whose reassignment met another request of theirs
  done

recordVars == <<surface, filed, trail, sight, asking, logging, knows, failed, tangled, done>>

Controls == {"edit", "key", "types", "status", "move"}
ProfileColumns == {"active", "role", "skills", "notes", "apikey"}
AssignedColumns == {"types", "status", "assignee"}
Columns == ProfileColumns \cup Yubikeys \cup AssignedColumns
Standings == {"pending", "in_progress", "completed"}
Values == {"yes", "no", "unborn", "there", "gone", "unassigned"} \cup Ranked \cup Writings \cup {Blank}
            \cup Standings \cup Assignees
Records == [Columns -> Values]

AsIs == "as it is"
Changes == [Columns -> Values \cup {AsIs}]
NoChange == [f \in Columns |-> AsIs]

ASSUME ValuesAssumption == AsIs \notin Values /\ Lowest \in Ranked
ASSUME YubikeysAssumption == Yubikeys \cap (ProfileColumns \cup AssignedColumns) = {}

Deeds == {"toggle", "grant", "skills", "notes", "yoink", "unyoink", "remove",
          "roll", "revoke", "types", "status", "move"}

Quiescent == [pc |-> "none"]
Loadings == [asked : Nat, answers : SUBSET Nat, shows : Nat, own : Nat, late : BOOLEAN]
Requests == [pc : {"sent", "written", "ok"}, op : Deeds, to : Changes, at : Nat, back : Records]

RecordTypeOK ==
  /\ surface \in Surfaces
  /\ filed \in Records /\ trail \in Nat /\ done \in Nat
  /\ sight \in [Visits -> [read : SUBSET {"user", "keys"}, row : Records]]
  /\ asking \in [Visits -> [Controls -> Requests \cup {Quiescent}]]
  /\ logging \in [Visits -> Loadings]
  /\ knows \in [Columns -> SUBSET Visits]
  /\ failed \in [Visits -> SUBSET {"told", "untold"}]
  /\ tangled \subseteq Visits

(* A user with some of his keys registered; an assignment to nobody yet.     *)
FirstRow(there) ==
  [f \in Columns |-> CASE f = "active" -> "yes" [] f = "role" -> Lowest
                       [] f = "status" -> "unassigned"
                       [] f \in Yubikeys -> (IF f \in there THEN "there" ELSE "unborn")
                       [] OTHER -> Blank]

RecordInit ==
  /\ surface \in Surfaces
  /\ \E there \in SUBSET Yubikeys : filed = FirstRow(there)
  /\ trail = 0 /\ done = 0
  /\ sight = [v \in Visits |-> [read |-> {}, row |-> filed]]
  /\ asking = [v \in Visits |-> [c \in Controls |-> Quiescent]]
  /\ logging = [v \in Visits |-> [asked |-> 0, answers |-> {}, shows |-> 0, own |-> 0, late |-> FALSE]]
  /\ knows = [f \in Columns |-> {}]
  /\ failed = [v \in Visits |-> {}] /\ tangled = {}

------------------------------------------------------------------------------
(* Opening the page: queries side by side, or one.  The log it begins with   *)
(* has nothing of its own.                                                   *)

Profile == surface = "profile"
Queries == IF Profile THEN {"user", "keys"} ELSE {"user"}
Selects(query) ==
  IF query = "keys" THEN Yubikeys ELSE IF Profile THEN ProfileColumns ELSE AssignedColumns

ReadFor(v, query) ==
  /\ query \in Queries \ sight[v].read
  /\ sight' = [sight EXCEPT ![v] =
       [read |-> @.read \cup {query},
        row |-> [f \in Columns |-> IF f \in Selects(query) THEN filed[f] ELSE @.row[f]]]]
  /\ knows' = [f \in Columns |-> IF f \in Selects(query) THEN knows[f] \cup {v} ELSE knows[f]]
  /\ UNCHANGED <<surface, filed, trail, asking, logging, failed, tangled, done>>

AllRead(v) == Queries \subseteq sight[v].read
Sees(v, f) == sight[v].row[f]

------------------------------------------------------------------------------
(* What each route writes: the columns it sets; the others stay.             *)

ActiveTo(x) == [NoChange EXCEPT !["active"] = x]
RoleTo(role) == [NoChange EXCEPT !["role"] = role]
SkillsTo(skills) == [NoChange EXCEPT !["skills"] = skills]
NotesTo(text) == [NoChange EXCEPT !["notes"] = text]

(* The sessions go too, which Sessions models.                               *)
AllGone ==
  [f \in Columns |-> CASE f = "active" -> "no" [] f = "role" -> Lowest
                       [] f \in Yubikeys -> "gone" [] OTHER -> AsIs]
AccessBack == [NoChange EXCEPT !["active"] = "yes"]
KeyGone(k) == [NoChange EXCEPT ![k] = "gone"]
ApiKeyTo(key) == [NoChange EXCEPT !["apikey"] = key]
NoApiKey == [NoChange EXCEPT !["apikey"] = Blank]
(* The page's repoUrl goes back with the types, as it was: nobody changes it. *)
TypesTo(types) == [NoChange EXCEPT !["types"] = types]
StatusTo(status) == [NoChange EXCEPT !["status"] = status]
HandedTo(assignee) == [NoChange EXCEPT !["assignee"] = assignee, !["status"] = "pending"]

------------------------------------------------------------------------------
(* What the controls ask for                                                 *)

Awaits(v, c) == asking[v][c].pc # "none"

(* The form gives way to its first error; the profile shows it and goes on.  *)
Usable(v) == AllRead(v) /\ (~Profile => "told" \notin failed[v])

(* One request of a control at a time.                                       *)
Press(v, c, op, to) ==
  /\ done < MaxAlters /\ done' = done + 1
  /\ Usable(v) /\ ~Awaits(v, c)
  /\ asking' = [asking EXCEPT ![v][c] =
       [pc |-> "sent", op |-> op, to |-> to, at |-> 0, back |-> [f \in Columns |-> Blank]]]
  /\ tangled' = IF (c = "move" /\ \E d \in Controls : Awaits(v, d)) \/ Awaits(v, "move")
                  THEN tangled \cup {v} ELSE tangled
  /\ UNCHANGED <<surface, filed, trail, sight, logging, knows, failed>>

Other(x) == IF x = "yes" THEN "no" ELSE "yes"

FlipActive(v) == Profile /\ Press(v, "edit", "toggle", ActiveTo(Other(Sees(v, "active"))))
Grant(v, role) == Profile /\ role # Sees(v, "role") /\ Press(v, "edit", "grant", RoleTo(role))
SaveSkills(v, skills) == Profile /\ Press(v, "edit", "skills", SkillsTo(skills))
SaveNotes(v, text) == Profile /\ Press(v, "edit", "notes", NotesTo(text))
YoinkThem(v) == Profile /\ Sees(v, "active") = "yes" /\ Press(v, "edit", "yoink", AllGone)
BringBack(v) == Profile /\ Sees(v, "active") = "no" /\ Press(v, "edit", "unyoink", AccessBack)
RemoveKey(v, k) == Profile /\ Sees(v, k) = "there" /\ Press(v, "edit", "remove", KeyGone(k))

(* The new key is random.                                                    *)
RollKey(v, key) ==
  Profile /\ key # filed["apikey"] /\ Press(v, "key", "roll", ApiKeyTo(key))
RevokeKey(v) == Profile /\ Sees(v, "apikey") # Blank /\ Press(v, "key", "revoke", NoApiKey)

SaveTypes(v, types) == ~Profile /\ Press(v, "types", "types", TypesTo(types))
Update(v, status) ==
  ~Profile /\ status # Sees(v, "status") /\ Press(v, "status", "status", StatusTo(status))
MoveTo(v, assignee) == ~Profile /\ Press(v, "move", "move", HandedTo(assignee))

------------------------------------------------------------------------------
(* The handlers                                                              *)

(* A row with a change made to it; of keys only one that is there goes.      *)
With(row, to) ==
  [f \in Columns |-> IF to[f] # AsIs /\ (f \in Yubikeys => row[f] = "there")
                       THEN to[f] ELSE row[f]]

(* A key already removed is not found.                                       *)
Carry(v, c) ==
  LET r == asking[v][c] IN
    /\ r.pc = "sent"
    /\ r.op = "remove" => \A k \in Yubikeys : r.to[k] # AsIs => filed[k] = "there"
    /\ filed' = With(filed, r.to)
    /\ knows' = [f \in Columns |-> IF r.to[f] # AsIs THEN {v} ELSE knows[f]]
    /\ asking' = [asking EXCEPT ![v][c] = [@ EXCEPT !.pc = "written", !.back = filed']]
    /\ UNCHANGED <<surface, trail, sight, logging, failed, tangled, done>>

(* Then the log, but for one's own skills.                                   *)
Enter(v, c) ==
  /\ asking[v][c].pc = "written"
  /\ trail' \in (IF ~Profile THEN {trail}
                 ELSE IF asking[v][c].op = "skills" THEN {trail, trail + 1} ELSE {trail + 1})
  /\ asking' = [asking EXCEPT ![v][c] = [@ EXCEPT !.pc = "ok", !.at = trail']]
  /\ UNCHANGED <<surface, filed, sight, logging, knows, failed, tangled, done>>

------------------------------------------------------------------------------
(* What the page makes of the answers                                        *)

(* Fault: the whole row as the handler left it, for every control.           *)
ShownAfterStale(v, r) == r.back

(* A toggle turns what is shown; a reassignment's answer replaces it.        *)
ShownAfter(v, r) ==
  CASE r.op = "toggle" -> [sight[v].row EXCEPT !["active"] = Other(@)]
    [] r.op = "move" -> [f \in Columns |-> IF f \in AssignedColumns THEN r.back[f] ELSE Sees(v, f)]
    [] OTHER -> With(sight[v].row, r.to)

(* Loads of the log, which may overlap, and fail unheard.                    *)
LogBegun(l, at, overlaps) == [l EXCEPT !.asked = @ + 1, !.own = at, !.late = @ \/ overlaps]
LogServed(l, n) == [l EXCEPT !.asked = @ - 1, !.answers = @ \cup {n}]
LogShown(l, n) == [l EXCEPT !.answers = @ \ {n}, !.shows = n]
LogLost(l) == [l EXCEPT !.asked = @ - 1, !.late = TRUE]

Looking(v) == logging[v].asked > 0 \/ logging[v].answers # {}

TakeIn(v, c) ==
  LET r == asking[v][c] IN
    /\ r.pc = "ok"
    /\ sight' = [sight EXCEPT ![v].row = ShownAfter(v, r)]
    /\ asking' = [asking EXCEPT ![v][c] = Quiescent]
    /\ logging' = IF c = "edit"
                    THEN [logging EXCEPT ![v] = LogBegun(@, r.at, Looking(v))] ELSE logging
    /\ UNCHANGED <<surface, filed, trail, knows, failed, tangled, done>>

(* Refused, cut off before or after the write, or lost.  The page shows an   *)
(* error that never goes; of an api key nothing is said, or in passing.      *)
Unheard(v, c) ==
  /\ Awaits(v, c)
  /\ asking' = [asking EXCEPT ![v][c] = Quiescent]
  /\ failed' = [failed EXCEPT ![v] = @ \cup {IF c = "key" THEN "untold" ELSE "told"}]
  /\ UNCHANGED <<surface, filed, trail, sight, logging, knows, tangled, done>>

ServeLog(v) ==
  /\ logging[v].asked > 0
  /\ logging' = [logging EXCEPT ![v] = LogServed(@, trail)]
  /\ UNCHANGED <<surface, filed, trail, sight, asking, knows, failed, tangled, done>>

ShowLog(v, n) ==
  /\ n \in logging[v].answers
  /\ logging' = [logging EXCEPT ![v] = LogShown(@, n)]
  /\ UNCHANGED <<surface, filed, trail, sight, asking, knows, failed, tangled, done>>

FailLog(v) ==
  /\ logging[v].asked > 0
  /\ logging' = [logging EXCEPT ![v] = LogLost(@)]
  /\ UNCHANGED <<surface, filed, trail, sight, asking, knows, failed, tangled, done>>

------------------------------------------------------------------------------
(* What changes the row without these pages: its user, internal routes       *)

Becomes(f) ==
  CASE f = "active" -> {"yes", "no"} [] f = "role" -> Ranked
    [] f \in Yubikeys -> (IF filed[f] = "unborn" THEN {"there"} ELSE {"gone"})
    [] f = "status" -> Standings [] f = "assignee" -> Assignees
    [] OTHER -> Writings \cup {Blank}

ChangedElsewhere(f) ==
  /\ done < MaxAlters /\ done' = done + 1
  /\ \E query \in Queries : f \in Selects(query)
  /\ \E x \in Becomes(f) \ {filed[f]} : filed' = [filed EXCEPT ![f] = x]
  /\ knows' = [knows EXCEPT ![f] = {}]
  /\ UNCHANGED <<surface, trail, sight, asking, logging, failed, tangled>>

Edits(v) ==
  \/ FlipActive(v) \/ YoinkThem(v) \/ BringBack(v) \/ RevokeKey(v)
  \/ \E role \in Ranked : Grant(v, role)
  \/ \E k \in Yubikeys : RemoveKey(v, k)
  \/ \E x \in Writings \cup {Blank} : SaveSkills(v, x) \/ SaveNotes(v, x)
  \/ \E x \in Writings : RollKey(v, x) \/ SaveTypes(v, x)
  \/ \E s \in Standings : Update(v, s)
  \/ \E a \in Assignees : MoveTo(v, a)

RecordNext ==
  \/ \E v \in Visits :
       \/ \E query \in Queries : ReadFor(v, query)
       \/ Edits(v)
       \/ \E c \in Controls : Carry(v, c) \/ Enter(v, c) \/ TakeIn(v, c) \/ Unheard(v, c)
       \/ ServeLog(v) \/ FailLog(v) \/ \E n \in logging[v].answers : ShowLog(v, n)
  \/ \E f \in Columns : ChangedElsewhere(f)

RecordSpec == RecordInit /\ [][RecordNext]_recordVars

------------------------------------------------------------------------------
(* Properties                                                                *)

Same(f, x, y) == IF f \in Yubikeys THEN (x = "there") <=> (y = "there") ELSE x = y
OnItsWay(v, f) ==
  \E c \in Controls : asking[v][c].pc \in {"written", "ok"} /\ asking[v][c].to[f] # AsIs

(* However the requests of several pages, of two controls of one page and    *)
(* changes made elsewhere fall: the page that made or read the last change   *)
(* of a column shows what the row has, unless its answer is still to come,   *)
(* an error is shown (of an api key, a request went wrong), or an answer to  *)
(* a reassignment may have overwritten it (user-profile.tsx:79-215,          *)
(* useAssignmentActions.tsx:87-181); and the log on screen has the page's    *)
(* own last change once it was loaded, unless two loads overlapped (70-78).  *)
RecordIsShown ==
  \A v \in Visits : AllRead(v) =>
    /\ v \notin tangled => \A f \in Columns :
         \/ v \notin knows[f] \/ OnItsWay(v, f)
         \/ (IF f = "apikey" THEN "untold" ELSE "told") \in failed[v]
         \/ Same(f, Sees(v, f), filed[f])
    /\ ~Looking(v) /\ ~logging[v].late => logging[v].shows >= logging[v].own
=============================================================================
