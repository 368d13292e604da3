------------------------------ MODULE PageNotes ------------------------------
(***************************************************************************)
(* A page that lists what people wrote and lets its user write more: the     *)
(* notes of a ship (hooks/useShipCert.tsx), the messages of a ticket         *)
(* (useTicketActions.ts) and the notes of an assignment                     *)
(* (useAssignmentActions.tsx).  The page shows an entry before or after the  *)
(* server has it, and answers of loads replace what it shows; requests and   *)
(* loads overlap.  Somebody else writes to the same column meanwhile.        *)
(***************************************************************************)
EXTENDS Naturals, FiniteSets

CONSTANTS
  Pages,    \* "ship", "ticket", "assignment"
  Mine,     \* entries this page's user may write
  Theirs,   \* entries written elsewhere
  Loads,    \* slots for loads in progress
  MaxLoads  \* bound: loads begun

Entries == Mine \cup Theirs

ASSUME EntriesAssumption == Pages \subseteq {"ship", "ticket", "assignment"} /\ Mine \cap Theirs = {}

VARIABLES
  page,      \* which of the Pages
  stored,    \* what the server has
  version,   \* counts the writes to it
  request,       \* [Entries -> ...]: the request that writes or deletes an entry
  listed,    \* what the page shows: <<entry, how>>
  load,      \* [Loads -> ...]: GET in progress
  due,       \* loads that something asked for and that are to begin
  begun,
  newest,    \* the version the page last heard of
  astray     \* history: what the page shows can no longer be right (see below)

noteVars == <<page, stored, version, request, listed, load, due, begun, newest, astray>>

RequestPc == {"none", "write", "written", "told", "kept", "drop", "dropped", "gone"}
NoLoad == [pc |-> "idle", got |-> {}, at |-> 0]

NotesTypeOK ==
  /\ page \in Pages
  /\ stored \subseteq Entries
  /\ {version, due, begun, newest} \subseteq Nat
  /\ request \in [Entries -> [pc : RequestPc, old : SUBSET Entries, read : BOOLEAN, at : Nat]]
  /\ listed \subseteq Entries \X {"temp", "real"}
  /\ load \in [Loads -> [pc : {"idle", "asked", "back"}, got : SUBSET Entries, at : Nat]]
  /\ astray \in BOOLEAN

(* A ship or a ticket is shown once its first load is back; an assignment    *)
(* while the load of its notes is still to come.                             *)
NotesInit ==
  /\ page \in Pages
  /\ stored = {} /\ version = 0 /\ listed = {}
  /\ request = [n \in Entries |-> [pc |-> "none", old |-> {}, read |-> FALSE, at |-> 0]]
  /\ load = [l \in Loads |-> NoLoad]
  /\ due = IF page = "assignment" THEN 1 ELSE 0
  /\ begun = 0 /\ newest = 0 /\ astray = FALSE

Loading == due > 0 \/ \E l \in Loads : load[l].pc # "idle"
Later(v) == IF v > newest THEN v ELSE newest
Column == page # "ticket"  \* entries are one JSON column, else rows
Hears == page # "assignment"

------------------------------------------------------------------------------
(* Writing an entry                                                          *)

(* The entry shows at once, marked temporary, on a ship and a ticket; an    *)
(* assignment takes one at a time.  An assignment's note written while its   *)
(* notes are loading may come to show twice or not at all.                   *)
Save(n) ==
  /\ n \in Mine /\ request[n].pc = "none"
  /\ page = "assignment" => \A m \in Mine : request[m].pc \notin {"write", "written", "told"}
  /\ listed' = IF page = "assignment" THEN listed ELSE listed \cup {<<n, "temp">>}
  /\ astray' = (astray \/ (page = "assignment" /\ Loading))
  /\ request' = [request EXCEPT ![n].pc = "write"]
  /\ UNCHANGED <<page, stored, version, load, due, begun, newest>>

SaveElsewhere(n) ==
  /\ n \in Theirs /\ request[n].pc = "none"
  /\ request' = [request EXCEPT ![n].pc = "write"]
  /\ UNCHANGED <<page, stored, version, listed, load, due, begun, newest, astray>>

(* The column is read, then written whole.                                  *)
ReadColumn(n) ==
  /\ Column /\ request[n].pc \in {"write", "drop"} /\ ~request[n].read
  /\ request' = [request EXCEPT ![n].old = stored, ![n].read = TRUE]
  /\ UNCHANGED <<page, stored, version, listed, load, due, begun, newest, astray>>

(* A page that hears of no change cannot know that a write lost another's.   *)
Store(n, base, pc) ==
  /\ stored' = IF pc = "written" THEN base \cup {n} ELSE base \ {n}
  /\ version' = version + 1
  /\ request' = [request EXCEPT ![n] = [@ EXCEPT !.pc = pc, !.old = {}, !.read = FALSE, !.at = version + 1]]
  /\ astray' = (astray \/ (~Hears /\ base # stored))

WriteEntry(n) ==
  /\ request[n].pc = "write" /\ (Column => request[n].read)
  /\ Store(n, IF Column THEN request[n].old ELSE stored, "written")
  /\ UNCHANGED <<page, listed, load, due, begun, newest>>

(* The bot is told, and tells every page of the ship, or of the ticket.     *)
TellPages(n) ==
  /\ request[n].pc = "written"
  /\ due' = IF Hears THEN due + 1 ELSE due
  /\ request' = [request EXCEPT ![n].pc = IF n \in Mine THEN "told" ELSE "kept"]
  /\ UNCHANGED <<page, stored, version, listed, load, begun, newest, astray>>

(* Fault: the stored entry comes beside the temporary one.                   *)
AnsweredBeside(n) == listed \cup {<<n, "real">>}

(* A ship's temporary entry, if a load has not replaced it, becomes the      *)
(* stored one; a ticket's goes, and a load follows; an assignment's comes.   *)
Answered(n) ==
  CASE page = "ship" -> IF <<n, "temp">> \in listed
                          THEN (listed \ {<<n, "temp">>}) \cup {<<n, "real">>} ELSE listed
    [] page = "ticket" -> listed \ {<<n, "temp">>}
    [] OTHER -> listed \cup {<<n, "real">>}

Answer(n) ==
  /\ request[n].pc = "told"
  /\ listed' = Answered(n)
  /\ newest' = Later(request[n].at)
  /\ due' = IF page = "ticket" THEN due + 1 ELSE due
  /\ request' = [request EXCEPT ![n].pc = "kept"]
  /\ UNCHANGED <<page, stored, version, load, begun, astray>>

(* The request fails, before the entry is stored or, after it, in the log,  *)
(* the pushes or the call of the bot: the page takes the entry back.        *)
RefuseEntry(n) ==
  /\ request[n].pc \in {"write", "written"}
  /\ listed' = listed \ {<<n, "temp">>}
  /\ astray' = (astray \/ request[n].pc = "written")
  /\ request' = [request EXCEPT ![n] = [@ EXCEPT !.pc = "gone", !.old = {}, !.read = FALSE]]
  /\ UNCHANGED <<page, stored, version, load, due, begun, newest>>

------------------------------------------------------------------------------
(* Deleting one                                                              *)

Delete(n) ==
  /\ Column /\ n \in Mine /\ request[n].pc = "kept" /\ <<n, "real">> \in listed
  /\ request' = [request EXCEPT ![n].pc = "drop"]
  /\ UNCHANGED <<page, stored, version, listed, load, due, begun, newest, astray>>

WriteDelete(n) ==
  /\ request[n].pc = "drop" /\ request[n].read
  /\ Store(n, request[n].old, "dropped")
  /\ UNCHANGED <<page, listed, load, due, begun, newest>>

(* The request fails: the note stays.                                       *)
DeleteFails(n) ==
  /\ request[n].pc = "drop"
  /\ request' = [request EXCEPT ![n] = [@ EXCEPT !.pc = "kept", !.old = {}, !.read = FALSE]]
  /\ UNCHANGED <<page, stored, version, listed, load, due, begun, newest, astray>>

(* A ship is loaded again; an assignment's note is taken off the page.      *)
DeleteAnswer(n) ==
  /\ request[n].pc = "dropped"
  /\ listed' = IF page = "ship" THEN listed ELSE listed \ {<<n, "real">>}
  /\ due' = IF page = "ship" THEN due + 1 ELSE due
  /\ newest' = Later(request[n].at)
  /\ request' = [request EXCEPT ![n].pc = "gone"]
  /\ UNCHANGED <<page, stored, version, load, begun, astray>>

------------------------------------------------------------------------------
(* Loads                                                                     *)

(* One that is due, or one for another reason: a claim, a note deleted, an   *)
(* assignee; an assignment loads its notes once.                            *)
Ask(l) ==
  /\ load[l].pc = "idle" /\ begun < MaxLoads
  /\ due > 0 \/ Hears
  /\ due' = IF due > 0 THEN due - 1 ELSE due
  /\ begun' = begun + 1
  /\ load' = [load EXCEPT ![l].pc = "asked"]
  /\ UNCHANGED <<page, stored, version, request, listed, newest, astray>>

ServeLoad(l) ==
  /\ load[l].pc = "asked"
  /\ load' = [load EXCEPT ![l] = [pc |-> "back", got |-> stored, at |-> version]]
  /\ UNCHANGED <<page, stored, version, request, listed, due, begun, newest, astray>>

(* The answer replaces what the page shows; a ticket keeps the temporary.    *)
Loaded(got) ==
  (got \X {"real"}) \cup IF page = "ticket" THEN {e \in listed : e[2] = "temp"} ELSE {}

Apply(l) ==
  /\ load[l].pc = "back"
  /\ listed' = Loaded(load[l].got)
  /\ newest' = Later(load[l].at)
  /\ astray' = (astray \/ load[l].at < newest)
  /\ load' = [load EXCEPT ![l] = NoLoad]
  /\ UNCHANGED <<page, stored, version, request, due, begun>>

(* The load fails, or nobody told the page: it never looks.                 *)
Unheard ==
  /\ due > 0
  /\ due' = due - 1
  /\ astray' = TRUE
  /\ UNCHANGED <<page, stored, version, request, listed, load, begun, newest>>

NotesNext ==
  \/ \E n \in Entries :
       \/ Save(n) \/ SaveElsewhere(n) \/ ReadColumn(n) \/ WriteEntry(n) \/ TellPages(n) \/ Answer(n)
       \/ RefuseEntry(n)
       \/ Delete(n) \/ WriteDelete(n) \/ DeleteFails(n) \/ DeleteAnswer(n)
  \/ \E l \in Loads : Ask(l) \/ ServeLoad(l) \/ Apply(l)
  \/ Unheard

NotesSpec == NotesInit /\ [][NotesNext]_noteVars

------------------------------------------------------------------------------
(* Properties                                                                *)

Quiet == ~Loading /\ \A n \in Entries : request[n].pc \in {"none", "kept", "gone"}

(* When every request and load is over, the page shows of its user's entries *)
(* exactly those the server has, each once, in whatever order answers and    *)
(* loads came (useShipCert.tsx:211-292, useTicketActions.ts:33-145,        *)
(* useAssignmentActions.tsx:183-223); unless a load's answer was older than  *)
(* what the page had heard, no load came of a change, a request failed after *)
(* it stored the entry, or an assignment's note met the first load or        *)
(* another's write.  A ship's note never shows twice on the way.             *)
PageSettles ==
  ~astray =>
    /\ Quiet => {e \in listed : e[1] \in Mine} = (stored \cap Mine) \X {"real"}
    /\ page = "ship" => \A n \in Mine : {<<n, "temp">>, <<n, "real">>} \cap listed # {<<n, "temp">>, <<n, "real">>}
=============================================================================
