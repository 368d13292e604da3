----------------------------- MODULE ReviewPage -----------------------------
(***************************************************************************)
(* The page of a YSWS review (ysws_reviews/[id]/page.tsx, review.tsx): the   *)
(* verdict and minutes of each devlog, kept by the page from its opening on, *)
(* the checklist, the dialogs, and three requests that do not wait for each  *)
(* other: complete or return, undo, forced reload.  YswsReview has the row   *)
(* under requests that do not overlap.                                       *)
(***************************************************************************)
EXTENDS Integers

CONSTANTS
  Logs,       \* devlogs
  Orig,       \* [Logs -> Nat]: their minutes
  Cap,        \* the cap: 600
  Cuts,       \* what the buttons take off: {30, 60}
  Typed,      \* minutes typed in
  Links,      \* the ship's demo and repository
  MaxMarkings, \* bound: markings of the marks
  MaxSent,    \* bound: requests
  MaxElsewhere \* bound: devlogs posted or deleted, acts of another tab

ASSUME OrigAssumption == Orig \in [Logs -> Nat] /\ Cuts \cup Typed \subseteq Int /\ Cap \in Nat

VARIABLES
  onFlavor,  \* the project's devlogs on Flavortown
  row,       \* the review: status, devlogs, decisions, reason
  view,      \* the page's data, as of the last refresh: status and devlogs
  marks,     \* the page's verdicts: a function from devlogs
  tab,      \* the page's flags and links opened
  submit,    \* complete or return on its way
  undoing,   \* undo on its way
  reload,    \* forced reload on its way
  markings, sent, elsewhere,
  kept,      \* history: the verdicts that were submitted and nothing since may
             \* have touched
  wiped      \* history: devlogs an undo, or a load that did not find them, left
             \* without an entry

reviewPageVars == <<onFlavor, row, view, marks, tab, submit, undoing, reload, markings, sent, elsewhere, kept, wiped>>

Marks == {"pending", "approved", "rejected"}
Untouched == [mark |-> "pending", mins |-> 0]
NoSubmit == [pc |-> "idle", action |-> "complete", marks |-> <<>>, reason |-> FALSE, seen |-> <<>>, gone |-> {}, ok |-> FALSE]
NoReload == [pc |-> "idle", seen |-> <<>>]
NewDesk == [busy |-> FALSE, opened |-> {}, here |-> TRUE]

(* How a devlog shows: undecided ones with all their minutes.                *)
Shown(dec, d) == IF d \in DOMAIN dec THEN dec[d] ELSE [mark |-> "pending", mins |-> Orig[d]]
Opened(logs, dec) == [d \in logs |-> Shown(dec, d)]

ReviewPageTypeOK ==
  /\ onFlavor \subseteq Logs /\ row.logs \subseteq Logs /\ view.logs \subseteq Logs
  /\ row.status \in {"pending", "done", "returned"} /\ view.status \in {"pending", "done", "returned"}
  /\ DOMAIN row.dec \subseteq Logs /\ DOMAIN marks \subseteq Logs
  /\ \A d \in DOMAIN marks : marks[d].mark \in Marks /\ marks[d].mins \in Int
  /\ submit.pc \in {"idle", "read", "write", "back"} /\ undoing \in {"idle", "sent", "back"}
  /\ reload.pc \in {"idle", "read", "write", "back"}
  /\ (row.status = "returned") = row.reason /\ wiped \subseteq Logs

ReviewPageInit ==
  /\ onFlavor \in SUBSET Logs
  /\ row = [status |-> "pending", logs |-> onFlavor, dec |-> [d \in onFlavor |-> Shown(<<>>, d)], reason |-> FALSE]
  /\ view = [status |-> "pending", logs |-> onFlavor]
  /\ marks = Opened(onFlavor, row.dec)
  /\ tab = NewDesk /\ submit = NoSubmit /\ undoing = "idle" /\ reload = NoReload
  /\ markings = 0 /\ sent = 0 /\ elsewhere = 0 /\ kept = <<>> /\ wiped = Logs \ onFlavor

Send == sent < MaxSent /\ sent' = sent + 1
Elsewhere == elsewhere < MaxElsewhere /\ elsewhere' = elsewhere + 1

------------------------------------------------------------------------------
(* Elsewhere                                                                 *)

DevlogsChange ==
  /\ Elsewhere
  /\ \E d \in Logs : onFlavor' = IF d \in onFlavor THEN onFlavor \ {d} ELSE onFlavor \cup {d}
  /\ UNCHANGED <<row, view, marks, tab, submit, undoing, reload, markings, sent, kept, wiped>>

(* Another reviewer closes the review, with verdicts of his own.             *)
OtherCloses ==
  /\ Elsewhere
  /\ row' = [row EXCEPT !.status = "done", !.reason = FALSE,
                        !.dec = [d \in DOMAIN row.dec |-> [mark |-> "rejected", mins |-> 0]]]
  /\ kept' = <<>>
  /\ UNCHANGED <<onFlavor, view, marks, tab, submit, undoing, reload, markings, sent, wiped>>

------------------------------------------------------------------------------
(* The marks                                                                 *)

Edit == tab.here /\ markings < MaxMarkings /\ markings' = markings + 1

(* upd(): a devlog that came with a reload is shown, but not on the marks.   *)
Upd(d, entry) ==
  /\ d \in view.logs
  /\ marks' = [x \in DOMAIN marks |-> IF x = d THEN entry ELSE marks[x]]

Quick(d) == {Orig[d] \div 2, Orig[d] \div 4, Orig[d]} \cup {Orig[d] - c : c \in Cuts}

MarkOne(d) ==
  /\ Edit /\ d \in DOMAIN marks
  /\ \/ Upd(d, [marks[d] EXCEPT !.mark = "approved"])
     \/ Upd(d, [mark |-> "rejected", mins |-> 0])
     \/ \E n \in Quick(d) \cup Typed : Upd(d, [marks[d] EXCEPT !.mins = n])
  /\ UNCHANGED <<onFlavor, row, view, tab, submit, undoing, reload, sent, elsewhere, kept, wiped>>

MarkAll ==
  /\ Edit
  /\ \/ marks' = [d \in DOMAIN marks |-> [marks[d] EXCEPT !.mark = "approved"]]
     \/ marks' = [d \in DOMAIN marks |-> [mark |-> "rejected", mins |-> 0]]
     \/ marks' = [d \in DOMAIN marks |-> [marks[d] EXCEPT !.mins = IF @ > Cap THEN Cap ELSE @]]
  /\ UNCHANGED <<onFlavor, row, view, tab, submit, undoing, reload, sent, elsewhere, kept, wiped>>

------------------------------------------------------------------------------
(* Complete and return                                                       *)

OpenLink(l) ==
  /\ tab.here /\ tab' = [tab EXCEPT !.opened = @ \cup {l}]
  /\ UNCHANGED <<onFlavor, row, view, marks, submit, undoing, reload, markings, sent, elsewhere, kept, wiped>>

(* A return is sent from a dialog, with a reason at least.                   *)
Submit(action) ==
  /\ tab.here /\ ~tab.busy /\ submit.pc = "idle" /\ Send
  /\ action = "complete" => Links \subseteq tab.opened
  /\ tab' = [tab EXCEPT !.busy = TRUE]
  /\ submit' = [NoSubmit EXCEPT !.pc = "read", !.action = action, !.marks = marks,
                                !.reason = action = "return"]
  /\ UNCHANGED <<onFlavor, row, view, marks, undoing, reload, markings, elsewhere, kept, wiped>>

SubmitRead ==
  /\ submit.pc = "read"
  /\ submit' = [submit EXCEPT !.pc = "write", !.seen = row.dec, !.gone = wiped]
  /\ UNCHANGED <<onFlavor, row, view, marks, tab, undoing, reload, markings, sent, elsewhere, kept, wiped>>

(* Fault: a devlog decided before keeps its decision.                        *)
JoinedOnce(dec, page) ==
  [d \in DOMAIN dec |-> IF d \in DOMAIN page /\ dec[d].mark = "pending" THEN page[d] ELSE dec[d]]

(* The row's entries, with the page's verdict where it has one.              *)
Joined(dec, page) ==
  [d \in DOMAIN dec |-> IF d \in DOMAIN page THEN page[d] ELSE dec[d]]

SubmitWrite ==
  /\ submit.pc = "write"
  /\ row' = [row EXCEPT !.status = IF submit.action = "complete" THEN "done" ELSE "returned",
                        !.reason = submit.reason, !.dec = Joined(submit.seen, submit.marks)]
  /\ submit' = [submit EXCEPT !.pc = "back", !.ok = TRUE]
  /\ kept' = IF reload.pc = "write" THEN <<>>
             ELSE [d \in DOMAIN submit.marks \ submit.gone |-> submit.marks[d]]
  /\ wiped' = submit.gone
  /\ UNCHANGED <<onFlavor, view, marks, tab, undoing, reload, markings, sent, elsewhere>>

SubmitFails ==
  /\ submit.pc \in {"read", "write"}
  /\ submit' = [submit EXCEPT !.pc = "back"]
  /\ UNCHANGED <<onFlavor, row, view, marks, tab, undoing, reload, markings, sent, elsewhere, kept, wiped>>

(* A refused or failed submission leaves the page as it was.                 *)
Submitted ==
  /\ submit.pc = "back"
  /\ submit' = NoSubmit
  /\ tab' = IF submit.ok THEN [tab EXCEPT !.here = FALSE, !.busy = FALSE] ELSE [tab EXCEPT !.busy = FALSE]
  /\ UNCHANGED <<onFlavor, row, view, marks, undoing, reload, markings, sent, elsewhere, kept, wiped>>

------------------------------------------------------------------------------
(* Undo and forced reload                                                    *)

Undo ==
  /\ tab.here /\ view.status = "done" /\ undoing = "idle" /\ Send
  /\ undoing' = "sent"
  /\ UNCHANGED <<onFlavor, row, view, marks, tab, submit, reload, markings, elsewhere, kept, wiped>>

(* Fault: the reason of a return outlives it.                                *)
UndoServedHalf ==
  /\ undoing = "sent"
  /\ row' = [row EXCEPT !.status = "pending", !.dec = <<>>]
  /\ undoing' = "back" /\ kept' = <<>> /\ wiped' = Logs
  /\ UNCHANGED <<onFlavor, view, marks, tab, submit, reload, markings, sent, elsewhere>>

UndoServed ==
  /\ undoing = "sent"
  /\ row' = [row EXCEPT !.status = "pending", !.reason = FALSE, !.dec = <<>>]
  /\ undoing' = "back" /\ kept' = <<>> /\ wiped' = Logs
  /\ UNCHANGED <<onFlavor, view, marks, tab, submit, reload, markings, sent, elsewhere>>

Refreshed == view' = [status |-> row.status, logs |-> row.logs]

(* router.refresh() renews the data; the marks stays.                        *)
UndoBack ==
  /\ undoing = "back" /\ undoing' = "idle"
  /\ IF tab.here THEN Refreshed ELSE UNCHANGED view
  /\ UNCHANGED <<onFlavor, row, marks, tab, submit, reload, markings, sent, elsewhere, kept, wiped>>

(* Confirmed in a dialog.                                                   *)
Reload ==
  /\ tab.here /\ reload.pc = "idle" /\ Send
  /\ reload' = [NoReload EXCEPT !.pc = "read"]
  /\ UNCHANGED <<onFlavor, row, view, marks, tab, submit, undoing, markings, elsewhere, kept, wiped>>

ReloadRead ==
  /\ reload.pc = "read" /\ reload' = [pc |-> "write", seen |-> row.dec]
  /\ UNCHANGED <<onFlavor, row, view, marks, tab, submit, undoing, markings, sent, elsewhere, kept, wiped>>

(* A fetch that fails finds no devlogs, and goes on.                         *)
ReloadWrite(found) ==
  /\ reload.pc = "write"
  /\ row' = [row EXCEPT !.logs = found, !.dec = Opened(found, reload.seen)]
  /\ reload' = [reload EXCEPT !.pc = "back"]
  /\ kept' = [d \in DOMAIN kept \cap found |-> kept[d]]
  /\ wiped' = Logs \ found
  /\ UNCHANGED <<onFlavor, view, marks, tab, submit, undoing, markings, sent, elsewhere>>

ReloadBack ==
  /\ reload.pc = "back" /\ reload' = NoReload
  /\ IF tab.here THEN Refreshed ELSE UNCHANGED view
  /\ UNCHANGED <<onFlavor, row, marks, tab, submit, undoing, markings, sent, elsewhere, kept, wiped>>

(* The page is opened, or loaded again.                                      *)
OpenReview ==
  /\ submit.pc = "idle" /\ undoing = "idle" /\ reload.pc = "idle"
  /\ Refreshed /\ marks' = Opened(row.logs, row.dec) /\ tab' = NewDesk
  /\ UNCHANGED <<onFlavor, row, submit, undoing, reload, markings, sent, elsewhere, kept, wiped>>

ReviewPageNext ==
  \/ DevlogsChange \/ OtherCloses \/ \E d \in Logs : MarkOne(d)
  \/ MarkAll \/ \E l \in Links : OpenLink(l)
  \/ \E action \in {"complete", "return"} : Submit(action)
  \/ SubmitRead \/ SubmitWrite \/ SubmitFails \/ Submitted
  \/ Undo \/ UndoServed \/ UndoBack
  \/ Reload \/ ReloadRead \/ ReloadWrite(onFlavor) \/ ReloadWrite({}) \/ ReloadBack \/ OpenReview

ReviewPageSpec == ReviewPageInit /\ [][ReviewPageNext]_reviewPageVars

------------------------------------------------------------------------------
(* Properties                                                                *)

(* Every verdict a page submits is what the row records, and stays so        *)
(* whatever devlogs come and go, until an undo or another submission, or a   *)
(* reload that does not find the devlog, or one that had read the row before *)
(* it was written.  The row takes no verdict for a devlog it has no entry    *)
(* of: one an undo emptied or a reload did not find, and nothing else drops  *)
(* one (review.tsx:140-211, [id]/route.ts:98-121, refresh/route.ts:43-131).  *)
SheetIsRecord ==
  \A d \in DOMAIN kept : d \in DOMAIN row.dec /\ row.dec[d] = kept[d]
=============================================================================
