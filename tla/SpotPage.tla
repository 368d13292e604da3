------------------------------ MODULE SpotPage ------------------------------
(***************************************************************************)
(* A sitting of spot checks (spot_checks/[userId]/review/review.tsx): a list *)
(* of one reviewer's decided ships is drawn, each is approved or flagged,    *)
(* and a flag may draw more.  Every request works on the list and the place  *)
(* of the rendering in which it was clicked.  Below it, the page of the case *)
(* a flag opens (spot_checks/case/[caseId]/case.tsx), with its own variables:*)
(* it resolves the case, opens it again or declares it a false positive, and *)
(* loads the case anew after each.  Loads are not kept in order, and         *)
(* colleagues change the case too.                                           *)
(***************************************************************************)
EXTENDS Naturals, Sequences, FiniteSets, SequencesExt

CONSTANTS
  Decided,     \* the reviewer's approved and rejected ships
  Hands,       \* slots for requests on their way
  HowMany,      \* how many to check may be asked for
  Extras,      \* how many to add after a flag
  MaxClicks    \* bound: decisions sent

ASSUME SittingAssumption ==
  IsFiniteSet(Decided) /\ HowMany \subseteq Nat /\ Extras \subseteq Nat /\ MaxClicks \in Nat

VARIABLES
  checked,   \* ships with spotChecked set
  sheet,     \* what the page holds
  hand,      \* [Hands -> ...]: requests
  clicks,
  dealt,     \* history: the list as it was first dealt
  judged     \* history: ships whose decision was answered, kept or not

spotPageVars == <<checked, sheet, hand, clicks, dealt, judged>>

Resting == [kind |-> "none", pc |-> "idle", list |-> <<>>, at |-> 1, more |-> <<>>, extra |-> 0]

Sheet == [on : {"setup", "loading", "sitting"}, list : Seq(Decided), at : Nat \ {0},
          reviewed : Nat, dialog : {"none", "full", "keep"}, why : BOOLEAN, submitting : BOOLEAN,
          count : Nat, extra : Nat]
Hand == [kind : {"none", "approve", "full", "keep"},
         pc : {"idle", "sent", "adding", "answered", "thrown"},
         list : Seq(Decided), at : Nat, more : Seq(Decided), extra : Nat]

SpotPageTypeOK ==
  /\ checked \subseteq Decided /\ judged \subseteq Decided /\ dealt \in Seq(Decided)
  /\ sheet \in Sheet /\ hand \in [Hands -> Hand] /\ clicks \in 0..MaxClicks

SpotPageInit ==
  /\ checked = {} /\ dealt = <<>> /\ judged = {} /\ clicks = 0
  /\ sheet = [on |-> "setup", list |-> <<>>, at |-> 1, reviewed |-> 0, dialog |-> "none",
              why |-> FALSE, submitting |-> FALSE, count |-> 0, extra |-> 0]
  /\ hand = [h \in Hands |-> Resting]

(* A draw of ships not checked yet, none twice, as many as there are.        *)
Draws(n) ==
  LET left == Decided \ checked
      k == IF n < Cardinality(left) THEN n ELSE Cardinality(left)
  IN {s \in [1..k -> left] : IsInjective(s)}

StartSitting(n, extra) ==
  /\ sheet.on = "setup"
  /\ sheet' = [sheet EXCEPT !.on = "loading", !.count = n, !.extra = extra]
  /\ UNCHANGED <<checked, hand, clicks, dealt, judged>>

(* A refusal is an answer without ships, and the sitting is over at once.    *)
Started ==
  /\ sheet.on = "loading"
  /\ \E list \in Draws(sheet.count) \cup {<<>>} :
       /\ sheet' = [sheet EXCEPT !.on = "sitting", !.list = list]
       /\ dealt' = list
  /\ UNCHANGED <<checked, hand, clicks, judged>>

StartLost ==
  /\ sheet.on = "loading" /\ sheet' = [sheet EXCEPT !.on = "setup"]
  /\ UNCHANGED <<checked, hand, clicks, dealt, judged>>

------------------------------------------------------------------------------
(* The ship on screen                                                        *)

OnScreen == sheet.on = "sitting" /\ sheet.at <= Len(sheet.list)
Finished == sheet.on = "sitting" /\ sheet.at > Len(sheet.list)

FreeHand(h) == hand[h].pc = "idle" /\ \A g \in Hands : g < h => hand[g].pc # "idle"

Send(h, kind) ==
  /\ OnScreen /\ clicks < MaxClicks /\ FreeHand(h)
  /\ hand' = [hand EXCEPT ![h] =
       [Resting EXCEPT !.kind = kind, !.pc = "sent", !.list = sheet.list, !.at = sheet.at,
                       !.extra = IF kind = "full" THEN sheet.extra ELSE 0]]
  /\ sheet' = [sheet EXCEPT !.submitting = TRUE] /\ clicks' = clicks + 1
  /\ UNCHANGED <<checked, dealt, judged>>

(* The button works while a request is on its way; the arrow key does not.   *)
Approve(h) == sheet.dialog = "none" /\ Send(h, "approve")
Flag(h) == /\ sheet.dialog # "none" /\ sheet.why /\ ~sheet.submitting
           /\ Send(h, sheet.dialog)

FlagDialog ==
  /\ OnScreen
  /\ \/ /\ sheet.dialog = "none"
        /\ \E kind \in {"full", "keep"} : sheet' = [sheet EXCEPT !.dialog = kind]
     \/ sheet.dialog # "none" /\ ~sheet.why /\ sheet' = [sheet EXCEPT !.why = TRUE]
     \/ sheet.dialog # "none" /\ sheet' = [sheet EXCEPT !.dialog = "none"]
  /\ UNCHANGED <<checked, hand, clicks, dealt, judged>>

------------------------------------------------------------------------------
(* Requests                                                                  *)

Of(h) == hand[h].list[hand[h].at]

(* The decision is kept or refused: the page does not tell these apart.      *)
Answered(h) ==
  /\ hand[h].pc = "sent"
  /\ \/ checked' = checked \cup {Of(h)}
     \/ UNCHANGED checked
  /\ hand' = [hand EXCEPT ![h].pc = IF hand[h].extra > 0 THEN "adding" ELSE "answered"]
  /\ judged' = judged \cup {Of(h)}
  /\ UNCHANGED <<sheet, clicks, dealt>>

Drawn(h) ==
  /\ hand[h].pc = "adding"
  /\ \E list \in Draws(hand[h].extra) \cup {<<>>} :
       hand' = [hand EXCEPT ![h].pc = "answered", ![h].more = list]
  /\ UNCHANGED <<checked, sheet, clicks, dealt, judged>>

Thrown(h) ==
  /\ hand[h].pc \in {"sent", "adding"}
  /\ \/ hand[h].pc = "sent" /\ checked' = checked \cup {Of(h)}
     \/ UNCHANGED checked
  /\ hand' = [hand EXCEPT ![h].pc = "thrown"]
  /\ UNCHANGED <<sheet, clicks, dealt, judged>>

(* On, from the place and by the length of the list of the click; the ships  *)
(* drawn are appended to that list, and lost if it was at its end.           *)
Onward(h, from) ==
  LET on == from < Len(hand[h].list)
      list == IF hand[h].extra > 0 THEN hand[h].list \o hand[h].more ELSE sheet.list
  IN [sheet EXCEPT !.reviewed = @ + 1, !.submitting = FALSE,
                   !.list = IF on THEN list ELSE <<>>, !.at = IF on THEN from + 1 ELSE 1,
                   !.dialog = IF hand[h].kind = "approve" THEN @ ELSE "none",
                   !.why = hand[h].kind = "approve" /\ @]

(* Fault: on from where the page is, not from where the click was.           *)
AdvanceFromHere(h) ==
  /\ hand[h].pc = "answered"
  /\ sheet' = Onward(h, sheet.at)
  /\ hand' = [hand EXCEPT ![h] = Resting]
  /\ UNCHANGED <<checked, clicks, dealt, judged>>

Advance(h) ==
  /\ hand[h].pc = "answered"
  /\ sheet' = Onward(h, hand[h].at)
  /\ hand' = [hand EXCEPT ![h] = Resting]
  /\ UNCHANGED <<checked, clicks, dealt, judged>>

SpotAlert(h) ==
  /\ hand[h].pc = "thrown"
  /\ sheet' = [sheet EXCEPT !.submitting = FALSE]
  /\ hand' = [hand EXCEPT ![h] = Resting]
  /\ UNCHANGED <<checked, clicks, dealt, judged>>

SpotPageNext ==
  \/ Started \/ StartLost \/ FlagDialog
  \/ \E n \in HowMany, extra \in Extras : StartSitting(n, extra)
  \/ \E h \in Hands : \/ Approve(h) \/ Flag(h) \/ Answered(h) \/ Drawn(h) \/ Thrown(h)
                       \/ Advance(h) \/ SpotAlert(h)

SpotPageSpec == SpotPageInit /\ [][SpotPageNext]_spotPageVars

------------------------------------------------------------------------------
(* Properties                                                                *)

(* However clicks overlap, decisions fail and flags draw more ships: each of *)
(* the ships first dealt that comes before the one on screen was decided on  *)
(* by an answered request, all of them were when the page says that it is    *)
(* done, and it then counts no fewer (review.tsx:45-125, 225-231).  Ships    *)
(* that flags add may be passed over.                                        *)
NoShipPassedOver ==
  /\ OnScreen => \A i \in 1..Len(dealt) :
       i < sheet.at => sheet.list[i] = dealt[i] /\ dealt[i] \in judged
  /\ Finished => Range(dealt) \subseteq judged /\ sheet.reviewed >= Len(dealt)

------------------------------------------------------------------------------
(* The page of one case                                                      *)

CONSTANTS
  Fetches,      \* slots for loads
  MaxVersions,  \* bound: states the case goes through
  MaxCaseChanges    \* bound: changes this page asks for

VARIABLES
  statuses,   \* the status of the case after each write
  view,      \* what the page holds
  change,    \* [{"toggle", "fp"} -> ...]: its two kinds of request
  fetched,   \* [Fetches -> ...]: loads on their way, in the order sent
  sends,     \* loads sent
  asked,     \* changes asked for
  mine       \* statuses: the last version this page wrote and was told of

casePageVars == <<statuses, view, change, fetched, sends, asked, mine>>

Statuses == {"unresolved", "resolved", "false_positive"}
NotAsked == [pc |-> "idle", to |-> "resolved", ver |-> 0]
NoFetch == [pc |-> "idle", no |-> 0, ver |-> 0]
Version == Len(statuses)

CasePageTypeOK ==
  /\ statuses \in Seq(Statuses)
  /\ view.ver \in 0..Version /\ view.last \in 0..sends /\ view.dialog \in BOOLEAN
  /\ view.reason \in BOOLEAN /\ view.toggling \in BOOLEAN /\ view.marking \in BOOLEAN
  /\ view.failed \in BOOLEAN
  /\ \A w \in {"toggle", "fp"} : change[w].pc \in {"idle", "sent", "read", "ok", "bad", "thrown"}
  /\ \A f \in Fetches : fetched[f].pc \in {"idle", "sent", "read", "thrown"}
  /\ mine \in 0..Version

(* A case that took its ship off the leaderboard, and the page's first load. *)
CasePageInit ==
  /\ statuses = <<"unresolved">> /\ mine = 0 /\ sends = 1 /\ asked = 0
  /\ view = [ver |-> 0, last |-> 0, dialog |-> FALSE, reason |-> FALSE, toggling |-> FALSE,
             marking |-> FALSE, failed |-> FALSE]
  /\ change = [w \in {"toggle", "fp"} |-> NotAsked]
  /\ fetched = [f \in Fetches |-> IF \A g \in Fetches : f <= g
                                    THEN [NoFetch EXCEPT !.pc = "sent", !.no = 1] ELSE NoFetch]

CaseShown == view.ver > 0 /\ ~view.failed
StatusShown == statuses[view.ver]

------------------------------------------------------------------------------
(* Loads                                                                     *)

CanLoad(f) == fetched[f].pc = "idle" /\ \A g \in Fetches : g < f => fetched[g].pc # "idle"
LoadCase(f) ==
  /\ CanLoad(f)
  /\ sends' = sends + 1
  /\ fetched' = [fetched EXCEPT ![f] = [pc |-> "sent", no |-> sends + 1, ver |-> 0]]

Read(f) ==
  /\ fetched[f].pc = "sent"
  /\ fetched' = [fetched EXCEPT ![f] = [@ EXCEPT !.pc = "read", !.ver = Version]]
  /\ UNCHANGED <<statuses, view, change, sends, asked, mine>>

ShowCase(f) ==
  /\ fetched[f].pc = "read"
  /\ view' = [view EXCEPT !.ver = fetched[f].ver, !.last = fetched[f].no]
  /\ fetched' = [fetched EXCEPT ![f] = NoFetch]
  /\ UNCHANGED <<statuses, change, sends, asked, mine>>

(* For good: a load that throws, or an error's answer, which has no case.    *)
LoadThrows(f) ==
  /\ fetched[f].pc \in {"sent", "read"}
  /\ view' = [view EXCEPT !.failed = TRUE]
  /\ fetched' = [fetched EXCEPT ![f] = NoFetch]
  /\ UNCHANGED <<statuses, change, sends, asked, mine>>

------------------------------------------------------------------------------
(* Changes                                                                   *)

Click(w, flag) ==
  /\ change[w].pc = "idle" /\ asked < MaxCaseChanges /\ asked' = asked + 1
  /\ change' = [change EXCEPT ![w] = [NotAsked EXCEPT !.pc = "sent"]]
  /\ view' = [view EXCEPT ![flag] = TRUE]
  /\ UNCHANGED <<statuses, fetched, sends, mine>>

(* What this page shows decides what it offers, not what the case is.        *)
Toggle ==
  /\ CaseShown /\ StatusShown # "false_positive" /\ ~view.dialog /\ ~view.toggling
  /\ Click("toggle", "toggling")

MarkFalsePositive ==
  /\ CaseShown /\ view.dialog /\ view.reason /\ ~view.marking
  /\ Click("fp", "marking")

FpDialog ==
  /\ CaseShown
  /\ \/ /\ ~view.dialog /\ StatusShown # "false_positive"
        /\ view' = [view EXCEPT !.dialog = TRUE]
     \/ view.dialog /\ ~view.reason /\ view' = [view EXCEPT !.reason = TRUE]
     \/ view.dialog /\ view' = [view EXCEPT !.dialog = FALSE, !.reason = FALSE]
  /\ UNCHANGED <<statuses, change, fetched, sends, asked, mine>>

ServerReads ==
  /\ change["toggle"].pc = "sent"
  /\ change' = [change EXCEPT !["toggle"].pc = "read",
       !["toggle"].to = IF statuses[Version] = "resolved" THEN "unresolved" ELSE "resolved"]
  /\ UNCHANGED <<statuses, view, fetched, sends, asked, mine>>

(* An error's answer is taken for success.                                   *)
ServerWrites(w, answered) ==
  /\ change[w].pc = (IF w = "toggle" THEN "read" ELSE "sent")
  /\ Version < MaxVersions
  /\ statuses' = Append(statuses, IF w = "toggle" THEN change[w].to ELSE "false_positive")
  /\ change' = [change EXCEPT ![w].pc = IF answered THEN "ok" ELSE "thrown",
                              ![w].ver = Version + 1]
  /\ UNCHANGED <<view, fetched, sends, asked, mine>>

ServerFails(w) ==
  /\ change[w].pc \in {"sent", "read"}
  /\ \E pc \in {"bad", "thrown"} : change' = [change EXCEPT ![w].pc = pc]
  /\ UNCHANGED <<statuses, view, fetched, sends, asked, mine>>

(* Colleagues' requests overlap too, so any status may follow any other.     *)
OtherStaff ==
  /\ Version < MaxVersions
  /\ \E to \in Statuses \ {statuses[Version]} : statuses' = Append(statuses, to)
  /\ UNCHANGED <<view, change, fetched, sends, asked, mine>>

Quietly(w) == IF w = "toggle" THEN [view EXCEPT !.toggling = FALSE]
              ELSE [view EXCEPT !.marking = FALSE, !.dialog = FALSE, !.reason = FALSE]

Told(w) == IF change[w].pc = "ok" /\ change[w].ver > mine THEN change[w].ver ELSE mine

(* Fault: the page goes on with the copy it has.                             *)
DoneWithoutLoad(w, f) ==
  /\ change[w].pc \in {"ok", "bad"} /\ CanLoad(f)
  /\ view' = Quietly(w) /\ mine' = Told(w)
  /\ change' = [change EXCEPT ![w] = NotAsked]
  /\ UNCHANGED <<statuses, fetched, sends, asked>>

(* The page loads again, whatever the answer says.                           *)
DoneThenLoad(w, f) ==
  /\ change[w].pc \in {"ok", "bad"}
  /\ LoadCase(f)
  /\ view' = Quietly(w) /\ mine' = Told(w)
  /\ change' = [change EXCEPT ![w] = NotAsked]
  /\ UNCHANGED <<statuses, asked>>

CaseAlert(w) ==
  /\ change[w].pc = "thrown"
  /\ view' = [view EXCEPT ![IF w = "toggle" THEN "toggling" ELSE "marking"] = FALSE]
  /\ change' = [change EXCEPT ![w] = NotAsked]
  /\ UNCHANGED <<statuses, fetched, sends, asked, mine>>

CasePageNext ==
  \/ Toggle \/ MarkFalsePositive \/ FpDialog \/ ServerReads \/ OtherStaff
  \/ \E f \in Fetches : Read(f) \/ ShowCase(f) \/ LoadThrows(f)
  \/ \E w \in {"toggle", "fp"} :
       \/ ServerFails(w) \/ CaseAlert(w)
       \/ \E answered \in BOOLEAN : ServerWrites(w, answered)
       \/ \E f \in Fetches : DoneThenLoad(w, f)

CasePageSpec == CasePageInit /\ [][CasePageNext]_casePageVars

------------------------------------------------------------------------------
(* Properties                                                                *)

(* When nothing is on its way and the last answer was to the last load, the  *)
(* page shows no less than the last change it was told of, its own toggles   *)
(* and declarations in any order with each other and with colleagues'        *)
(* (case.tsx:16-25, 42-71).                                                  *)
CaseIsCurrent ==
  /\ \A w \in {"toggle", "fp"} : change[w].pc = "idle"
  /\ \A f \in Fetches : fetched[f].pc = "idle"
  /\ view.last = sends
  => view.ver >= mine
=============================================================================
