----------------------------- MODULE StaffPages -----------------------------
(***************************************************************************)
(* The pages on which staff work at tickets, spot checks, users and         *)
(* assignments, open at the same time.  Each page's own module has the rows *)
(* it reads and writes; the columns of one are not those of another.        *)
(***************************************************************************)
EXTENDS TicketPage, SpotPage, RecordPage, Newcomers

StaffPagesSpec ==
  TicketPageSpec /\ SpotPageSpec /\ CasePageSpec /\ RecordSpec /\ NewcomerSpec

(* Each page keeps its word: the ticket's, the sitting of spot checks, the  *)
(* case's, a user's and an assignment's, and the form that adds a user, as   *)
(* its own module states it (useTicketActions.ts, review.tsx, case.tsx,      *)
(* user-profile.tsx, assignments/[id]/edit/form.tsx, add-user.tsx).          *)
StaffPagesHold ==
  TicketPageHolds /\ NoShipPassedOver /\ CaseIsCurrent /\ RecordIsShown /\ AddedAsShown
=============================================================================
