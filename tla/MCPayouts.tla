------------------------------ MODULE MCPayouts ------------------------------
(* Small instances of Payouts for TLC.                                       *)
EXTENDS Payouts, TLC

CONSTANTS ann, adm, eve, r1, r2, r3, r4

(* A reviewer with one tab and two admins.                                   *)
TwoAdmins == (r1 :> ann) @@ (r2 :> adm) @@ (r3 :> eve)

(* A reviewer with two tabs and two admins.                                  *)
TwoTabs == (r1 :> ann) @@ (r2 :> ann) @@ (r3 :> adm) @@ (r4 :> eve)
=============================================================================
