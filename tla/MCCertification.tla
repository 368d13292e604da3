--------------------------- MODULE MCCertification ---------------------------
(* Small instances of Certification for TLC.                                 *)
EXTENDS Certification, TLC

CONSTANTS ann, ben, meg, s1, s2, r1, r2, r3

TwoReviewers == (r1 :> ann) @@ (r2 :> ben)

(* A shipwright with two tabs and a megawright.                              *)
TwoTabs == (r1 :> ann) @@ (r2 :> ann) @@ (r3 :> meg)

(* The two tabs are alike: the same user's.                                   *)
Tabs == Permutations({r1, r2})
=============================================================================
