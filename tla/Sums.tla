-------------------------------- MODULE Sums --------------------------------
(***************************************************************************)
(* The sum of a column over a finite set of keys.                            *)
(***************************************************************************)
EXTENDS Integers, FiniteSetsExt

Total(column, S) == MapThenSumSet(LAMBDA k : column[k], S)
=============================================================================
