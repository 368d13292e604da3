------------------------------ MODULE MCTickets ------------------------------
(* Small instances of Tickets for TLC.                                       *)
EXTENDS Tickets, TLC

CONSTANTS t1, ann, ben, kid, h1, h2

OneKid == (t1 :> kid)
Threads == Permutations(Handlers)
=============================================================================
