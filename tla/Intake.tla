------------------------------- MODULE Intake -------------------------------
(***************************************************************************)
(* Flavortown's ship.submitted webhook (webhooks/ship-submitted/route.ts):   *)
(* look for a row of the project, create one, and ask the AI service for its *)
(* type.  A delivery may be lost, fail half way or be repeated, and verdicts *)
(* fall in between.                                                          *)
(***************************************************************************)
EXTENDS Naturals, Sequences, FiniteSets

CONSTANTS
  Projects,
  Deliveries,  \* slots for requests
  MaxShips     \* bound: rows

VARIABLES
  ship,      \* the shipCert rows, by id
  delivery,  \* [Deliveries -> ...]
  crossed,   \* history: projects two deliveries of which looked before either created
  reopened   \* history: projects a decided row of which changed its status

intakeVars == <<ship, delivery, crossed, reopened>>

Ship == [project : Projects, reship : BOOLEAN, status : {"pending", "approved", "rejected"}]
Arrived == [pc : {"create", "type"}, project : Projects, reship : BOOLEAN]
NoDelivery == [pc |-> "idle"]

IntakeTypeOK ==
  /\ ship \in Seq(Ship)
  /\ delivery \in [Deliveries -> Arrived \cup {NoDelivery}]
  /\ crossed \subseteq Projects
  /\ reopened \subseteq Projects

IntakeInit ==
  /\ ship = <<>>
  /\ delivery = [h \in Deliveries |-> NoDelivery]
  /\ crossed = {}
  /\ reopened = {}

(* Fault: a decided ship may be shipped again.                               *)
BlockingPending(reship) == {"pending"}

(* A reship may follow an approval, a ship may not.                         *)
Blocking(reship) == IF reship THEN {"pending"} ELSE {"pending", "approved"}

Creating(h, p) == delivery[h].pc = "create" /\ delivery[h].project = p

(* findFirst: a duplicate is answered with 403.                             *)
Deliver(h, p, reship) ==
  /\ delivery[h].pc = "idle"
  /\ \A i \in 1 .. Len(ship) : ship[i].project = p => ship[i].status \notin Blocking(reship)
  /\ delivery' = [delivery EXCEPT ![h] =
       [pc |-> "create", project |-> p, reship |-> reship]]
  /\ crossed' = IF \E g \in Deliveries : Creating(g, p) THEN crossed \cup {p} ELSE crossed
  /\ UNCHANGED <<ship, reopened>>

CreateShip(h) ==
  /\ delivery[h].pc = "create"
  /\ Len(ship) < MaxShips
  /\ ship' = Append(ship, [project |-> delivery[h].project, reship |-> delivery[h].reship,
                           status |-> "pending"])
  /\ delivery' = [delivery EXCEPT ![h].pc = "type"]
  /\ UNCHANGED <<crossed, reopened>>

(* checkType answers, minutes later; the type it found goes into the row.    *)
StoreType(h) ==
  /\ delivery[h].pc = "type"
  /\ delivery' = [delivery EXCEPT ![h] = NoDelivery]
  /\ UNCHANGED <<ship, crossed, reopened>>

(* The AI service or the database fails, or the process dies.               *)
GiveUp(h) ==
  /\ delivery[h].pc # "idle"
  /\ delivery' = [delivery EXCEPT ![h] = NoDelivery]
  /\ UNCHANGED <<ship, crossed, reopened>>

(* The desk and YSWS: a verdict, an override or a return.                   *)
Judge(i, status) ==
  /\ ship[i].status # status
  /\ ship' = [ship EXCEPT ![i].status = status]
  /\ reopened' = IF ship[i].status = "pending" THEN reopened
                 ELSE reopened \cup {ship[i].project}
  /\ UNCHANGED <<delivery, crossed>>

IntakeNext ==
  \/ \E h \in Deliveries :
       \/ \E p \in Projects, reship \in BOOLEAN : Deliver(h, p, reship)
       \/ CreateShip(h) \/ StoreType(h) \/ GiveUp(h)
  \/ \E i \in 1 .. Len(ship), status \in {"pending", "approved", "rejected"} : Judge(i, status)

IntakeSpec == IntakeInit /\ [][IntakeNext]_intakeVars

------------------------------------------------------------------------------
(* Properties                                                                *)

RowsOf(p, status) ==
  {i \in 1 .. Len(ship) : ship[i].project = p /\ ship[i].status = status}

(* However often Flavortown repeats a delivery, a project waits in the queue *)
(* once ("duplicate ship, already in the queue!", route.ts:123) and is not   *)
(* approved twice as a first ship, unless one looked while another had yet  *)
(* to create, or a decided row of it was opened or decided again.            *)
QueuedOnce ==
  \A p \in Projects \ (crossed \cup reopened) :
    /\ Cardinality(RowsOf(p, "pending")) <= 1
    /\ Cardinality({i \in RowsOf(p, "approved") : ~ship[i].reship}) <= 1
=============================================================================
