---------------------------- MODULE DashboardProofs ----------------------------
(***************************************************************************)
(* Proofs about machines of the dashboard that share no state: the intake    *)
(* webhook, for any projects and deliveries; an assignment, its notes and    *)
(* what is told of it, for any users and requests; logins, for any users,    *)
(* tokens, lifetimes and requests; the mirror, for any tables, batches and   *)
(* passes; the rate limiter, for any limit, window and times of requests.    *)
(***************************************************************************)
EXTENDS Sessions, Intake, Assignments, PgSync, RateLimit,
        SumsProofs, SequenceTheorems, TLAPS

------------------------------------------------------------------------------
(* The intake                                                                *)

(* A project no two deliveries of which looked at once, and no decided row   *)
(* of which was touched again.                                               *)
Smooth == Projects \ (crossed \cup reopened)

Of(i, p, status) == i \in 1 .. Len(ship) /\ ship[i].project = p /\ ship[i].status = status
First(i, p, status) == Of(i, p, status) /\ ~ship[i].reship

(* Two rows of a project are never both waiting, nor both approved as first  *)
(* ships; while a first ship waits, nothing of its project is approved.      *)
RowsHold ==
  \A p \in Smooth :
    /\ \A i, j : Of(i, p, "pending") /\ Of(j, p, "pending") => i = j
    /\ \A i, j : First(i, p, "approved") /\ First(j, p, "approved") => i = j
    /\ \A i, j : ~(First(i, p, "pending") /\ Of(j, p, "approved"))

(* A delivery about to create a row is alone with its project, and what it   *)
(* found by looking is still so.                                             *)
DeliveriesHold ==
  \A p \in Smooth, h \in Deliveries : Creating(h, p) =>
    /\ \A g \in Deliveries : Creating(g, p) => g = h
    /\ \A i : ~Of(i, p, "pending")
    /\ ~delivery[h].reship => \A i : ~Of(i, p, "approved")

IntakeInv == IntakeTypeOK /\ RowsHold /\ DeliveriesHold

LEMMA IntakeTypeStep == IntakeTypeOK /\ [IntakeNext]_intakeVars => IntakeTypeOK'
<1> SUFFICES ASSUME IntakeTypeOK, [IntakeNext]_intakeVars PROVE IntakeTypeOK'
  OBVIOUS
<1> USE DEF IntakeTypeOK
<1>1. ASSUME NEW h \in Deliveries, NEW p \in Projects, NEW reship \in BOOLEAN,
             Deliver(h, p, reship)
      PROVE  IntakeTypeOK'
  <2>1. [pc |-> "create", project |-> p, reship |-> reship] \in Arrived
    BY DEF Arrived
  <2> QED
    BY <1>1, <2>1 DEF Deliver
<1>2. ASSUME NEW h \in Deliveries, CreateShip(h) PROVE IntakeTypeOK'
  <2>1. delivery[h] \in Arrived
    BY <1>2 DEF CreateShip, NoDelivery
  <2>2. [project |-> delivery[h].project, reship |-> delivery[h].reship,
         status |-> "pending"] \in Ship
    BY <2>1 DEF Arrived, Ship
  <2>3. ship' \in Seq(Ship)
    BY <1>2, <2>2 DEF CreateShip
  <2>4. [delivery[h] EXCEPT !.pc = "type"] \in Arrived
    BY <2>1 DEF Arrived
  <2> QED
    BY <1>2, <2>3, <2>4 DEF CreateShip
<1>3. ASSUME NEW h \in Deliveries, StoreType(h) \/ GiveUp(h) PROVE IntakeTypeOK'
  BY <1>3 DEF StoreType, GiveUp
<1>4. ASSUME NEW i \in 1 .. Len(ship), NEW status \in {"pending", "approved", "rejected"},
             Judge(i, status)
      PROVE  IntakeTypeOK'
  <2>1. ship[i] \in Ship
    OBVIOUS
  <2>2. [ship[i] EXCEPT !.status = status] \in Ship /\ ship[i].project \in Projects
    BY <2>1 DEF Ship
  <2>3. ship' \in Seq(Ship)
    BY <1>4, <2>2 DEF Judge
  <2> QED
    BY <1>4, <2>2, <2>3 DEF Judge
<1>5. CASE UNCHANGED intakeVars
  BY <1>5 DEF intakeVars
<1> QED
  BY <1>1, <1>2, <1>3, <1>4, <1>5 DEF IntakeNext

(* The rows of the table after a creation and after a verdict.               *)
LEMMA CreatedRows ==
  ASSUME IntakeTypeOK, NEW h \in Deliveries, CreateShip(h)
  PROVE  /\ Len(ship') = Len(ship) + 1 /\ Len(ship) \in Nat
         /\ \A i \in 1 .. Len(ship) : ship'[i] = ship[i]
         /\ ship'[Len(ship) + 1].project = delivery[h].project
         /\ ship'[Len(ship) + 1].status = "pending"
         /\ ship'[Len(ship) + 1].reship <=> delivery[h].reship
BY DEF IntakeTypeOK, CreateShip

LEMMA JudgedRows ==
  ASSUME IntakeTypeOK, NEW k \in 1 .. Len(ship),
         NEW status \in {"pending", "approved", "rejected"}, Judge(k, status)
  PROVE  /\ Len(ship') = Len(ship)
         /\ \A i \in 1 .. Len(ship) :
              /\ ship'[i].project = ship[i].project
              /\ ship'[i].reship <=> ship[i].reship
              /\ i # k => ship'[i].status = ship[i].status
         /\ ship'[k].status = status
<1>1. ship' = [ship EXCEPT ![k] = [ship[k] EXCEPT !.status = status]]
  BY DEF Judge
<1>2. \A i \in 1 .. Len(ship) : ship[i] \in Ship
  BY DEF IntakeTypeOK
<1>3. Len(ship') = Len(ship)
  BY <1>1 DEF IntakeTypeOK
<1>4. \A i \in 1 .. Len(ship) :
        ship'[i] = IF i = k THEN [ship[k] EXCEPT !.status = status] ELSE ship[i]
  BY <1>1 DEF IntakeTypeOK
<1> QED
  BY <1>2, <1>3, <1>4 DEF Ship

LEMMA IntakeStep == IntakeInv /\ [IntakeNext]_intakeVars => IntakeInv'
<1> SUFFICES ASSUME IntakeInv, [IntakeNext]_intakeVars PROVE IntakeInv'
  OBVIOUS
<1>0. IntakeTypeOK /\ RowsHold /\ DeliveriesHold
      /\ delivery \in [Deliveries -> Arrived \cup {NoDelivery}]
  BY DEF IntakeInv, IntakeTypeOK
<1>t. IntakeTypeOK'
  BY <1>0, IntakeTypeStep
<1>1. ASSUME NEW h \in Deliveries, NEW p \in Projects, NEW reship \in BOOLEAN,
             Deliver(h, p, reship)
      PROVE  RowsHold' /\ DeliveriesHold'
  <2>0. ship' = ship /\ Smooth' \subseteq Smooth
    BY <1>1 DEF Deliver, Smooth
  <2>1. RowsHold'
    BY <1>0, <2>0 DEF RowsHold, Of, First
  <2>2. ASSUME NEW q \in Smooth', NEW g \in Deliveries, Creating(g, q)'
        PROVE  /\ \A f \in Deliveries : Creating(f, q)' => f = g
               /\ \A i : ~Of(i, q, "pending")'
               /\ ~delivery'[g].reship => \A i : ~Of(i, q, "approved")'
    <3>1. \A f \in Deliveries \ {h} : Creating(f, q)' <=> Creating(f, q)
      BY <1>0, <1>1 DEF Deliver, Creating
    <3>2. Creating(h, q)' <=> q = p
      BY <1>0, <1>1 DEF Deliver, Creating
    <3>3. CASE q # p
      <4>1. g # h /\ Creating(g, q)
        BY <2>2, <3>1, <3>2, <3>3
      <4>2. delivery'[g] = delivery[g]
        BY <1>0, <1>1, <4>1 DEF Deliver
      <4> QED
        BY <1>0, <2>0, <3>1, <3>2, <3>3, <4>1, <4>2 DEF DeliveriesHold, Of
    <3>4. CASE q = p
      <4>1. \A f \in Deliveries : ~Creating(f, p)
        BY <1>1, <3>4, <2>2 DEF Deliver, Smooth
      <4>2. g = h /\ \A f \in Deliveries : Creating(f, q)' => f = g
        BY <2>2, <3>1, <3>4, <4>1
      <4>3. delivery'[g].reship = reship
        BY <1>0, <1>1, <4>2 DEF Deliver
      <4>4. \A i : ~Of(i, p, "pending") /\ (~reship => ~Of(i, p, "approved"))
        BY <1>1 DEF Deliver, Blocking, Of
      <4> QED
        BY <2>0, <3>4, <4>2, <4>3, <4>4 DEF Of
    <3> QED
      BY <3>3, <3>4
  <2> QED
    BY <2>1, <2>2 DEF DeliveriesHold
<1>2. ASSUME NEW h \in Deliveries, CreateShip(h) PROVE RowsHold' /\ DeliveriesHold'
  <2> DEFINE p == delivery[h].project
             n == Len(ship)
  <2>0. Smooth' = Smooth /\ Creating(h, p)
    BY <1>2 DEF CreateShip, Smooth, Creating
  <2>1. n \in Nat /\ \A q, i, s : Of(i, q, s)' <=>
          Of(i, q, s) \/ (i = n + 1 /\ q = p /\ s = "pending")
    BY <1>0, <1>2, CreatedRows DEF Of
  <2>2. /\ \A i \in 1 .. n : ship'[i].reship <=> ship[i].reship
        /\ ship'[n + 1].reship <=> delivery[h].reship
    BY <1>0, <1>2, CreatedRows
  <2>3. \A q, i, s : Of(i, q, s) => i \in 1 .. n
    BY DEF Of
  <2>4. \A q, i, s : First(i, q, s)' <=>
          First(i, q, s) \/ (i = n + 1 /\ q = p /\ s = "pending" /\ ~delivery[h].reship)
    BY <2>1, <2>2, <2>3 DEF First
  <2>5. p \in Smooth => /\ \A i : ~Of(i, p, "pending")
                        /\ ~delivery[h].reship => \A i : ~Of(i, p, "approved")
                        /\ \A g \in Deliveries : Creating(g, p) => g = h
    BY <1>0, <2>0 DEF DeliveriesHold
  <2>6. RowsHold'
    <3> SUFFICES ASSUME NEW q \in Smooth
                 PROVE  /\ \A i, j : Of(i, q, "pending")' /\ Of(j, q, "pending")' => i = j
                        /\ \A i, j : First(i, q, "approved")' /\ First(j, q, "approved")' => i = j
                        /\ \A i, j : ~(First(i, q, "pending")' /\ Of(j, q, "approved")')
      BY <2>0 DEF RowsHold
    <3>1. /\ \A i, j : Of(i, q, "pending") /\ Of(j, q, "pending") => i = j
          /\ \A i, j : First(i, q, "approved") /\ First(j, q, "approved") => i = j
          /\ \A i, j : ~(First(i, q, "pending") /\ Of(j, q, "approved"))
      BY <1>0 DEF RowsHold
    <3> QED
      BY <2>1, <2>4, <2>5, <3>1
  <2>7. \A q : \A g \in Deliveries : Creating(g, q)' <=> Creating(g, q) /\ g # h
    BY <1>0, <1>2 DEF CreateShip, Creating, Arrived, NoDelivery
  <2>8. \A g \in Deliveries : g # h => delivery'[g] = delivery[g]
    BY <1>0, <1>2 DEF CreateShip
  <2>9. ASSUME NEW q \in Smooth, NEW g \in Deliveries, Creating(g, q)'
        PROVE  /\ \A f \in Deliveries : Creating(f, q)' => f = g
               /\ \A i : ~Of(i, q, "pending")'
               /\ ~delivery'[g].reship => \A i : ~Of(i, q, "approved")'
    <3>1. q # p
      BY <2>0, <2>5, <2>7, <2>9
    <3> QED
      BY <1>0, <2>1, <2>7, <2>8, <2>9, <3>1 DEF DeliveriesHold
  <2> QED
    BY <2>0, <2>6, <2>9 DEF DeliveriesHold
<1>3. ASSUME NEW h \in Deliveries, StoreType(h) \/ GiveUp(h) PROVE RowsHold' /\ DeliveriesHold'
  <2>0. ship' = ship /\ Smooth' = Smooth
    BY <1>3 DEF StoreType, GiveUp, Smooth
  <2>1. RowsHold'
    BY <1>0, <2>0 DEF RowsHold, Of, First
  <2>2. \A q : \A g \in Deliveries : Creating(g, q)' => Creating(g, q) /\ delivery'[g] = delivery[g]
    BY <1>0, <1>3 DEF StoreType, GiveUp, Creating, NoDelivery
  <2>3. DeliveriesHold'
    BY <1>0, <2>0, <2>2 DEF DeliveriesHold, Of
  <2> QED
    BY <2>1, <2>3
<1>4. ASSUME NEW k \in 1 .. Len(ship), NEW status \in {"pending", "approved", "rejected"},
             Judge(k, status)
      PROVE  RowsHold' /\ DeliveriesHold'
  <2>0. delivery' = delivery /\ Smooth' \subseteq Smooth
    BY <1>4 DEF Judge, Smooth
  <2>1. \A q \in Smooth' : ship[k].project = q => ship[k].status = "pending" /\ status # "pending"
    BY <1>4 DEF Judge, Smooth
  <2>2. \A q, i, s : Of(i, q, s)' <=> IF i = k THEN ship[k].project = q /\ s = status
                                      ELSE Of(i, q, s)
    BY <1>0, <1>4, JudgedRows DEF Of
  <2>3. \A q, i, s : First(i, q, s)' <=>
          IF i = k THEN ship[k].project = q /\ s = status /\ ~ship[k].reship
          ELSE First(i, q, s)
    <3>1. \A i \in 1 .. Len(ship) : ship'[i].reship <=> ship[i].reship
      BY <1>0, <1>4, JudgedRows
    <3>2. \A q, i, s : Of(i, q, s) => i \in 1 .. Len(ship)
      BY DEF Of
    <3> QED
      BY <2>2, <3>1, <3>2 DEF First
  <2>4. \A q \in Smooth' : ship[k].project = q =>
          Of(k, q, "pending") /\ (~ship[k].reship => First(k, q, "pending"))
    BY <2>1 DEF Of, First
  <2>5. RowsHold'
    <3> SUFFICES ASSUME NEW q \in Smooth'
                 PROVE  /\ \A i, j : Of(i, q, "pending")' /\ Of(j, q, "pending")' => i = j
                        /\ \A i, j : First(i, q, "approved")' /\ First(j, q, "approved")' => i = j
                        /\ \A i, j : ~(First(i, q, "pending")' /\ Of(j, q, "approved")')
      BY DEF RowsHold
    <3>1. /\ \A i, j : Of(i, q, "pending") /\ Of(j, q, "pending") => i = j
          /\ \A i, j : First(i, q, "approved") /\ First(j, q, "approved") => i = j
          /\ \A i, j : ~(First(i, q, "pending") /\ Of(j, q, "approved"))
      BY <1>0, <2>0 DEF RowsHold
    <3>2. \A i, s : First(i, q, s) => Of(i, q, s)
      BY DEF First
    <3>3. CASE ship[k].project # q
      BY <2>2, <2>3, <3>1, <3>3
    <3>4. CASE ship[k].project = q
      BY <2>1, <2>2, <2>3, <2>4, <3>1, <3>2, <3>4
    <3> QED
      BY <3>3, <3>4
  <2>6. ASSUME NEW q \in Smooth', NEW g \in Deliveries, Creating(g, q)'
        PROVE  /\ \A f \in Deliveries : Creating(f, q)' => f = g
               /\ \A i : ~Of(i, q, "pending")'
               /\ ~delivery'[g].reship => \A i : ~Of(i, q, "approved")'
    <3>1. Creating(g, q) /\ \A f \in Deliveries : Creating(f, q)' => Creating(f, q)
      BY <2>0, <2>6 DEF Creating
    <3>2. ship[k].project # q
      BY <1>0, <2>0, <2>4, <2>6, <3>1 DEF DeliveriesHold
    <3> QED
      BY <1>0, <2>0, <2>2, <2>6, <3>1, <3>2 DEF DeliveriesHold
  <2> QED
    BY <2>5, <2>6 DEF DeliveriesHold
<1>5. ASSUME UNCHANGED intakeVars PROVE RowsHold' /\ DeliveriesHold'
  <2>1. RowsHold'
    BY <1>0, <1>5 DEF intakeVars, RowsHold, Smooth, Of, First
  <2>2. DeliveriesHold'
    BY <1>0, <1>5 DEF intakeVars, DeliveriesHold, Smooth, Of, Creating
  <2> QED
    BY <2>1, <2>2
<1> QED
  BY <1>t, <1>1, <1>2, <1>3, <1>4, <1>5 DEF IntakeInv, IntakeNext

(* A set with no two members has at most one.                                *)
LEMMA AtMostOne ==
  ASSUME NEW S, \A x, y \in S : x = y
  PROVE  Cardinality(S) <= 1
<1>1. CASE S = {}
  BY <1>1, FS_EmptySet
<1>2. CASE S # {}
  <2>1. PICK x \in S : S = {x}
    BY <1>2
  <2> QED
    BY <2>1, FS_Singleton
<1> QED
  BY <1>1, <1>2

LEMMA IntakeInvImplies == IntakeInv => QueuedOnce
<1> SUFFICES ASSUME IntakeInv, NEW p \in Smooth
             PROVE  /\ Cardinality(RowsOf(p, "pending")) <= 1
                    /\ Cardinality({i \in RowsOf(p, "approved") : ~ship[i].reship}) <= 1
  BY DEF QueuedOnce, Smooth
<1>1. \A x, y \in RowsOf(p, "pending") : x = y
  BY DEF IntakeInv, RowsHold, RowsOf, Of
<1>2. \A x, y \in {i \in RowsOf(p, "approved") : ~ship[i].reship} : x = y
  BY DEF IntakeInv, RowsHold, RowsOf, Of, First
<1> QED
  BY <1>1, <1>2, AtMostOne

(* Rows and deliveries keep their types, whatever is repeated or fails.      *)
THEOREM IntakeTypes == IntakeSpec => []IntakeTypeOK
<1>1. IntakeInit => IntakeTypeOK
  BY DEF IntakeInit, IntakeTypeOK
<1> QED
  BY <1>1, IntakeTypeStep, PTL DEF IntakeSpec

(* However often a delivery is repeated, and whatever the desk decides in    *)
(* between, a project waits once and is approved once as a first ship,       *)
(* unless two deliveries looked at once or a decided row was touched again.  *)
THEOREM WaitsOnce == IntakeSpec => []QueuedOnce
<1>1. IntakeInit => IntakeInv
  BY DEF IntakeInit, IntakeInv, IntakeTypeOK, RowsHold, DeliveriesHold, Of, First,
         Creating, NoDelivery
<1> QED
  BY <1>1, IntakeStep, IntakeInvImplies, PTL DEF IntakeSpec

------------------------------------------------------------------------------
(* Assignments                                                               *)

USE AssignAssumption

(* The column has the notes written and not deleted but for those overtaken, *)
(* and so has what a request that is to write the column has read.           *)
NotesHold ==
  /\ NotesKept
  /\ \A h \in Desks : desk[h].pc \in {"note", "unnote"} =>
       \A n \in 1 .. noted \ overtaken : n \in desk[h].seen <=> n \notin removed

(* What a request read of the notes, or is to delete, was written.           *)
SeenWritten ==
  \A h \in Desks : /\ desk[h].seen \subseteq 1 .. noted
                   /\ desk[h].pc = "unnote" => desk[h].note \in 1 .. noted

(* Reassignments and notes name somebody.                                    *)
Named == \A h \in Desks : desk[h].pc \in {"reassign", "note", "subscribe"} => desk[h].who \in Members

Typed == AssignTypeOK /\ SeenWritten /\ Named
NotesInv == Typed /\ NotesHold

LEMMA NoWorkType == NoWork \in Work
<1>1. <<>> \in Seq([to : Members, what : Message])
  OBVIOUS
<1> QED
  BY <1>1 DEF NoWork, Work, Someone, Statuses

LEMMA NoticesType ==
  ASSUME NEW was \in Someone, NEW who \in Members
  PROVE  Notices(was, who) \in Seq([to : Members, what : Message])
<1> DEFINE P == [to : Members, what : Message]
           gone == IF was = NoOne THEN <<>> ELSE <<[to |-> was, what |-> "unassigned"]>>
           come == <<[to |-> who, what |-> "assigned"]>>
<1>1. come \in Seq(P)
  BY DEF Message
<1>2. gone \in Seq(P)
  <2>1. CASE was = NoOne
    BY <2>1
  <2>2. CASE was # NoOne
    <3>1. [to |-> was, what |-> "unassigned"] \in P
      BY <2>2 DEF Someone, Message
    <3> QED
      BY <2>2, <3>1
  <2> QED
    BY <2>1, <2>2
<1>3. Notices(was, who) = gone \o come
  BY DEF Notices
<1> HIDE DEF P, gone, come
<1>4. gone \o come \in Seq(P)
  BY <1>1, <1>2, ConcatProperties
<1> QED
  BY <1>3, <1>4 DEF P

LEMMA AssignTypeStep == Typed /\ [AssignNext]_assignVars => Typed'
<1> SUFFICES ASSUME Typed, [AssignNext]_assignVars PROVE Typed'
  OBVIOUS
<1> USE DEF Typed, AssignTypeOK, SeenWritten, Named
<1> DEFINE P == [to : Members, what : Message]
<1>0. \A h \in Desks : desk[h] \in Work
  OBVIOUS
<1>n. NoWork \in Work /\ NoWork.seen = {} /\ NoWork.pc = "idle" /\ noted \in Nat
  BY NoWorkType DEF NoWork
<1>a. ASSUME NEW h \in Desks, NEW work \in Work, work.seen = {}, work.pc # "unnote", BeginMove(h, work),
             work.pc \in {"reassign", "note", "subscribe"} => work.who \in Members
      PROVE  Typed'
  BY <1>a DEF BeginMove, columnVars
<1>b. ASSUME NEW h \in Desks, NEW who \in Someone, NEW status \in Statuses,
             NEW pushes \in Seq(P), Writes(h, who, status, pushes)
      PROVE  Typed'
  <2> DEFINE w == [NoWork EXCEPT !.pc = "tell", !.pushes = pushes]
  <2>1. w \in Work /\ w.seen = {} /\ w.pc \notin {"reassign", "note", "unnote", "subscribe"}
    BY <1>n DEF Work, NoWork
  <2>2. desk' = [desk EXCEPT ![h] = w] /\ UNCHANGED <<comments, noted, removed, overtaken>>
    BY <1>b DEF Writes, columnVars
  <2> HIDE DEF w
  <2>3. desk' \in [Desks -> Work] /\ SeenWritten' /\ Named'
    BY <2>1, <2>2
  <2>4. assignment' \in [assignee : Someone, status : Statuses]
    BY <1>b DEF Writes
  <2> QED
    BY <1>b, <2>2, <2>3, <2>4 DEF Writes
<1>1. ASSUME NEW h \in Desks, NEW who \in Someone, ChooseAssignee(h, who)
      PROVE  Typed'
  <2> DEFINE w == [NoWork EXCEPT !.pc = "create", !.who = who]
  <2>1. w \in Work /\ w.seen = {} /\ w.pc \notin {"reassign", "note", "unnote", "subscribe"}
    BY <1>n DEF Work, NoWork
  <2>2. BeginMove(h, w)
    BY <1>1 DEF ChooseAssignee
  <2> HIDE DEF w
  <2> QED
    BY <1>a, <2>1, <2>2
<1>2. ASSUME NEW h \in Desks, CreateAssignment(h) PROVE Typed'
  <2>1. desk[h].who \in Someone
    BY <1>0 DEF Work
  <2>2. CASE desk[h].who = NoOne
    <3>1. Writes(h, NoOne, "unassigned", <<>>)
      BY <1>2, <2>2 DEF CreateAssignment
    <3>2. NoOne \in Someone /\ "unassigned" \in Statuses /\ <<>> \in Seq(P)
      BY DEF Someone, Statuses
    <3> QED
      BY <1>b, <3>1, <3>2
  <2>3. CASE desk[h].who # NoOne
    <3> DEFINE pushes == <<[to |-> desk[h].who, what |-> "assigned"]>>
    <3>1. Writes(h, desk[h].who, "pending", pushes)
      BY <1>2, <2>3 DEF CreateAssignment
    <3>2. pushes \in Seq(P) /\ "pending" \in Statuses
      BY <2>1, <2>3 DEF Someone, Message, Statuses
    <3> QED
      BY <1>b, <2>1, <3>1, <3>2
  <2> QED
    BY <2>2, <2>3
<1>3. ASSUME NEW h \in Desks, NEW who \in Members, ReadAssignee(h, who)
      PROVE  Typed'
  <2> DEFINE w == [NoWork EXCEPT !.pc = "reassign", !.who = who, !.was = assignment.assignee]
  <2>1. w \in Work /\ w.seen = {} /\ w.who = who /\ w.pc = "reassign"
    BY <1>n DEF Work, NoWork, Someone
  <2>2. BeginMove(h, w)
    BY <1>3 DEF ReadAssignee
  <2> HIDE DEF w
  <2> QED
    BY <1>a, <2>1, <2>2
<1>4. ASSUME NEW h \in Desks, Reassign(h) PROVE Typed'
  <2>1. desk[h].who \in Members /\ desk[h].was \in Someone
    BY <1>0, <1>4 DEF Reassign, Work
  <2>2. Notices(desk[h].was, desk[h].who) \in Seq(P)
    BY <2>1, NoticesType
  <2>3. Writes(h, desk[h].who, "pending", Notices(desk[h].was, desk[h].who))
    BY <1>4 DEF Reassign
  <2>4. desk[h].who \in Someone /\ "pending" \in Statuses
    BY <2>1 DEF Someone, Statuses
  <2> QED
    BY <1>b, <2>2, <2>3, <2>4
<1>5. ASSUME NEW h \in Desks, NEW u \in Members, NEW overrides \in BOOLEAN,
             NEW status \in {"pending", "in_progress", "completed"},
             CheckOwner(h, u, overrides, status)
      PROVE  Typed'
  <2> DEFINE w == [NoWork EXCEPT !.pc = "status", !.status = status]
  <2>1. w \in Work /\ w.seen = {} /\ w.pc \notin {"reassign", "note", "unnote", "subscribe"}
    BY <1>n DEF Work, NoWork, Statuses
  <2>2. BeginMove(h, w)
    BY <1>5 DEF CheckOwner
  <2> HIDE DEF w
  <2> QED
    BY <1>a, <2>1, <2>2
<1>6. ASSUME NEW h \in Desks, SetStatus(h) PROVE Typed'
  <2>1. desk[h].status \in Statuses
    BY <1>0 DEF Work
  <2>2. assignment' \in [assignee : Someone, status : Statuses]
    BY <1>6, <2>1 DEF SetStatus
  <2> QED
    BY <1>6, <1>n, <2>2 DEF SetStatus, columnVars
<1>7. ASSUME NEW h \in Desks, Push(h) PROVE Typed'
  <2>1. desk[h].pushes \in Seq(P)
    BY <1>0 DEF Work
  <2>2. CASE desk[h].pushes = <<>>
    BY <1>7, <1>n, <2>2 DEF Push, columnVars
  <2>3. CASE desk[h].pushes # <<>>
    <3> DEFINE m == Head(desk[h].pushes)
               w == [desk[h] EXCEPT !.pushes = Tail(@)]
    <3>0. \A d \in Work, t \in Seq(P) : LET x == [d EXCEPT !.pushes = t] IN
             x \in Work /\ x.seen = d.seen /\ x.pc = d.pc /\ x.who = d.who /\ x.note = d.note
      BY DEF Work
    <3> HIDE DEF P
    <3>1. m \in P /\ Tail(desk[h].pushes) \in Seq(P)
      BY <2>1, <2>3, HeadTailProperties
    <3>2. w \in Work /\ w.seen = desk[h].seen /\ w.pc = desk[h].pc /\ w.who = desk[h].who
        /\ w.note = desk[h].note
      BY <1>0, <3>0, <3>1
    <3>3. m.to \in Members /\ m.what \in Message
      BY <3>1 DEF P
    <3>4. /\ desk' = [desk EXCEPT ![h] = w]
          /\ \/ told' = [told EXCEPT ![m.to] = m.what] /\ mishaps' = mishaps
             \/ told' = told /\ mishaps' = mishaps \cup {"unheard"}
          /\ UNCHANGED <<assignment, comments, noted, removed, overtaken, subscribed, moves>>
      BY <1>7, <2>3 DEF Push, columnVars
    <3> HIDE DEF w, m
    <3>5. told' \in [Members -> Message \cup {"nothing"}]
      BY <3>3, <3>4
    <3>6. mishaps' \subseteq {"crossed", "unheard"}
      BY <3>4
    <3> QED
      BY <3>2, <3>4, <3>5, <3>6
  <2> QED
    BY <2>2, <2>3
<1>8. ASSUME NEW h \in Desks, NEW u \in Members, ReadNotes(h, u) PROVE Typed'
  <2> DEFINE w == [NoWork EXCEPT !.pc = "note", !.who = u, !.seen = comments]
  <2>1. comments \subseteq 1 .. MaxNotes
    OBVIOUS
  <2>2. w \in Work /\ w.seen = comments /\ w.who = u /\ w.pc = "note"
    BY <1>n, <2>1 DEF Work, NoWork, Someone
  <2>3. desk' = [desk EXCEPT ![h] = w]
    BY <1>8 DEF ReadNotes, BeginNote
  <2> HIDE DEF w
  <2> QED
    BY <1>8, <2>2, <2>3 DEF ReadNotes, BeginNote, columnVars
<1>9. ASSUME NEW h \in Desks, WriteNotes(h) PROVE Typed'
  <2> DEFINE w == [desk[h] EXCEPT !.pc = "subscribe"]
  <2>0. desk[h].who \in Members
    BY <1>9 DEF WriteNotes
  <2>a. \A d \in Work : LET x == [d EXCEPT !.pc = "subscribe"] IN
          x \in Work /\ x.seen = d.seen /\ x.pc = "subscribe"
    BY DEF Work
  <2>1. w \in Work /\ w.seen = desk[h].seen /\ w.pc = "subscribe"
    BY <1>0, <2>a
  <2>b. w.who \in Members
    BY <1>0, <2>0 DEF Work
  <2>2. desk' = [desk EXCEPT ![h] = w]
    BY <1>9 DEF WriteNotes
  <2>3. noted' \in 0 .. MaxNotes /\ 1 .. noted \subseteq 1 .. noted' /\ noted + 1 \in 1 .. noted'
    BY <1>9, <1>n DEF WriteNotes
  <2>4. comments' \subseteq 1 .. noted'
    BY <1>9, <1>n, <2>3 DEF WriteNotes, WithNote
  <2> HIDE DEF w
  <2>5. desk' \in [Desks -> Work] /\ SeenWritten' /\ Named'
    BY <2>1, <2>b, <2>2, <2>3
  <2>6. overtaken' \subseteq 1 .. noted' /\ removed' \subseteq 1 .. noted'
    BY <1>9, <2>3 DEF WriteNotes, Changes
  <2> QED
    BY <1>9, <2>3, <2>4, <2>5, <2>6 DEF WriteNotes
<1>10. ASSUME NEW h \in Desks, NEW mentioned \in SUBSET Members, Subscribe(h, mentioned)
       PROVE  Typed'
  <2>1. desk[h].who \in Members
    BY <1>10 DEF Subscribe
  <2> QED
    BY <1>10, <1>n, <2>1 DEF Subscribe, columnVars
<1>11. ASSUME NEW u \in Members, Unsubscribe(u) PROVE Typed'
  BY <1>11 DEF Unsubscribe, columnVars
<1>12. ASSUME NEW h \in Desks, Drop(h) PROVE Typed'
  BY <1>12, <1>n DEF Drop, columnVars
<1>13. ASSUME NEW h \in Desks, NEW n \in 1 .. MaxNotes, FindNote(h, n) PROVE Typed'
  <2> DEFINE w == [NoWork EXCEPT !.pc = "unnote", !.seen = comments, !.note = n]
  <2>1. comments \subseteq 1 .. MaxNotes /\ n \in comments
    BY <1>13 DEF FindNote
  <2>a. NoWork = [pc |-> "idle", who |-> NoOne, was |-> NoOne, status |-> "none", pushes |-> <<>>,
                  seen |-> {}, note |-> 0] /\ n \in 0 .. MaxNotes
    BY DEF NoWork
  <2>b. \A d \in Work, c \in SUBSET (1 .. MaxNotes), k \in 0 .. MaxNotes :
          LET x == [d EXCEPT !.pc = "unnote", !.seen = c, !.note = k] IN
            x \in Work /\ x.seen = c /\ x.note = k /\ x.pc = "unnote"
    BY DEF Work
  <2>2. w \in Work /\ w.seen = comments /\ w.note = n /\ w.pc = "unnote"
    BY <1>n, <2>1, <2>a, <2>b
  <2>3. desk' = [desk EXCEPT ![h] = w]
    BY <1>13 DEF FindNote, BeginNote
  <2> HIDE DEF w
  <2> QED
    BY <1>13, <2>1, <2>2, <2>3 DEF FindNote, BeginNote, columnVars
<1>14. ASSUME NEW h \in Desks, RemoveNote(h) PROVE Typed'
  <2>1. desk[h].note \in 1 .. noted /\ desk[h].seen \subseteq 1 .. noted
    BY <1>14 DEF RemoveNote
  <2>2. removed' \subseteq 1 .. noted /\ overtaken' \subseteq 1 .. noted /\ comments' \subseteq 1 .. noted
    BY <1>14, <2>1 DEF RemoveNote, Changes
  <2> QED
    BY <1>14, <1>n, <2>2 DEF RemoveNote
<1>15. CASE UNCHANGED assignVars
  BY <1>15 DEF assignVars, columnVars
<1> QED
  BY <1>1, <1>2, <1>3, <1>4, <1>5, <1>6, <1>7, <1>8, <1>9, <1>10, <1>11, <1>12, <1>13, <1>14, <1>15
  DEF AssignNext

(* What a step does to the requests that write notes.                        *)
LEMMA NotersStep ==
  ASSUME Typed, [AssignNext]_assignVars, \A h \in Desks, u \in Members : ~ReadNotes(h, u),
         \A h \in Desks, n \in 1 .. MaxNotes : ~FindNote(h, n)
  PROVE  \A g \in Desks : desk'[g].pc \in {"note", "unnote"} =>
           desk[g].pc = desk'[g].pc /\ desk'[g].seen = desk[g].seen
<1> DEFINE Kept == \A g \in Desks : desk'[g].pc \in {"note", "unnote"} =>
                     desk[g].pc = desk'[g].pc /\ desk'[g].seen = desk[g].seen
<1>0. desk \in [Desks -> Work] /\ NoWork.pc = "idle"
  BY DEF Typed, AssignTypeOK, NoWork
<1>r. \A d \in Work : [d EXCEPT !.pc = "subscribe"].pc = "subscribe"
  BY DEF Work
<1>p. \A d \in Work : \A t : [d EXCEPT !.pushes = t].pc = d.pc
  BY DEF Work
<1>a. ASSUME NEW h \in Desks, NEW w, w.pc \notin {"note", "unnote"}, desk' = [desk EXCEPT ![h] = w] PROVE Kept
  BY <1>0, <1>a
<1>b. ASSUME NEW h \in Desks, NEW w, w.pc \notin {"note", "unnote"}, BeginMove(h, w) PROVE Kept
  BY <1>a, <1>b DEF BeginMove
<1>1. ASSUME NEW h \in Desks,
             \/ \E who \in Someone : ChooseAssignee(h, who)
             \/ \E who \in Members : ReadAssignee(h, who)
             \/ \E who \in Members, overrides \in BOOLEAN,
                  status \in {"pending", "in_progress", "completed"} :
                     CheckOwner(h, who, overrides, status)
      PROVE  Kept
  <2>1. ASSUME NEW who, ChooseAssignee(h, who) PROVE Kept
    <3> DEFINE w == [NoWork EXCEPT !.pc = "create", !.who = who]
    <3>1. BeginMove(h, w) /\ w.pc \notin {"note", "unnote"}
      BY <2>1 DEF ChooseAssignee, NoWork
    <3> HIDE DEF w
    <3> QED
      BY <1>b, <3>1
  <2>2. ASSUME NEW who, ReadAssignee(h, who) PROVE Kept
    <3> DEFINE w == [NoWork EXCEPT !.pc = "reassign", !.who = who, !.was = assignment.assignee]
    <3>1. BeginMove(h, w) /\ w.pc \notin {"note", "unnote"}
      BY <2>2 DEF ReadAssignee, NoWork
    <3> HIDE DEF w
    <3> QED
      BY <1>b, <3>1
  <2>3. ASSUME NEW who, NEW overrides, NEW status, CheckOwner(h, who, overrides, status)
        PROVE  Kept
    <3> DEFINE w == [NoWork EXCEPT !.pc = "status", !.status = status]
    <3>1. BeginMove(h, w) /\ w.pc \notin {"note", "unnote"}
      BY <2>3 DEF CheckOwner, NoWork
    <3> HIDE DEF w
    <3> QED
      BY <1>b, <3>1
  <2> QED
    BY <1>1, <2>1, <2>2, <2>3
<1>2. ASSUME NEW h \in Desks, CreateAssignment(h) \/ Reassign(h) PROVE Kept
  <2>1. \A t : [NoWork EXCEPT !.pc = "tell", !.pushes = t].pc = "tell"
    BY DEF NoWork
  <2> QED
    BY <1>2, <1>a, <2>1 DEF CreateAssignment, Reassign, Writes
<1>3. ASSUME NEW h \in Desks,
             \/ SetStatus(h) \/ RemoveNote(h) \/ Drop(h)
             \/ \E mentioned \in SUBSET Members : Subscribe(h, mentioned)
      PROVE  Kept
  BY <1>0, <1>3, <1>a DEF SetStatus, RemoveNote, Drop, Subscribe
<1>4. ASSUME NEW h \in Desks, Push(h) PROVE Kept
  <2>1. CASE desk' = [desk EXCEPT ![h] = NoWork]
    BY <1>0, <1>a, <2>1
  <2>2. CASE desk' = [desk EXCEPT ![h].pushes = Tail(@)]
    <3> DEFINE w == [desk[h] EXCEPT !.pushes = Tail(desk[h].pushes)]
    <3>1. w.pc = "tell"
      BY <1>0, <1>4, <1>p DEF Push
    <3>2. desk' = [desk EXCEPT ![h] = w]
      BY <2>2
    <3> HIDE DEF w
    <3> QED
      BY <1>a, <3>1, <3>2
  <2> QED
    BY <1>4, <2>1, <2>2 DEF Push
<1>5. ASSUME NEW h \in Desks, WriteNotes(h) PROVE Kept
  <2>1. desk' = [desk EXCEPT ![h] = [desk[h] EXCEPT !.pc = "subscribe"]]
    BY <1>5 DEF WriteNotes
  <2> QED
    BY <1>0, <1>r, <1>a, <2>1
<1>6. CASE UNCHANGED desk
  BY <1>6
<1> QED
  BY <1>1, <1>2, <1>3, <1>4, <1>5, <1>6 DEF AssignNext, Unsubscribe, assignVars

(* Nothing but the additions and deletions touches the column.               *)
LEMMA ColumnStep ==
  ASSUME [AssignNext]_assignVars, \A h \in Desks : ~WriteNotes(h) /\ ~RemoveNote(h)
  PROVE  UNCHANGED <<comments, noted, removed, overtaken>>
BY DEF AssignNext, ChooseAssignee, ReadAssignee, CheckOwner, BeginMove, CreateAssignment, BeginNote,
       Reassign, Writes, SetStatus, Push, ReadNotes, FindNote, Subscribe, Unsubscribe, Drop, assignVars,
       columnVars

(* A request reads the column as it is; the others' copies stay.             *)
LEMMA NotesRead ==
  ASSUME NotesInv, NEW h \in Desks, NEW w, w.seen = comments, BeginNote(h, w)
  PROVE  NotesHold'
<1>1. desk' = [desk EXCEPT ![h] = w] /\ UNCHANGED <<comments, noted, removed, overtaken>>
  BY DEF BeginNote, columnVars
<1>2. desk'[h] = w /\ \A g \in Desks : g # h => desk'[g] = desk[g]
  BY <1>1 DEF NotesInv, Typed, AssignTypeOK
<1> QED
  BY <1>1, <1>2 DEF NotesInv, NotesHold, NotesKept

LEMMA NotesStep == NotesInv /\ [AssignNext]_assignVars => NotesInv'
<1> SUFFICES ASSUME NotesInv, [AssignNext]_assignVars PROVE NotesInv'
  OBVIOUS
<1>0. Typed /\ NotesHold /\ desk \in [Desks -> Work] /\ noted \in Nat
  BY DEF NotesInv, Typed, AssignTypeOK
<1>t. Typed'
  BY <1>0, AssignTypeStep
<1>1. ASSUME NEW h \in Desks, NEW u \in Members, ReadNotes(h, u) PROVE NotesHold'
  <2>1. [NoWork EXCEPT !.pc = "note", !.who = u, !.seen = comments].seen = comments
    BY DEF NoWork
  <2> QED
    BY <1>1, <2>1, NotesRead DEF ReadNotes
<1>2. ASSUME NEW h \in Desks, NEW n, FindNote(h, n) PROVE NotesHold'
  <2>1. [NoWork EXCEPT !.pc = "unnote", !.seen = comments, !.note = n].seen = comments
    BY DEF NoWork
  <2> QED
    BY <1>2, <2>1, NotesRead DEF FindNote
<1>3. ASSUME NEW h \in Desks, WriteNotes(h) PROVE NotesHold'
  <2>1. /\ noted' = noted + 1 /\ comments' = desk[h].seen \cup {noted + 1} /\ desk[h].pc = "note"
        /\ desk' = [desk EXCEPT ![h] = [desk[h] EXCEPT !.pc = "subscribe"]] /\ removed' = removed
        /\ Changes(h, noted + 1)
    BY <1>3 DEF WriteNotes, WithNote
  <2>2. \A d \in Work : [d EXCEPT !.pc = "subscribe"].pc = "subscribe"
    BY DEF Work
  <2>3. \A g \in Desks : desk'[g].pc \in {"note", "unnote"} => g # h /\ desk'[g] = desk[g]
    BY <1>0, <2>1, <2>2
  <2>4. \A n \in 1 .. noted' : n \in 1 .. noted \/ n = noted + 1
    BY <1>0, <2>1
  <2>5. noted + 1 \notin removed /\ overtaken \subseteq overtaken'
    BY <1>0, <2>1 DEF Typed, AssignTypeOK, Changes
  <2>6. NotesKept'
    BY <1>0, <2>1, <2>4, <2>5 DEF NotesHold, NotesKept
  <2>7. ASSUME NEW g \in Desks, desk'[g].pc \in {"note", "unnote"}, NEW n \in 1 .. noted' \ overtaken'
        PROVE  n \in desk'[g].seen <=> n \notin removed'
    <3>1. g # h /\ desk'[g] = desk[g] /\ noted + 1 \in overtaken'
      BY <2>1, <2>3, <2>7 DEF Changes
    <3>2. n \in 1 .. noted \ overtaken
      BY <2>4, <2>5, <2>7, <3>1
    <3> QED
      BY <1>0, <2>1, <2>7, <3>1, <3>2 DEF NotesHold
  <2> QED
    BY <2>6, <2>7 DEF NotesHold
<1>4. ASSUME NEW h \in Desks, RemoveNote(h) PROVE NotesHold'
  <2>1. /\ noted' = noted /\ comments' = desk[h].seen \ {desk[h].note} /\ desk[h].pc = "unnote"
        /\ desk' = [desk EXCEPT ![h] = NoWork] /\ removed' = removed \cup {desk[h].note}
        /\ Changes(h, desk[h].note)
    BY <1>4 DEF RemoveNote
  <2>2. \A g \in Desks : desk'[g].pc \in {"note", "unnote"} => g # h /\ desk'[g] = desk[g]
    BY <1>0, <2>1 DEF NoWork
  <2>3. overtaken \subseteq overtaken'
    BY <2>1 DEF Changes
  <2>4. NotesKept'
    BY <1>0, <2>1, <2>3 DEF NotesHold, NotesKept
  <2>5. ASSUME NEW g \in Desks, desk'[g].pc \in {"note", "unnote"}, NEW n \in 1 .. noted' \ overtaken'
        PROVE  n \in desk'[g].seen <=> n \notin removed'
    <3>1. g # h /\ desk'[g] = desk[g] /\ desk[h].note \in overtaken'
      BY <2>1, <2>2, <2>5 DEF Changes
    <3> QED
      BY <1>0, <2>1, <2>3, <2>5, <3>1 DEF NotesHold
  <2> QED
    BY <2>4, <2>5 DEF NotesHold
<1>5. ASSUME \A h \in Desks, u \in Members : ~ReadNotes(h, u), \A h \in Desks, n \in 1 .. MaxNotes : ~FindNote(h, n),
             \A h \in Desks : ~WriteNotes(h) /\ ~RemoveNote(h)
      PROVE  NotesHold'
  <2>1. \A g \in Desks : desk'[g].pc \in {"note", "unnote"} =>
          desk[g].pc = desk'[g].pc /\ desk'[g].seen = desk[g].seen
    BY <1>0, <1>5, NotersStep
  <2>2. UNCHANGED <<comments, noted, removed, overtaken>>
    BY <1>5, ColumnStep
  <2> QED
    BY <1>0, <2>1, <2>2 DEF NotesHold, NotesKept
<1> QED
  BY <1>t, <1>1, <1>2, <1>3, <1>4, <1>5 DEF NotesInv

LEMMA NotesInit == AssignInit => NotesInv
<1> SUFFICES ASSUME AssignInit PROVE NotesInv
  OBVIOUS
<1>1. NoWork \in Work /\ NoWork.pc = "idle" /\ NoWork.seen = {}
  BY NoWorkType DEF NoWork
<1>2. assignment \in [assignee : Someone, status : Statuses]
  BY DEF AssignInit, Someone, Statuses
<1> QED
  BY <1>1, <1>2 DEF AssignInit, NotesInv, Typed, AssignTypeOK, SeenWritten, Named, NotesHold, NotesKept

(* The row, its column of notes and the requests keep their types.           *)
THEOREM AssignTypes == AssignSpec => []AssignTypeOK
BY NotesInit, NotesStep, PTL DEF AssignSpec, NotesInv, Typed

(* However additions, deletions, failures and deaths overlap, the column has *)
(* each note written and not deleted, and no other, but for those another    *)
(* request missed between reading the column and writing it.                 *)
THEOREM NoNoteDropped == AssignSpec => []NotesKept
<1>1. NotesInv => NotesKept
  BY DEF NotesInv, NotesHold
<1> QED
  BY <1>1, NotesInit, NotesStep, PTL DEF AssignSpec

------------------------------------------------------------------------------
(* The pushes                                                                *)

USE NoOneAssumption

(* A request that may change the row, up to its last push.                   *)
Mover(h) == desk[h].pc \in {"create", "reassign", "status", "tell"}

Calm == {"crossed", "unheard"} \cap mishaps = {}

Says(u, what) == [to |-> u, what |-> what]

(* The last pushes say that `new` has it, or will once these are out.        *)
Tells(new, last) == \A u \in Members : last[u] = "assigned" <=> new = u

Owed(pushes, new, last) ==
  \/ pushes = <<>> /\ Tells(new, last)
  \/ /\ new \in Members /\ pushes = <<Says(new, "assigned")>>
     /\ \A u \in Members : last[u] = "assigned" => u = new
  \/ \E old \in Members :
       /\ new \in Members /\ pushes = <<Says(old, "unassigned"), Says(new, "assigned")>>
       /\ \A u \in Members : last[u] = "assigned" => u \in {old, new}

ToldHolder == Tells(assignment.assignee, told)

(* Until two requests overlap or a push is lost, only one changes the row;    *)
(* what it read of it is still so, and what it has yet to push is owed.      *)
PushesHold ==
  Calm =>
    /\ \A g, h \in Desks : Mover(g) /\ Mover(h) => g = h
    /\ \A h \in Desks :
         /\ desk[h].pc = "reassign" => desk[h].was = assignment.assignee
         /\ desk[h].pc = "tell" => Owed(desk[h].pushes, assignment.assignee, told)
    /\ (\A h \in Desks : desk[h].pc # "tell") => ToldHolder

(* A row that does not exist is nobody's, and no status takes it away.       *)
NoneIsNobodys ==
  /\ ~Exists => assignment.assignee = NoOne
  /\ \A h \in Desks : desk[h].pc = "status" => desk[h].status # "none"

PushInv == Typed /\ NoneIsNobodys /\ PushesHold

LEMMA NoticesAre ==
  ASSUME NEW was \in Someone, NEW who \in Members
  PROVE  Notices(was, who) =
           IF was = NoOne THEN <<Says(who, "assigned")>>
           ELSE <<Says(was, "unassigned"), Says(who, "assigned")>>
<1> DEFINE gone == Says(was, "unassigned")
           come == Says(who, "assigned")
<1>1. Notices(was, who) = (IF was = NoOne THEN <<>> ELSE <<gone>>) \o <<come>>
  BY DEF Notices, Says
<1> HIDE DEF gone, come
<1>2. <<come>> \in Seq({gone, come}) /\ <<gone>> \in Seq({gone, come})
  OBVIOUS
<1>3. <<>> \o <<come>> = <<come>>
  BY <1>2, ConcatEmptySeq
<1>4. <<gone>> \o <<come>> = <<gone, come>>
  <2> DEFINE both == <<gone>> \o <<come>>
  <2>1. /\ both \in Seq({gone, come}) /\ Len(both) = 2
        /\ both[1] = gone /\ both[2] = come
    BY <1>2, ConcatProperties
  <2> HIDE DEF both
  <2>2. both = <<both[1], both[2]>>
    BY <2>1
  <2> QED
    BY <2>1, <2>2 DEF both
<1> QED
  BY <1>1, <1>3, <1>4 DEF gone, come

LEMMA PushInit == AssignInit => NoneIsNobodys /\ PushesHold
BY DEF AssignInit, NoWork, NoneIsNobodys, PushesHold, Exists, Mover, ToldHolder, Tells

(* A request that begins is alone, or the mishap is noted.                   *)
LEMMA BeginKeeps ==
  ASSUME PushInv, NEW h \in Desks, NEW work \in Work, BeginMove(h, work),
         work.pc \in {"create", "reassign", "status"},
         work.pc = "reassign" => work.was = assignment.assignee,
         work.pc = "status" => work.status # "none"
  PROVE  NoneIsNobodys' /\ PushesHold'
<1>1. /\ desk' = [desk EXCEPT ![h] = work] /\ desk \in [Desks -> Work] /\ desk[h].pc = "idle"
      /\ UNCHANGED <<assignment, told>>
  BY DEF BeginMove, PushInv, Typed, AssignTypeOK
<1>2. Calm' => Calm /\ \A g \in Desks : ~Mover(g)
  BY DEF BeginMove, Calm, Mover
<1>3. NoneIsNobodys'
  BY <1>1 DEF PushInv, NoneIsNobodys, Exists
<1>4. ASSUME Calm' PROVE ToldHolder
  BY <1>2, <1>4 DEF PushInv, PushesHold, Mover
<1>5. ToldHolder => ToldHolder'
  BY <1>1 DEF ToldHolder
<1>6. Calm' => \A g \in Desks : Mover(g)' => g = h
  BY <1>1, <1>2 DEF Mover
<1> QED
  BY <1>1, <1>3, <1>4, <1>5, <1>6 DEF PushesHold, Mover

(* A write that is alone leaves what its handler has to push.                *)
LEMMA WritesKeeps ==
  ASSUME PushInv, NEW h \in Desks, Mover(h), desk[h].pc # "tell", NEW who \in Someone,
         NEW status \in Statuses \ {"none"},
         NEW pushes \in Seq([to : Members, what : Message]), Writes(h, who, status, pushes),
         Calm => Owed(pushes, assignment'.assignee, told')
  PROVE  NoneIsNobodys' /\ PushesHold'
<1> DEFINE w == [NoWork EXCEPT !.pc = "tell", !.pushes = pushes]
<1>1. w.pc = "tell" /\ w.pushes = pushes
  BY DEF NoWork
<1>2. /\ desk' = [desk EXCEPT ![h] = w] /\ desk \in [Desks -> Work] /\ mishaps' = mishaps
      /\ assignment'.status = status
  BY DEF Writes, PushInv, Typed, AssignTypeOK
<1> HIDE DEF w
<1>3. NoneIsNobodys'
  BY <1>1, <1>2 DEF PushInv, NoneIsNobodys, Exists
<1>4. Calm' => Calm
  BY <1>2 DEF Calm
<1>5. Calm => \A g \in Desks : Mover(g) => g = h
  BY DEF PushInv, PushesHold
<1>6. Calm' => \A g \in Desks : Mover(g)' => g = h
  BY <1>2, <1>4, <1>5 DEF Mover
<1>7. Calm' => Owed(desk'[h].pushes, assignment'.assignee, told') /\ desk'[h].pc = "tell"
  BY <1>1, <1>2, <1>4
<1> QED
  BY <1>1, <1>2, <1>3, <1>6, <1>7 DEF PushesHold, Mover

(* A handler goes that pushes nothing, or whose pushes are all out.          *)
LEMMA LeavesKeeps ==
  ASSUME PushInv, NEW h \in Desks, desk' = [desk EXCEPT ![h] = NoWork],
         desk[h].pc = "tell" /\ desk[h].pushes # <<>> => ~Calm',
         mishaps \subseteq mishaps', told' = told,
         assignment'.assignee = assignment.assignee,
         assignment'.status \in {assignment.status} \cup (Statuses \ {"none"})
  PROVE  NoneIsNobodys' /\ PushesHold'
<1>1. desk \in [Desks -> Work] /\ NoWork.pc = "idle"
  BY DEF PushInv, Typed, AssignTypeOK, NoWork
<1>2. NoneIsNobodys'
  BY <1>1 DEF PushInv, NoneIsNobodys, Exists
<1>3. Calm' => Calm
  BY DEF Calm
<1>4. \A g \in Desks : desk'[g].pc # "idle" => g # h /\ desk'[g] = desk[g]
  BY <1>1
<1>6. ASSUME Calm', \A g \in Desks : desk'[g].pc # "tell" PROVE ToldHolder'
  <2>1. CASE desk[h].pc = "tell"
    <3>1. Owed(<<>>, assignment.assignee, told)
      BY <1>3, <1>6, <2>1 DEF PushInv, PushesHold
    <3>2. ToldHolder
      BY <3>1 DEF Owed, ToldHolder
    <3> QED
      BY <3>2 DEF ToldHolder, Tells
  <2>2. CASE desk[h].pc # "tell"
    <3>1. \A g \in Desks : desk[g].pc # "tell"
      BY <1>1, <1>6, <2>2
    <3> QED
      BY <1>3, <1>6, <3>1 DEF PushInv, PushesHold, ToldHolder
  <2> QED
    BY <2>1, <2>2
<1>7. Calm' => \A g, k \in Desks : Mover(g)' /\ Mover(k)' => g = k
  BY <1>3, <1>4 DEF PushInv, PushesHold, Mover
<1>8. Calm' => \A g \in Desks : /\ desk'[g].pc = "reassign" => desk'[g].was = assignment'.assignee
                                /\ desk'[g].pc = "tell" => Owed(desk'[g].pushes, assignment'.assignee, told')
  <2>1. Calm' => \A g \in Desks : /\ desk[g].pc = "reassign" => desk[g].was = assignment.assignee
                                  /\ desk[g].pc = "tell" => Owed(desk[g].pushes, assignment.assignee, told)
    BY <1>3 DEF PushInv, PushesHold
  <2> QED
    BY <1>4, <2>1
<1> QED
  BY <1>2, <1>6, <1>7, <1>8 DEF PushesHold

(* Requests about notes and subscriptions touch none of it.                  *)
LEMMA NotersKeep ==
  ASSUME PushInv, NEW h \in Desks, ~Mover(h), desk'[h].pc \in {"note", "unnote", "subscribe"},
         \A g \in Desks : g # h => desk'[g] = desk[g], mishaps \subseteq mishaps', assignment' = assignment, told' = told
  PROVE  NoneIsNobodys' /\ PushesHold'
<1>2. Calm' => Calm
  BY DEF Calm
<1>4. desk[h].pc # "tell"
  BY DEF Mover
<1>5. NoneIsNobodys'
  BY <1>4 DEF PushInv, NoneIsNobodys, Exists
<1>7. \A g \in Desks : Mover(g)' => g # h /\ Mover(g)
  BY <1>4 DEF Mover
<1>8. Calm => \A g \in Desks :
        /\ desk'[g].pc = "reassign" => desk'[g].was = assignment'.assignee
        /\ desk'[g].pc = "tell" => Owed(desk'[g].pushes, assignment'.assignee, told')
  BY <1>4 DEF PushInv, PushesHold
<1>9. Calm /\ (\A g \in Desks : desk'[g].pc # "tell") => ToldHolder'
  BY <1>4 DEF PushInv, PushesHold, ToldHolder
<1>10. Calm => \A g, k \in Desks : Mover(g)' /\ Mover(k)' => g = k
  BY <1>7 DEF PushInv, PushesHold
<1> QED
  BY <1>2, <1>5, <1>8, <1>9, <1>10 DEF PushesHold

(* The first of the pushes owed is heard: the others are owed.               *)
LEMMA HeardIsOwed ==
  ASSUME NEW pushes, pushes # <<>>, NEW new, NEW last \in [Members -> Message \cup {"nothing"}],
         Owed(pushes, new, last)
  PROVE  Owed(Tail(pushes), new, [last EXCEPT ![Head(pushes).to] = Head(pushes).what])
<1> DEFINE after == [last EXCEPT ![Head(pushes).to] = Head(pushes).what]
<1>1. ASSUME new \in Members, pushes = <<Says(new, "assigned")>>,
             \A u \in Members : last[u] = "assigned" => u = new
      PROVE  Owed(Tail(pushes), new, after)
  <2>1. Head(pushes).to = new /\ Head(pushes).what = "assigned" /\ Tail(pushes) = <<>>
    BY <1>1 DEF Says
  <2>2. Tells(new, after)
    BY <1>1, <2>1 DEF Tells
  <2> QED
    BY <2>1, <2>2 DEF Owed
<1>2. ASSUME NEW old \in Members, new \in Members,
             pushes = <<Says(old, "unassigned"), Says(new, "assigned")>>,
             \A u \in Members : last[u] = "assigned" => u \in {old, new}
      PROVE  Owed(Tail(pushes), new, after)
  <2>1. /\ Head(pushes).to = old /\ Head(pushes).what = "unassigned"
        /\ Tail(pushes) = <<Says(new, "assigned")>>
    BY <1>2 DEF Says
  <2>2. \A u \in Members : after[u] = "assigned" => u = new
    BY <1>2, <2>1
  <2> QED
    BY <1>2, <2>1, <2>2 DEF Owed
<1> QED
  BY <1>1, <1>2 DEF Owed

LEMMA PushStep == PushInv /\ [AssignNext]_assignVars => PushInv'
<1> SUFFICES ASSUME PushInv, [AssignNext]_assignVars PROVE NoneIsNobodys' /\ PushesHold'
  BY AssignTypeStep DEF PushInv
<1> DEFINE P == [to : Members, what : Message]
           Kept == NoneIsNobodys' /\ PushesHold'
<1>0. /\ desk \in [Desks -> Work] /\ assignment \in [assignee : Someone, status : Statuses]
      /\ told \in [Members -> Message \cup {"nothing"}] /\ \A h \in Desks : desk[h] \in Work
  BY DEF PushInv, Typed, AssignTypeOK
<1>n. NoWork \in Work
  BY NoWorkType
<1>1. ASSUME NEW h \in Desks, NEW who \in Someone, ChooseAssignee(h, who) PROVE Kept
  <2> DEFINE w == [NoWork EXCEPT !.pc = "create", !.who = who]
  <2>1. w \in Work /\ w.pc = "create"
    BY <1>n DEF Work, NoWork
  <2>2. BeginMove(h, w)
    BY <1>1 DEF ChooseAssignee
  <2> HIDE DEF w
  <2> QED
    BY <2>1, <2>2, BeginKeeps
<1>2. ASSUME NEW h \in Desks, NEW who \in Members, ReadAssignee(h, who) PROVE Kept
  <2> DEFINE w == [NoWork EXCEPT !.pc = "reassign", !.who = who, !.was = assignment.assignee]
  <2>1. w \in Work /\ w.pc = "reassign" /\ w.was = assignment.assignee
    BY <1>0, <1>n DEF Work, NoWork, Someone
  <2>2. BeginMove(h, w)
    BY <1>2 DEF ReadAssignee
  <2> HIDE DEF w
  <2> QED
    BY <2>1, <2>2, BeginKeeps
<1>3. ASSUME NEW h \in Desks, NEW u \in Members, NEW overrides \in BOOLEAN,
             NEW status \in {"pending", "in_progress", "completed"},
             CheckOwner(h, u, overrides, status)
      PROVE  Kept
  <2> DEFINE w == [NoWork EXCEPT !.pc = "status", !.status = status]
  <2>1. w \in Work /\ w.pc = "status" /\ w.status # "none"
    BY <1>n DEF Work, NoWork, Statuses
  <2>2. BeginMove(h, w)
    BY <1>3 DEF CheckOwner
  <2> HIDE DEF w
  <2> QED
    BY <2>1, <2>2, BeginKeeps
<1>4. ASSUME NEW h \in Desks, CreateAssignment(h) PROVE Kept
  <2>1. /\ desk[h].pc = "create" /\ Mover(h) /\ desk[h].who \in Someone
        /\ assignment.assignee = NoOne
    BY <1>0, <1>4 DEF CreateAssignment, Mover, Work, PushInv, NoneIsNobodys
  <2>2. Calm => ToldHolder
    <3>1. Calm => \A g \in Desks : desk[g].pc # "tell"
      BY <2>1 DEF PushInv, PushesHold, Mover
    <3> QED
      BY <3>1 DEF PushInv, PushesHold
  <2>3. CASE desk[h].who = NoOne
    <3>1. Writes(h, NoOne, "unassigned", <<>>)
      BY <1>4, <2>3 DEF CreateAssignment
    <3>2. NoOne \in Someone /\ "unassigned" \in Statuses \ {"none"} /\ <<>> \in Seq(P)
      BY DEF Someone, Statuses
    <3>3. ToldHolder => Owed(<<>>, assignment'.assignee, told')
      BY <2>1, <3>1 DEF Writes, ToldHolder, Tells, Owed
    <3> QED
      BY <2>1, <2>2, <3>1, <3>2, <3>3, WritesKeeps
  <2>4. CASE desk[h].who # NoOne
    <3> DEFINE pushes == <<Says(desk[h].who, "assigned")>>
    <3>1. desk[h].who \in Members
      BY <2>1, <2>4 DEF Someone
    <3>2. Writes(h, desk[h].who, "pending", pushes)
      BY <1>4, <2>4 DEF CreateAssignment, Says
    <3>3. pushes \in Seq(P) /\ "pending" \in Statuses \ {"none"}
      BY <3>1 DEF Message, Statuses, Says
    <3>4. assignment'.assignee = desk[h].who /\ told' = told
      BY <3>2 DEF Writes
    <3>5. ToldHolder => \A u \in Members : told[u] # "assigned"
      BY <2>1 DEF ToldHolder, Tells
    <3>6. ToldHolder => Owed(pushes, assignment'.assignee, told')
      BY <3>1, <3>4, <3>5 DEF Owed
    <3> QED
      BY <2>1, <2>2, <3>2, <3>3, <3>6, WritesKeeps
  <2> QED
    BY <2>3, <2>4
<1>5. ASSUME NEW h \in Desks, Reassign(h) PROVE Kept
  <2> DEFINE who == desk[h].who
             was == desk[h].was
             pushes == Notices(was, who)
  <2>1. who \in Members /\ was \in Someone /\ desk[h].pc = "reassign" /\ Mover(h)
    BY <1>0, <1>5 DEF Reassign, Work, PushInv, Typed, Named, Mover
  <2>2. pushes \in Seq(P)
    BY <2>1, NoticesType
  <2>3. Writes(h, who, "pending", pushes) /\ who \in Someone /\ "pending" \in Statuses \ {"none"}
    BY <1>5, <2>1 DEF Reassign, Someone, Statuses
  <2>4. Calm => ToldHolder /\ was = assignment.assignee
    <3>1. Calm => \A g \in Desks : desk[g].pc # "tell"
      BY <2>1 DEF PushInv, PushesHold, Mover
    <3> QED
      BY <2>1, <3>1 DEF PushInv, PushesHold
  <2>5. assignment'.assignee = who /\ told' = told
    BY <2>3 DEF Writes
  <2>6. pushes = IF was = NoOne THEN <<Says(who, "assigned")>>
                 ELSE <<Says(was, "unassigned"), Says(who, "assigned")>>
    BY <2>1, NoticesAre
  <2> HIDE DEF who, was, pushes
  <2>7. Calm => \A u \in Members : told'[u] = "assigned" => u = was
    BY <2>4, <2>5 DEF ToldHolder, Tells
  <2>8. Calm => Owed(pushes, assignment'.assignee, told')
    <3>1. CASE was = NoOne
      BY <2>1, <2>5, <2>6, <2>7, <3>1 DEF Owed
    <3>2. CASE was # NoOne
      <4>1. was \in Members
        BY <2>1, <3>2 DEF Someone
      <4> QED
        BY <2>1, <2>5, <2>6, <2>7, <3>2, <4>1 DEF Owed
    <3> QED
      BY <3>1, <3>2
  <2> QED
    BY <2>1, <2>2, <2>3, <2>8, WritesKeeps DEF who
<1>6. ASSUME NEW h \in Desks, SetStatus(h) PROVE Kept
  <2>1. /\ desk' = [desk EXCEPT ![h] = NoWork] /\ desk[h].pc = "status" /\ mishaps' = mishaps
        /\ told' = told /\ assignment' = [assignment EXCEPT !.status = desk[h].status]
        /\ desk[h].status \in Statuses \ {"none"}
    BY <1>0, <1>6 DEF SetStatus, Work, PushInv, NoneIsNobodys
  <2>2. assignment'.assignee = assignment.assignee /\ assignment'.status = desk[h].status
    BY <1>0, <2>1
  <2> QED
    BY <2>1, <2>2, LeavesKeeps
<1>7. ASSUME NEW h \in Desks, Push(h) PROVE Kept
  <2>0. desk[h].pc = "tell" /\ UNCHANGED assignment /\ desk[h] \in Work
    BY <1>0, <1>7 DEF Push
  <2>1. CASE desk[h].pushes = <<>>
    <3>1. desk' = [desk EXCEPT ![h] = NoWork] /\ told' = told /\ mishaps' = mishaps
      BY <1>7, <2>1 DEF Push
    <3> QED
      BY <2>0, <2>1, <3>1, LeavesKeeps
  <2>2. CASE desk[h].pushes # <<>>
    <3> DEFINE m == Head(desk[h].pushes)
               w == [desk[h] EXCEPT !.pushes = Tail(desk[h].pushes)]
    <3>1. w.pc = "tell" /\ w.pushes = Tail(desk[h].pushes)
      BY <2>0 DEF Work
    <3>2. /\ desk' = [desk EXCEPT ![h] = w] /\ mishaps \subseteq mishaps'
          /\ Calm' => told' = [told EXCEPT ![m.to] = m.what]
      BY <1>7, <2>2 DEF Push, Calm
    <3> HIDE DEF w, m
    <3>3. \A g \in Desks : g # h => desk'[g] = desk[g]
      BY <1>0, <3>2
    <3>4. desk'[h] = w
      BY <1>0, <3>2
    <3>5. NoneIsNobodys'
      BY <2>0, <3>1, <3>3, <3>4 DEF PushInv, NoneIsNobodys, Exists
    <3>6. Calm' => Calm
      BY <3>2 DEF Calm
    <3>7. Calm => Owed(desk[h].pushes, assignment.assignee, told) /\ \A g \in Desks : Mover(g) => g = h
      BY <2>0 DEF PushInv, PushesHold, Mover
    <3>8. Calm' => Owed(w.pushes, assignment'.assignee, told')
      BY <1>0, <2>0, <2>2, <3>1, <3>2, <3>6, <3>7, HeardIsOwed DEF m
    <3>9. Calm' => \A g \in Desks : Mover(g)' => g = h
      BY <3>3, <3>6, <3>7 DEF Mover
    <3> QED
      BY <3>1, <3>4, <3>5, <3>8, <3>9 DEF PushesHold, Mover
  <2> QED
    BY <2>1, <2>2
<1>8. ASSUME NEW h \in Desks, NEW u \in Members, ReadNotes(h, u) PROVE Kept
  <2> DEFINE w == [NoWork EXCEPT !.pc = "note", !.who = u, !.seen = comments]
  <2>1. w.pc = "note"
    BY DEF NoWork
  <2>2. desk' = [desk EXCEPT ![h] = w] /\ mishaps \subseteq mishaps'
        /\ assignment' = assignment /\ told' = told /\ ~Mover(h)
    BY <1>8 DEF ReadNotes, BeginNote, Mover
  <2> HIDE DEF w
  <2>3. desk'[h].pc \in {"note", "subscribe"} /\ \A g \in Desks : g # h => desk'[g] = desk[g]
    BY <1>0, <2>1, <2>2
  <2> QED
    BY <2>2, <2>3, NotersKeep
<1>9. ASSUME NEW h \in Desks, WriteNotes(h) PROVE Kept
  <2> DEFINE w == [desk[h] EXCEPT !.pc = "subscribe"]
  <2>1. w.pc = "subscribe"
    BY <1>0 DEF Work
  <2>2. desk' = [desk EXCEPT ![h] = w] /\ mishaps \subseteq mishaps'
        /\ assignment' = assignment /\ told' = told /\ ~Mover(h)
    BY <1>9 DEF WriteNotes, Mover
  <2> HIDE DEF w
  <2>3. desk'[h].pc \in {"note", "subscribe"} /\ \A g \in Desks : g # h => desk'[g] = desk[g]
    BY <1>0, <2>1, <2>2
  <2> QED
    BY <2>2, <2>3, NotersKeep
<1>10. ASSUME NEW h \in Desks, NEW mentioned \in SUBSET Members, Subscribe(h, mentioned)
       PROVE  Kept
  BY <1>10, LeavesKeeps DEF Subscribe
<1>11. ASSUME UNCHANGED <<assignment, told, desk, mishaps>> PROVE Kept
  BY <1>11 DEF PushInv, NoneIsNobodys, PushesHold, Calm, Mover, Owed, ToldHolder, Exists
<1>12. ASSUME NEW h \in Desks, Drop(h) PROVE Kept
  <2>1. /\ desk' = [desk EXCEPT ![h] = NoWork] /\ assignment' = assignment /\ told' = told
        /\ mishaps \subseteq mishaps'
    BY <1>12 DEF Drop
  <2>2. desk[h].pushes # <<>> => ~Calm'
    BY <1>12 DEF Drop, Calm
  <2> QED
    BY <2>1, <2>2, LeavesKeeps
<1>13. ASSUME NEW h \in Desks, NEW n \in 1 .. MaxNotes, FindNote(h, n) PROVE Kept
  <2> DEFINE w == [NoWork EXCEPT !.pc = "unnote", !.seen = comments, !.note = n]
  <2>1. w.pc = "unnote"
    BY DEF NoWork
  <2>2. desk' = [desk EXCEPT ![h] = w] /\ mishaps \subseteq mishaps'
        /\ assignment' = assignment /\ told' = told /\ ~Mover(h)
    BY <1>13 DEF FindNote, BeginNote, Mover
  <2> HIDE DEF w
  <2>3. desk'[h].pc = "unnote" /\ \A g \in Desks : g # h => desk'[g] = desk[g]
    BY <1>0, <2>1, <2>2
  <2> QED
    BY <2>2, <2>3, NotersKeep
<1>14. ASSUME NEW h \in Desks, RemoveNote(h) PROVE Kept
  <2>1. /\ desk' = [desk EXCEPT ![h] = NoWork] /\ assignment' = assignment /\ told' = told
        /\ mishaps' = mishaps /\ desk[h].pc = "unnote"
    BY <1>14 DEF RemoveNote
  <2> QED
    BY <2>1, LeavesKeeps
<1> QED
  BY <1>1, <1>2, <1>3, <1>4, <1>5, <1>6, <1>7, <1>8, <1>9, <1>10, <1>11, <1>12, <1>13, <1>14
  DEF AssignNext, Unsubscribe, columnVars, assignVars

(* Whatever requests about notes interleave, the last push a member got says *)
(* the assignment is his exactly if it is, once all are out, unless two      *)
(* requests about the row overlapped or a push was lost.                     *)
THEOREM PushesTellTheRow == AssignSpec => []LastPushIsTrue
<1>1. PushInv => LastPushIsTrue
  BY DEF PushInv, PushesHold, LastPushIsTrue, Calm, ToldHolder, Tells
<1>2. AssignInit => PushInv
  BY NotesInit, PushInit DEF NotesInv, PushInv
<1> QED
  BY <1>1, <1>2, PushStep, PTL DEF AssignSpec

------------------------------------------------------------------------------
(* Logins                                                                    *)

USE TokensAssumption, RolesAssumption, BearerAssumption, TtlAssumption

(* What a request has seen is as old as the request at most.                 *)
ReadersAreYoung ==
  \A h \in Readers :
    /\ reader[h].pc # "idle" => reader[h].since <= time /\ time <= reader[h].since + Latency
    /\ reader[h].pc \in {"fill", "slide", "serve"} =>
         reader[h].since <= reader[h].at /\ reader[h].at <= time

(* A copy lives CopyTtl at most beyond the request that filled it.           *)
CopiesAreShort == \A t \in Tokens : copy[t].until <= copy[t].at + CopyTtl + Latency

SessionInv == SessionTypeOK /\ ReadersAreYoung /\ CopiesAreShort

------------------------------------------------------------------------------
LEMMA FreeType == FreeReader \in Reader /\ FreeReader.pc = "idle"
<1>1. (CHOOSE t \in Tokens : TRUE) \in Tokens
  OBVIOUS
<1> QED
  BY <1>1 DEF FreeReader, Nobody, Reader, Account

LEMMA NoCopyType == NoCopy \in Copy /\ NoCopy.until = 0 /\ NoCopy.at = 0
BY DEF NoCopy, Nobody, Copy, Account

LEMMA LeastIs ==
  ASSUME NEW a \in Int, NEW b \in Int
  PROVE  Least(a, b) \in {a, b} /\ Least(a, b) <= a /\ Least(a, b) <= b
BY DEF Least

(* Whatever the refill of a copy does, it is typed and short-lived.          *)
LEMMA RefillKeeps ==
  ASSUME SessionTypeOK, CopiesAreShort, NEW h \in Readers, NEW left \in Int, Refill(h, left),
         reader[h].at <= time, time <= reader[h].at + Latency
  PROVE  copy' \in [Tokens -> Copy] /\ \A t \in Tokens : copy'[t].until <= copy'[t].at + CopyTtl + Latency
<1> DEFINE r == reader[h]
           c == CopyOf(r.account, r.at, left)
<1>1. r \in Reader /\ time \in Nat
  BY DEF SessionTypeOK
<1>2. r.token \in Tokens /\ r.account \in Account /\ r.at \in Nat
  BY <1>1 DEF Reader
<1>3. CASE copy' = copy
  BY <1>3 DEF SessionTypeOK, CopiesAreShort
<1>4. CASE left > 0 /\ copy' = [copy EXCEPT ![r.token] = c]
  <2>1. Least(left, CopyTtl) \in Nat /\ Least(left, CopyTtl) <= CopyTtl
    BY <1>4 DEF Least
  <2>2. c \in Copy /\ c.at = r.at /\ c.until = time + Least(left, CopyTtl)
    BY <1>1, <1>2, <2>1 DEF CopyOf, Copy
  <2>3. c.until <= c.at + CopyTtl + Latency
    BY <1>1, <1>2, <2>1, <2>2
  <2> HIDE DEF c
  <2> QED
    BY <1>2, <1>4, <2>2, <2>3 DEF SessionTypeOK, CopiesAreShort
<1> QED
  BY <1>3, <1>4 DEF Refill

LEMMA DropKeeps ==
  ASSUME SessionTypeOK, CopiesAreShort, NEW S, DropCopies(S)
  PROVE  copy' \in [Tokens -> Copy] /\ \A t \in Tokens : copy'[t].until <= copy'[t].at + CopyTtl + Latency
BY NoCopyType DEF DropCopies, SessionTypeOK, CopiesAreShort

LEMMA RowsKeep ==
  ASSUME SessionTypeOK, NEW S
  PROVE  RowsWithout(S) \in [Tokens -> Nat]
BY DEF RowsWithout, SessionTypeOK

LEMMA SessionTypeInit == SessionInit => SessionTypeOK
<1> SUFFICES ASSUME SessionInit PROVE SessionTypeOK
  OBVIOUS
<1>1. account \in [Staff -> Account]
  BY DEF SessionInit, Account
<1>2. reader \in [Readers -> Reader]
  BY FreeType DEF SessionInit
<1> QED
  BY <1>1, <1>2, NoCopyType DEF SessionInit, SessionTypeOK

(* What is left to show of a step that moves no request and not the clock.   *)
LEMMA OthersStep ==
  ASSUME SessionInv, UNCHANGED <<time, reader>>,
         copy' \in [Tokens -> Copy],
         \A t \in Tokens : copy'[t].until <= copy'[t].at + CopyTtl + Latency
  PROVE  ReadersAreYoung' /\ CopiesAreShort'
BY DEF SessionInv, ReadersAreYoung, CopiesAreShort

(* ... and of one that moves one request.                                    *)
LEMMA ReaderStep ==
  ASSUME SessionInv, UNCHANGED <<time, account, fresh, session, ending, edits>>,
         NEW h \in Readers, NEW r \in Reader, reader' = [reader EXCEPT ![h] = r],
         r.pc # "idle" => r.since <= time /\ time <= r.since + Latency,
         r.pc \in {"fill", "slide", "serve"} => r.since <= r.at /\ r.at <= time,
         slides' \subseteq [token : Tokens, until : Nat],
         copy' \in [Tokens -> Copy],
         \A t \in Tokens : copy'[t].until <= copy'[t].at + CopyTtl + Latency
  PROVE  SessionInv'
<1>1. SessionTypeOK'
  BY DEF SessionInv, SessionTypeOK
<1>2. ReadersAreYoung'
  BY DEF SessionInv, SessionTypeOK, ReadersAreYoung
<1>3. CopiesAreShort'
  BY DEF CopiesAreShort
<1> QED
  BY <1>1, <1>2, <1>3 DEF SessionInv

LEMMA SessionStep == SessionInv /\ [SessionNext]_sessionVars => SessionInv'
<1> SUFFICES ASSUME SessionInv, [SessionNext]_sessionVars PROVE SessionInv'
  OBVIOUS
<1>0. /\ SessionTypeOK /\ ReadersAreYoung /\ CopiesAreShort
      /\ \A h \in Readers : reader[h] \in Reader
      /\ time \in Nat /\ copy \in [Tokens -> Copy]
      /\ \A t \in Tokens : copy[t].until <= copy[t].at + CopyTtl + Latency
      /\ slides \subseteq [token : Tokens, until : Nat]
  BY DEF SessionInv, SessionTypeOK, CopiesAreShort
<1>1. ASSUME NEW h \in Readers, NEW t \in Tokens, Miss(h, t) PROVE SessionInv'
  <2> DEFINE r == [FreeReader EXCEPT !.pc = "row", !.token = t, !.since = time]
  <2>1. r \in Reader /\ r.pc = "row" /\ r.since = time
    BY <1>0, FreeType DEF Reader
  <2>2. reader' = [reader EXCEPT ![h] = r]
    BY <1>1 DEF Miss
  <2>3. /\ UNCHANGED <<time, account, fresh, session, ending, edits>>
        /\ slides' = slides /\ copy' = copy
    BY <1>1 DEF Miss
  <2> HIDE DEF r
  <2>4. r.since <= time /\ time <= r.since + Latency
    BY <1>0, <2>1
  <2>5. r.pc \notin {"fill", "slide", "serve"}
    BY <2>1
  <2> QED
    BY <1>0, <2>1, <2>2, <2>3, <2>4, <2>5, ReaderStep
<1>2. ASSUME NEW h \in Readers, ReadRow(h) PROVE SessionInv'
  <2> DEFINE old == reader[h]
             a == account[Bearer[old.token]]
             r == IF session[old.token] <= time \/ ~a.active THEN FreeReader
                  ELSE [old EXCEPT !.pc = "fill", !.account = a, !.at = time,
                                   !.until = session[old.token]]
  <2>1. old \in Reader /\ old.pc = "row" /\ old.since <= time /\ time <= old.since + Latency
    BY <1>0, <1>2 DEF ReadRow, ReadersAreYoung
  <2>2. a \in Account /\ session[old.token] \in Nat
    BY <1>0, <2>1 DEF Reader, SessionTypeOK
  <2>3. r \in Reader
    BY <1>0, <2>1, <2>2, FreeType DEF Reader
  <2>4. r.pc # "idle" => r.since = old.since /\ r.at = time
    BY <2>1, FreeType DEF Reader
  <2>5. reader' = [reader EXCEPT ![h] = r]
    BY <1>2 DEF ReadRow
  <2>6. /\ UNCHANGED <<time, account, fresh, session, ending, edits>>
        /\ slides' = slides /\ copy' = copy
    BY <1>2 DEF ReadRow
  <2>7. r.pc \in {"fill", "slide", "serve"} => r.pc # "idle"
    OBVIOUS
  <2> HIDE DEF r, a
  <2>8. r.pc # "idle" => r.since <= time /\ time <= r.since + Latency
    BY <2>1, <2>4
  <2>9. r.pc \in {"fill", "slide", "serve"} => r.since <= r.at /\ r.at <= time
    BY <1>0, <2>1, <2>4
  <2> QED
    BY <1>0, <2>3, <2>5, <2>6, <2>8, <2>9, ReaderStep
<1>3. ASSUME NEW h \in Readers, Fill(h) PROVE SessionInv'
  <2> DEFINE old == reader[h]
  <2>1. /\ old \in Reader /\ old.pc = "fill"
        /\ old.since <= time /\ time <= old.since + Latency
        /\ old.since <= old.at /\ old.at <= time
        /\ old.since \in Nat /\ old.at \in Nat /\ old.until \in Nat /\ old.token \in Tokens
    BY <1>0, <1>3 DEF Fill, ReadersAreYoung, Reader
  <2>2. time <= old.at + Latency
    BY <1>0, <2>1
  <2>3. /\ copy' \in [Tokens -> Copy]
        /\ \A t \in Tokens : copy'[t].until <= copy'[t].at + CopyTtl + Latency
    BY <1>0, <1>3, <2>1, <2>2, RefillKeeps DEF Fill
  <2>4. PICK pc \in {"slide", "serve"} : reader' = [reader EXCEPT ![h] = [old EXCEPT !.pc = pc]]
    BY <1>0, <1>3 DEF Fill, SessionTypeOK
  <2>5. slides' \subseteq [token : Tokens, until : Nat]
    BY <1>0, <1>3, <2>1 DEF Fill
  <2> DEFINE r == [old EXCEPT !.pc = pc]
  <2>6. r \in Reader /\ r.since = old.since /\ r.at = old.at
    BY <2>1 DEF Reader
  <2> HIDE DEF r
  <2>7. reader' = [reader EXCEPT ![h] = r]
    BY <2>4 DEF r
  <2> QED
    BY <1>0, <1>3, <2>1, <2>3, <2>5, <2>6, <2>7, ReaderStep DEF Fill
<1>4. ASSUME NEW h \in Readers, FillAgain(h) PROVE SessionInv'
  <2> DEFINE old == reader[h]
             r == [old EXCEPT !.pc = "serve"]
  <2>1. /\ old \in Reader /\ old.pc = "slide"
        /\ old.since <= time /\ time <= old.since + Latency
        /\ old.since <= old.at /\ old.at <= time
        /\ old.since \in Nat /\ old.at \in Nat /\ old.until \in Nat /\ old.token \in Tokens
    BY <1>0, <1>4 DEF FillAgain, ReadersAreYoung, Reader
  <2>2. time <= old.at + Latency
    BY <1>0, <2>1
  <2>3. /\ copy' \in [Tokens -> Copy]
        /\ \A t \in Tokens : copy'[t].until <= copy'[t].at + CopyTtl + Latency
    BY <1>0, <1>4, <2>1, <2>2, RefillKeeps DEF FillAgain
  <2>4. r \in Reader /\ r.since = old.since /\ r.at = old.at
    BY <2>1 DEF Reader
  <2>5. reader' = [reader EXCEPT ![h] = r]
    BY <1>4 DEF FillAgain
  <2> HIDE DEF r
  <2> QED
    BY <1>0, <1>4, <2>1, <2>3, <2>4, <2>5, ReaderStep DEF FillAgain
<1>5. ASSUME NEW h \in Readers, Serve(h) PROVE SessionInv'
  BY <1>0, <1>5, FreeType, ReaderStep DEF Serve
<1>6. ASSUME NEW s \in slides, Slide(s) PROVE SessionInv'
  <2>1. s.token \in Tokens /\ s.until \in Nat
    BY <1>0
  <2>2. SessionTypeOK'
    BY <1>0, <1>6, <2>1 DEF Slide, SessionTypeOK
  <2> QED
    BY <1>0, <1>6, <2>2, OthersStep DEF Slide, SessionInv
<1>7. ASSUME NEW t \in Tokens, Login(t) PROVE SessionInv'
  <2>1. session' \in [Tokens -> Nat] /\ fresh' \subseteq Tokens
    BY <1>0, <1>7 DEF Login, SessionTypeOK
  <2>2. SessionTypeOK'
    BY <1>0, <1>7, <2>1 DEF Login, SessionTypeOK
  <2> QED
    BY <1>0, <1>7, <2>2, OthersStep DEF Login, SessionInv
<1>8. ASSUME NEW t \in Tokens, Logout(t) PROVE SessionInv'
  <2>1. /\ copy' \in [Tokens -> Copy]
        /\ \A q \in Tokens : copy'[q].until <= copy'[q].at + CopyTtl + Latency
    BY <1>0, <1>8, DropKeeps DEF Logout
  <2>2. SessionTypeOK'
    BY <1>0, <1>8, <2>1 DEF Logout, EditUser, SessionTypeOK
  <2> QED
    BY <1>0, <1>8, <2>1, <2>2, OthersStep DEF Logout, SessionInv
<1>9. ASSUME NEW t \in Tokens, EndSession(t) PROVE SessionInv'
  <2>1. SessionTypeOK'
    BY <1>0, <1>9, RowsKeep DEF EndSession, EditUser, SessionTypeOK
  <2> QED
    BY <1>0, <1>9, <2>1, OthersStep DEF EndSession, SessionInv
<1>10. ASSUME NEW u \in Staff, Disable(u) PROVE SessionInv'
  <2>1. /\ copy' \in [Tokens -> Copy]
        /\ \A q \in Tokens : copy'[q].until <= copy'[q].at + CopyTtl + Latency
    BY <1>0, <1>10, DropKeeps DEF Disable
  <2>2. account' \in [Staff -> Account]
    BY <1>0, <1>10 DEF Disable, SessionTypeOK, Account
  <2>3. SessionTypeOK'
    BY <1>0, <1>10, <2>1, <2>2 DEF Disable, EditUser, Owned, SessionTypeOK
  <2> QED
    BY <1>0, <1>10, <2>1, <2>3, OthersStep DEF Disable, SessionInv
<1>11. ASSUME NEW u \in Staff, Enable(u) PROVE SessionInv'
  <2>1. account' \in [Staff -> Account]
    BY <1>0, <1>11 DEF Enable, SessionTypeOK, Account
  <2>2. SessionTypeOK'
    BY <1>0, <1>11, <2>1 DEF Enable, EditUser, SessionTypeOK
  <2> QED
    BY <1>0, <1>11, <2>2, OthersStep DEF Enable, SessionInv
<1>12. ASSUME NEW u \in Staff, Yoink(u) PROVE SessionInv'
  <2>1. account' \in [Staff -> Account]
    BY <1>0, <1>12 DEF Yoink, SessionTypeOK, Account
  <2>2. SessionTypeOK'
    BY <1>0, <1>12, <2>1, RowsKeep DEF Yoink, EditUser, SessionTypeOK
  <2> QED
    BY <1>0, <1>12, <2>2, OthersStep DEF Yoink, SessionInv
<1>13. ASSUME NEW u \in Staff, NEW role \in Roles, SetRole(u, role) PROVE SessionInv'
  <2>1. account' \in [Staff -> Account]
    BY <1>0, <1>13 DEF SetRole, SessionTypeOK, Account
  <2>2. SessionTypeOK'
    BY <1>0, <1>13, <2>1 DEF SetRole, EditUser, SessionTypeOK
  <2> QED
    BY <1>0, <1>13, <2>2, OthersStep DEF SetRole, SessionInv
<1>14. ASSUME DropRows PROVE SessionInv'
  <2>1. SessionTypeOK'
    BY <1>0, <1>14, RowsKeep DEF DropRows, SessionTypeOK
  <2> QED
    BY <1>0, <1>14, <2>1, OthersStep DEF DropRows, SessionInv
<1>15. ASSUME CleanExpired PROVE SessionInv'
  <2>1. SessionTypeOK'
    BY <1>0, <1>15, RowsKeep DEF CleanExpired, SessionTypeOK
  <2> QED
    BY <1>0, <1>15, <2>1, OthersStep DEF CleanExpired, SessionInv
<1>16. ASSUME SessionTick PROVE SessionInv'
  <2>1. SessionTypeOK'
    BY <1>0, <1>16 DEF SessionTick, SessionTypeOK
  <2>2. ReadersAreYoung'
    BY <1>0, <1>16 DEF SessionTick, ReadersAreYoung, Reader
  <2> QED
    BY <1>0, <1>16, <2>1, <2>2 DEF SessionTick, CopiesAreShort, SessionInv
<1>17. ASSUME UNCHANGED sessionVars PROVE SessionInv'
  BY <1>0, <1>17 DEF sessionVars, SessionInv, SessionTypeOK, ReadersAreYoung, CopiesAreShort
<1> QED
  BY <1>1, <1>2, <1>3, <1>4, <1>5, <1>6, <1>7, <1>8, <1>9, <1>10, <1>11, <1>12, <1>13, <1>14,
     <1>15, <1>16, <1>17 DEF SessionNext

LEMMA SessionInvInit == SessionInit => SessionInv
<1> SUFFICES ASSUME SessionInit PROVE ReadersAreYoung /\ CopiesAreShort
  BY SessionTypeInit DEF SessionInv
<1>1. ReadersAreYoung
  BY FreeType DEF SessionInit, ReadersAreYoung
<1>2. CopiesAreShort
  BY NoCopyType DEF SessionInit, CopiesAreShort
<1> QED
  BY <1>1, <1>2

(* Users, sessions, copies and requests keep their types (auth.ts).          *)
THEOREM SessionTypes == SessionSpec => []SessionTypeOK
<1>1. SessionInv => SessionTypeOK
  BY DEF SessionInv
<1> QED
  BY <1>1, SessionInvInit, SessionStep, PTL DEF SessionSpec

(* For any lifetimes and any number of requests, logouts and changes of      *)
(* users between their steps: no request is answered with an account seen    *)
(* longer ago than a copy lives and a request takes (auth.ts:64-142).        *)
THEOREM RecentlySeen == SessionSpec => []ServedIsRecent
<1>1. SessionInv => ServedIsRecent
  <2> SUFFICES ASSUME SessionInv PROVE ServedIsRecent
    OBVIOUS
  <2>0. /\ time \in Nat
        /\ \A t \in Tokens : copy[t] \in Copy
        /\ \A h \in Readers : reader[h] \in Reader
    BY DEF SessionInv, SessionTypeOK
  <2>1. ASSUME NEW t \in Tokens, Cached(t) PROVE time - copy[t].at <= CopyTtl + Latency
    <3>1. copy[t].at \in Nat /\ copy[t].until \in Nat
      BY <2>0 DEF Copy
    <3> QED
      BY <2>0, <2>1, <3>1 DEF Cached, SessionInv, CopiesAreShort
  <2>2. ASSUME NEW h \in Readers, reader[h].pc = "serve" PROVE time - reader[h].at <= Latency
    <3>1. reader[h].at \in Nat /\ reader[h].since \in Nat
      BY <2>0 DEF Reader
    <3> QED
      BY <2>0, <2>2, <3>1 DEF SessionInv, ReadersAreYoung
  <2> QED
    BY <2>1, <2>2 DEF ServedIsRecent
<1> QED
  BY <1>1, SessionInvInit, SessionStep, PTL DEF SessionSpec

------------------------------------------------------------------------------
(* The mirror                                                                *)

USE BatchAssumption, IdsAssumption

Below(t, i) == {j \in Rows(t) : j < i}

(* What a pass has behind it: at the time it began nothing was newer than    *)
(* now; the rows before its offset are in the mirror as it found them, and   *)
(* so is the first table once it is at the second; the page in its hands is  *)
(* no older than that, no newer than the table, and not older than what the  *)
(* mirror has; and what the page lacks is further on, or done.               *)
PassHolds(p) ==
  pass[p].pc # "idle" =>
    LET t == pass[p].of  begun == pass[p].begun IN
    /\ \A u \in Tables, i \in Ids : begun[u][i] <= table[u][i]
    /\ ~racing /\ t = "ysws_reviews" =>
         \A i \in Ids : begun["ship_certs"][i] <= mirror["ship_certs"][i]
    /\ ~racing => \A i \in Ids :
         begun[t][i] > 0 /\ Cardinality(Below(t, i)) < pass[p].offset => begun[t][i] <= mirror[t][i]
    /\ pass[p].pc = "upsert" => \A i \in Ids :
         /\ begun[t][i] <= pass[p].got[i] /\ pass[p].got[i] <= table[t][i]
         /\ ~racing => mirror[t][i] <= pass[p].got[i]
         /\ ~racing /\ begun[t][i] > 0 /\ i \notin pass[p].page /\
              (Cardinality(pass[p].page) < Batch \/
                 Cardinality(Below(t, i)) < pass[p].offset + Cardinality(pass[p].page))
              => begun[t][i] <= mirror[t][i]

Mirrored ==
  /\ \A t \in Tables, i \in Ids : table[t][i] <= epoch /\ mirror[t][i] <= table[t][i]
  /\ ~racing => \A t \in Tables, i \in Ids : floor[t][i] <= mirror[t][i]

OnePass == ~racing => \A p, q \in Passes : pass[p].pc # "idle" /\ pass[q].pc # "idle" => p = q

MirrorInv == PgTypeOK /\ Mirrored /\ OnePass /\ \A p \in Passes : PassHolds(p)

(* The first n of a finite set of numbers are n, or all of them.             *)
LEMMA FirstOnes ==
  ASSUME NEW R \in SUBSET Nat, IsFiniteSet(R), NEW n \in Nat, NEW S, IsFirst(S, n, R)
  PROVE  /\ IsFiniteSet(S) /\ Cardinality(S) \in Nat /\ Cardinality(S) <= n
         /\ S # R => Cardinality(S) = n
<1>1. S \in SUBSET R /\ Cardinality(S) = Lesser(n, Cardinality(R))
  BY DEF IsFirst
<1>2. /\ IsFiniteSet(S) /\ (Cardinality(R) = Cardinality(S) => R = S)
  BY <1>1, FS_Subset
<1>3. Cardinality(S) \in Nat /\ Cardinality(R) \in Nat
  BY <1>2, FS_CardinalityType
<1> QED
  BY <1>1, <1>2, <1>3 DEF Lesser

(* Before one of the first n there are fewer than n.                         *)
LEMMA SkippedAreLow ==
  ASSUME NEW R \in SUBSET Nat, IsFiniteSet(R), NEW n \in Nat, NEW S, IsFirst(S, n, R), NEW i \in S
  PROVE  Cardinality({j \in R : j < i}) < n
<1> DEFINE B == {j \in R : j < i}
<1>1. IsFiniteSet(S) /\ Cardinality(S) \in Nat /\ Cardinality(S) <= n
  BY FirstOnes
<1>2. S \subseteq R /\ \A k \in S, j \in R \ S : k < j
  BY DEF IsFirst
<1>3. B \in SUBSET (S \ {i})
  <2> SUFFICES ASSUME NEW j \in B PROVE j \in S /\ j # i
    OBVIOUS
  <2>1. j \in R /\ j \in Nat /\ i \in Nat /\ j < i
    BY <1>2
  <2>2. j \notin S => i < j
    BY <1>2, <2>1
  <2> QED
    BY <2>1, <2>2
<1>4. IsFiniteSet(S \ {i}) /\ Cardinality(S \ {i}) = Cardinality(S) - 1
  BY <1>1, FS_RemoveElement
<1>5. Cardinality(B) <= Cardinality(S \ {i}) /\ IsFiniteSet(B)
  BY <1>3, <1>4, FS_Subset
<1>6. Cardinality(B) \in Nat
  BY <1>5, FS_CardinalityType
<1> QED
  BY <1>1, <1>4, <1>5, <1>6

(* Before one that is on neither there are all the rows skipped and paged,   *)
(* and the page is full.                                                     *)
LEMMA LeftOutIsHigh ==
  ASSUME NEW R \in SUBSET Nat, IsFiniteSet(R), NEW n \in Nat, NEW b \in Nat,
         NEW S, IsFirst(S, n, R), NEW P, IsFirst(P, b, R \ S), NEW i \in R, i \notin S, i \notin P
  PROVE  /\ Cardinality(P) = b
         /\ Cardinality({j \in R : j < i}) >= n + Cardinality(P)
<1> DEFINE B == {j \in R : j < i}
<1>1. IsFiniteSet(S) /\ Cardinality(S) = n
  BY FirstOnes
<1>2. IsFiniteSet(R \ S) /\ R \ S \in SUBSET Nat
  BY FS_Difference
<1>3. IsFiniteSet(P) /\ Cardinality(P) = b
  BY <1>2, FirstOnes
<1>4. /\ S \subseteq R /\ \A k \in S, j \in R \ S : k < j
      /\ P \subseteq R \ S /\ \A k \in P, j \in (R \ S) \ P : k < j
  BY DEF IsFirst
<1>5. S \cup P \in SUBSET B /\ S \cap P = {}
  BY <1>4
<1>6. Cardinality(S \cup P) = Cardinality(S) + Cardinality(P) - Cardinality(S \cap P)
  BY <1>1, <1>3, FS_Union
<1>7. IsFiniteSet(B) /\ Cardinality(S \cap P) = 0
  <2>1. B \in SUBSET R
    OBVIOUS
  <2>2. IsFiniteSet(B)
    BY <2>1, FS_Subset
  <2> QED
    BY <1>5, <2>2, FS_EmptySet
<1>8. Cardinality(S \cup P) <= Cardinality(B)
  BY <1>5, <1>7, FS_Subset
<1>9. Cardinality(B) \in Nat
  BY <1>7, FS_CardinalityType
<1> QED
  BY <1>1, <1>3, <1>6, <1>7, <1>8, <1>9

LEMMA RowsAreFinite ==
  ASSUME NEW t, NEW i
  PROVE  /\ Rows(t) \in SUBSET Nat /\ IsFiniteSet(Rows(t))
         /\ IsFiniteSet(Below(t, i)) /\ Cardinality(Below(t, i)) \in Nat
<1>1. Rows(t) \in SUBSET Ids /\ Below(t, i) \in SUBSET Ids
  BY DEF Rows, Below
<1>2. IsFiniteSet(Rows(t)) /\ IsFiniteSet(Below(t, i))
  BY <1>1, FS_Subset
<1> QED
  BY <1>1, <1>2, FS_CardinalityType

(* Rows never go, so nothing moves towards the front.                        *)
LEMMA BelowGrows ==
  ASSUME NEW t \in Tables, NEW i \in Ids, table \in Contents, table' \in Contents,
         \A j \in Ids : table[t][j] <= table'[t][j]
  PROVE  Cardinality(Below(t, i)) <= Cardinality(Below(t, i)')
<1>1. \A j \in Ids : table[t][j] \in Nat /\ table'[t][j] \in Nat
  BY DEF Contents
<1>2. Below(t, i) \in SUBSET (Below(t, i)')
  <2>1. \A j \in Ids : table[t][j] > 0 => table'[t][j] > 0
    <3> TAKE j \in Ids
    <3>1. table[t][j] \in Nat /\ table'[t][j] \in Nat /\ table[t][j] <= table'[t][j]
      BY <1>1
    <3> QED
      BY <3>1
  <2> QED
    BY <2>1 DEF Below, Rows
<1>3. Below(t, i)' \in SUBSET Ids
  BY DEF Below, Rows
<1>4. IsFiniteSet(Below(t, i)')
  BY <1>3, FS_Subset
<1> QED
  BY <1>2, <1>4, FS_Subset

(* A pass that does not move, while the tables only grow and the mirror is   *)
(* let alone or it does not care.                                            *)
LEMMA PassesHold ==
  ASSUME PgTypeOK, table' \in Contents, NEW p \in Passes, PassHolds(p), pass'[p] = pass[p],
         \A t \in Tables, i \in Ids : table[t][i] <= table'[t][i],
         ~racing' => ~racing /\ (mirror' = mirror \/ pass[p].pc = "idle")
  PROVE  PassHolds(p)'
<1> DEFINE t == pass[p].of
           b == pass[p].begun
<1>1. /\ t \in Tables /\ b \in Contents /\ pass[p].offset \in Nat /\ pass[p].got \in [Ids -> Nat]
      /\ pass[p].page \in SUBSET Ids /\ table \in Contents /\ mirror \in Contents
  BY DEF PgTypeOK, Pass
<1>2. \A u \in Tables, i \in Ids : table[u][i] \in Nat /\ table'[u][i] \in Nat /\ b[u][i] \in Nat
                                   /\ mirror[u][i] \in Nat
  BY <1>1 DEF Contents
<1>3. \A i \in Ids : /\ Cardinality(Below(t, i)) <= Cardinality(Below(t, i)')
                     /\ Cardinality(Below(t, i)) \in Nat /\ Cardinality(Below(t, i)') \in Nat
  <2> TAKE i \in Ids
  <2>1. Cardinality(Below(t, i)) <= Cardinality(Below(t, i)')
    BY <1>1, BelowGrows
  <2>2. Cardinality(Below(t, i)) \in Nat
    BY RowsAreFinite
  <2>3. Below(t, i)' \in SUBSET Ids
    BY DEF Below, Rows
  <2>4. Cardinality(Below(t, i)') \in Nat
    BY <2>3, FS_Subset, FS_CardinalityType
  <2> QED
    BY <2>1, <2>2, <2>4
<1>4. IsFiniteSet(pass[p].page) /\ Cardinality(pass[p].page) \in Nat
  BY <1>1, FS_Subset, FS_CardinalityType
<1> SUFFICES ASSUME pass[p].pc # "idle"
             PROVE  PassHolds(p)'
  BY DEF PassHolds
<1>5. ~racing' => ~racing /\ mirror' = mirror
  OBVIOUS
<1>6. \A u \in Tables, i \in Ids : b[u][i] <= table'[u][i]
  BY <1>2 DEF PassHolds
<1>7. ~racing' /\ t = "ysws_reviews" =>
        \A i \in Ids : b["ship_certs"][i] <= mirror'["ship_certs"][i]
  BY <1>5 DEF PassHolds
<1>8. ASSUME NEW i \in Ids
      PROVE  ~racing' /\ b[t][i] > 0 /\ Cardinality(Below(t, i)') < pass[p].offset =>
               b[t][i] <= mirror'[t][i]
  <2>1. Cardinality(Below(t, i)') < pass[p].offset => Cardinality(Below(t, i)) < pass[p].offset
    BY <1>1, <1>3
  <2> QED
    BY <1>5, <2>1 DEF PassHolds
<1>9. ASSUME pass[p].pc = "upsert", NEW i \in Ids
      PROVE  /\ b[t][i] <= pass[p].got[i] /\ pass[p].got[i] <= table'[t][i]
             /\ ~racing' => mirror'[t][i] <= pass[p].got[i]
             /\ ~racing' /\ b[t][i] > 0 /\ i \notin pass[p].page /\
                  (Cardinality(pass[p].page) < Batch \/
                     Cardinality(Below(t, i)') < pass[p].offset + Cardinality(pass[p].page))
                  => b[t][i] <= mirror'[t][i]
  <2>1. Cardinality(Below(t, i)') < pass[p].offset + Cardinality(pass[p].page) =>
          Cardinality(Below(t, i)) < pass[p].offset + Cardinality(pass[p].page)
    <3>1. /\ Cardinality(Below(t, i)) <= Cardinality(Below(t, i)')
          /\ Cardinality(Below(t, i)) \in Nat /\ Cardinality(Below(t, i)') \in Nat
          /\ pass[p].offset + Cardinality(pass[p].page) \in Nat
      BY <1>1, <1>3, <1>4
    <3> QED
      BY <3>1
  <2>2. /\ b[t][i] <= pass[p].got[i] /\ pass[p].got[i] <= table[t][i]
        /\ ~racing => mirror[t][i] <= pass[p].got[i]
    BY <1>9 DEF PassHolds
  <2>3. pass[p].got[i] <= table'[t][i]
    <3>1. /\ pass[p].got[i] \in Nat /\ table[t][i] \in Nat /\ table'[t][i] \in Nat
          /\ table[t][i] <= table'[t][i]
      BY <1>1, <1>2
    <3> QED
      BY <2>2, <3>1
  <2>4. ~racing /\ b[t][i] > 0 /\ i \notin pass[p].page /\
          (Cardinality(pass[p].page) < Batch \/
             Cardinality(Below(t, i)) < pass[p].offset + Cardinality(pass[p].page))
          => b[t][i] <= mirror[t][i]
    BY <1>9 DEF PassHolds
  <2> QED
    BY <1>5, <2>1, <2>2, <2>3, <2>4
<1> QED
  BY <1>6, <1>7, <1>8, <1>9 DEF PassHolds

(* The end of a table, when the mirror has it all: the pass goes on with the *)
(* second, or is done, and what it found at the beginning is the floor.      *)
LEMMA EndedHolds ==
  ASSUME PgTypeOK, NEW p \in Passes, PassHolds(p), pass[p].pc # "idle", Ended(p),
         table' = table, racing' = racing, mirror' \in Contents,
         ~racing => \A t \in Tables, i \in Ids : mirror[t][i] <= mirror'[t][i],
         ~racing => \A i \in Ids : pass[p].begun[pass[p].of][i] <= mirror'[pass[p].of][i],
         ~racing => \A t \in Tables, i \in Ids : floor[t][i] <= mirror[t][i]
  PROVE  /\ pass' \in [Passes -> Pass] /\ floor' \in Contents
         /\ \A q \in Passes : q # p => pass'[q] = pass[q]
         /\ PassHolds(p)'
         /\ ~racing => \A t \in Tables, i \in Ids : floor'[t][i] <= mirror'[t][i]
<1> DEFINE b == pass[p].begun
<1>1. /\ b \in Contents /\ pass[p].of \in Tables /\ pass \in [Passes -> Pass]
      /\ mirror \in Contents /\ floor \in Contents
  BY DEF PgTypeOK, Pass
<1>2. \A t \in Tables, i \in Ids : /\ mirror[t][i] \in Nat /\ mirror'[t][i] \in Nat
                                   /\ floor[t][i] \in Nat /\ b[t][i] \in Nat
  <2>1. \A c \in Contents, t \in Tables, i \in Ids : c[t][i] \in Nat
    BY DEF Contents
  <2> QED
    BY <1>1, <2>1
<1>3. \A t \in Tables, i \in Ids : b[t][i] <= table[t][i]
  BY DEF PassHolds
<1>4. Tables = {"ship_certs", "ysws_reviews"}
  BY DEF Tables
<1>5. ~racing => \A t \in Tables, i \in Ids : floor[t][i] <= mirror'[t][i]
  <2> SUFFICES ASSUME ~racing, NEW t \in Tables, NEW i \in Ids PROVE floor[t][i] <= mirror'[t][i]
    OBVIOUS
  <2>1. floor[t][i] <= mirror[t][i] /\ mirror[t][i] <= mirror'[t][i]
    OBVIOUS
  <2> QED
    BY <1>2, <2>1
<1>6. CASE /\ pass[p].of = "ship_certs" /\ floor' = floor
           /\ pass' = [pass EXCEPT ![p] = [Resting EXCEPT !.pc = "read", !.of = "ysws_reviews",
                                                          !.begun = b]]
  <2> DEFINE w == [Resting EXCEPT !.pc = "read", !.of = "ysws_reviews", !.begun = b]
  <2>1. w \in Pass /\ w.pc = "read" /\ w.of = "ysws_reviews" /\ w.begun = b /\ w.offset = 0
    BY <1>1, <1>4 DEF Pass, Resting
  <2>2. pass' = [pass EXCEPT ![p] = w]
    BY <1>6
  <2> HIDE DEF w
  <2>3. pass' \in [Passes -> Pass] /\ pass'[p] = w /\ \A q \in Passes : q # p => pass'[q] = pass[q]
    BY <1>1, <2>1, <2>2
  <2>4. \A i \in Ids : ~(Cardinality(Below("ysws_reviews", i)') < 0)
    <3> TAKE i \in Ids
    <3>1. Below("ysws_reviews", i)' \in SUBSET Ids
      BY DEF Below, Rows
    <3>2. Cardinality(Below("ysws_reviews", i)') \in Nat
      BY <3>1, FS_Subset, FS_CardinalityType
    <3> QED
      BY <3>2
  <2>5. ~racing => \A i \in Ids : b["ship_certs"][i] <= mirror'["ship_certs"][i]
    BY <1>6
  <2>6. PassHolds(p)'
    BY <1>3, <2>1, <2>3, <2>4, <2>5 DEF PassHolds
  <2> QED
    BY <1>1, <1>5, <1>6, <2>3, <2>6
<1>7. CASE pass[p].of # "ship_certs" /\ pass' = [pass EXCEPT ![p] = Resting] /\ floor' = b
  <2>1. Resting \in Pass /\ Resting.pc = "idle"
    BY <1>4 DEF Pass, Resting, Empty, Contents
  <2>2. pass' \in [Passes -> Pass] /\ pass'[p] = Resting /\ \A q \in Passes : q # p => pass'[q] = pass[q]
    BY <1>1, <1>7, <2>1
  <2>3. PassHolds(p)'
    BY <2>1, <2>2 DEF PassHolds
  <2>4. pass[p].of = "ysws_reviews"
    BY <1>1, <1>4, <1>7
  <2>5. ASSUME ~racing, NEW t \in Tables, NEW i \in Ids PROVE b[t][i] <= mirror'[t][i]
    <3>1. CASE t = "ysws_reviews"
      BY <2>4, <2>5, <3>1
    <3>2. CASE t = "ship_certs"
      <4>1. b[t][i] <= mirror[t][i]
        BY <2>4, <2>5, <3>2 DEF PassHolds
      <4>2. mirror[t][i] <= mirror'[t][i]
        BY <2>5
      <4> QED
        BY <1>2, <4>1, <4>2
    <3> QED
      BY <1>4, <3>1, <3>2
  <2> QED
    BY <1>1, <1>7, <2>2, <2>3, <2>5
<1> QED
  BY <1>6, <1>7 DEF Ended

LEMMA MirrorInitHolds == PgInit => MirrorInv
<1> SUFFICES ASSUME PgInit PROVE MirrorInv
  OBVIOUS
<1>1. Empty \in Contents /\ \A t \in Tables, i \in Ids : Empty[t][i] = 0
  BY DEF Empty, Contents
<1>2. Resting \in Pass /\ Resting.pc = "idle"
  BY <1>1 DEF Pass, Resting, Tables
<1>3. PgTypeOK
  BY <1>1, <1>2 DEF PgInit, PgTypeOK
<1>4. \A p \in Passes : pass[p].pc = "idle"
  BY <1>2 DEF PgInit
<1>5. OnePass /\ \A p \in Passes : PassHolds(p)
  BY <1>4 DEF OnePass, PassHolds
<1>6. Mirrored
  <2>1. \A t \in Tables, i \in Ids : table[t][i] = 0 /\ mirror[t][i] = 0 /\ floor[t][i] = 0 /\ epoch = 0
    BY <1>1 DEF PgInit
  <2> QED
    BY <2>1 DEF Mirrored
<1> QED
  BY <1>3, <1>5, <1>6 DEF MirrorInv

LEMMA MirrorStep == MirrorInv /\ [PgNext]_pgVars => MirrorInv'
<1> SUFFICES ASSUME MirrorInv, [PgNext]_pgVars PROVE MirrorInv'
  OBVIOUS
<1>0. /\ PgTypeOK /\ Mirrored /\ OnePass /\ \A p \in Passes : PassHolds(p)
      /\ table \in Contents /\ mirror \in Contents /\ floor \in Contents /\ epoch \in Nat
      /\ pass \in [Passes -> Pass] /\ racing \in BOOLEAN
  BY DEF MirrorInv, PgTypeOK
<1>n. \A t \in Tables, i \in Ids : /\ table[t][i] \in Nat /\ mirror[t][i] \in Nat /\ floor[t][i] \in Nat
                                   /\ table[t][i] <= table[t][i] /\ mirror[t][i] <= mirror[t][i]
  BY <1>0 DEF Contents
<1>1. ASSUME NEW t \in Tables, NEW i \in Ids, WriteRow(t, i) PROVE MirrorInv'
  <2>1. /\ epoch' = epoch + 1 /\ table' = [table EXCEPT ![t][i] = epoch + 1]
        /\ mirror' = mirror /\ pass' = pass /\ floor' = floor /\ racing' = racing
    BY <1>1 DEF WriteRow
  <2>2. table' \in Contents
    BY <1>0, <2>1 DEF Contents
  <2>3. \A u \in Tables, j \in Ids : table'[u][j] = IF u = t /\ j = i THEN epoch + 1 ELSE table[u][j]
    BY <1>0, <2>1 DEF Contents
  <2>4. \A u \in Tables, j \in Ids : table[u][j] <= table'[u][j] /\ table'[u][j] <= epoch'
    BY <1>0, <1>n, <2>1, <2>3 DEF Mirrored
  <2>5. Mirrored'
    <3>1. \A u \in Tables, j \in Ids : mirror[u][j] <= table'[u][j]
      <4> TAKE u \in Tables, j \in Ids
      <4>1. mirror[u][j] <= table[u][j] /\ table[u][j] <= table'[u][j] /\ table'[u][j] \in Nat
        BY <1>0, <2>2, <2>4 DEF Mirrored, Contents
      <4> QED
        BY <1>n, <4>1
    <3> QED
      BY <1>0, <2>1, <2>4, <3>1 DEF Mirrored
  <2>6. PgTypeOK' /\ OnePass'
    BY <1>0, <2>1, <2>2 DEF PgTypeOK, OnePass
  <2>7. ASSUME NEW p \in Passes PROVE PassHolds(p)'
    BY <1>0, <2>1, <2>2, <2>4, PassesHold
  <2> QED
    BY <2>5, <2>6, <2>7 DEF MirrorInv
<1>2. ASSUME NEW p \in Passes, StartPass(p) PROVE MirrorInv'
  <2> DEFINE w == [Resting EXCEPT !.pc = "read", !.begun = table]
  <2>1. /\ pass[p].pc = "idle" /\ pass' = [pass EXCEPT ![p] = w]
        /\ racing' = (racing \/ \E q \in Passes : pass[q].pc # "idle")
        /\ table' = table /\ mirror' = mirror /\ epoch' = epoch /\ floor' = floor
    BY <1>2 DEF StartPass
  <2>2. w \in Pass /\ w.pc = "read" /\ w.of = "ship_certs" /\ w.begun = table /\ w.offset = 0
    BY <1>0 DEF Pass, Resting, Tables, Contents
  <2> HIDE DEF w
  <2>3. pass' \in [Passes -> Pass] /\ pass'[p] = w /\ \A q \in Passes : q # p => pass'[q] = pass[q]
    BY <1>0, <2>1, <2>2
  <2>4. PgTypeOK' /\ Mirrored'
    BY <1>0, <2>1, <2>3 DEF PgTypeOK, Mirrored
  <2>5. OnePass'
    BY <1>0, <2>1, <2>3 DEF OnePass
  <2>6. PassHolds(p)'
    <3>1. \A j \in Ids : ~(Cardinality(Below("ship_certs", j)') < 0)
      <4> TAKE j \in Ids
      <4>1. Below("ship_certs", j)' \in SUBSET Ids
        BY DEF Below, Rows
      <4>2. Cardinality(Below("ship_certs", j)') \in Nat
        BY <4>1, FS_Subset, FS_CardinalityType
      <4> QED
        BY <4>2
    <3> QED
      BY <1>n, <2>1, <2>2, <2>3, <3>1 DEF PassHolds
  <2>7. ASSUME NEW q \in Passes, q # p PROVE PassHolds(q)'
    <3>1. ~racing' => ~racing /\ (mirror' = mirror \/ pass[q].pc = "idle")
      BY <2>1
    <3>2. table' \in Contents /\ PassHolds(q) /\ pass'[q] = pass[q]
      BY <1>0, <2>1, <2>3, <2>7
    <3>3. \A u \in Tables, j \in Ids : table[u][j] <= table'[u][j]
      BY <1>n, <2>1
    <3> QED
      BY <1>0, <3>1, <3>2, <3>3, PassesHold
  <2> QED
    BY <2>4, <2>5, <2>6, <2>7 DEF MirrorInv
<1>3. ASSUME NEW p \in Passes, ReadPage(p) PROVE MirrorInv'
  <2> DEFINE t == pass[p].of
             b == pass[p].begun
             R == Rows(t)
  <2>1. PICK skipped \in SUBSET R : \E page \in SUBSET (R \ skipped) :
          /\ IsFirst(skipped, pass[p].offset, R) /\ IsFirst(page, Batch, R \ skipped)
          /\ IF page = {} THEN Ended(p)
             ELSE /\ pass' = [pass EXCEPT ![p].pc = "upsert", ![p].page = page,
                                          ![p].got = table[pass[p].of]]
                  /\ floor' = floor
    BY <1>3 DEF ReadPage
  <2>2. PICK page \in SUBSET (R \ skipped) :
          /\ IsFirst(skipped, pass[p].offset, R) /\ IsFirst(page, Batch, R \ skipped)
          /\ IF page = {} THEN Ended(p)
             ELSE /\ pass' = [pass EXCEPT ![p].pc = "upsert", ![p].page = page,
                                          ![p].got = table[pass[p].of]]
                  /\ floor' = floor
    BY <2>1
  <2>3. /\ pass[p].pc = "read" /\ table' = table /\ mirror' = mirror /\ epoch' = epoch /\ racing' = racing
    BY <1>3 DEF ReadPage
  <2>4. /\ t \in Tables /\ b \in Contents /\ pass[p].offset \in Nat /\ pass[p] \in Pass
        /\ R \in SUBSET Nat /\ IsFiniteSet(R) /\ Batch \in Nat /\ Batch > 0
    <3>1. t \in Tables /\ b \in Contents /\ pass[p].offset \in Nat /\ pass[p] \in Pass
      BY <1>0 DEF Pass
    <3>2. R \in SUBSET Nat /\ IsFiniteSet(R)
      BY RowsAreFinite
    <3> QED
      BY <3>1, <3>2
  <2>5. \A i \in Ids : b[t][i] > 0 => i \in R
    <3> TAKE i \in Ids
    <3>1. b[t][i] <= table[t][i]
      BY <1>0, <2>3, <2>4 DEF PassHolds
    <3>2. b[t][i] \in Nat /\ table[t][i] \in Nat
      BY <1>0, <2>4 DEF Contents
    <3> QED
      BY <3>1, <3>2 DEF Rows
  <2>6. ASSUME ~racing, NEW i \in Ids, b[t][i] > 0, i \in skipped PROVE b[t][i] <= mirror[t][i]
    <3>1. Cardinality(Below(t, i)) < pass[p].offset
      BY <2>2, <2>4, <2>6, SkippedAreLow DEF Below
    <3> QED
      BY <1>0, <2>3, <2>6, <3>1 DEF PassHolds
  <2>7. ASSUME NEW i \in Ids, b[t][i] > 0, i \notin skipped, i \notin page
        PROVE  Cardinality(page) = Batch /\ Cardinality(Below(t, i)) >= pass[p].offset + Cardinality(page)
    BY <2>2, <2>4, <2>5, <2>7, LeftOutIsHigh DEF Below
  <2>8. \A q \in Passes, u \in Tables, j \in Ids : table[u][j] <= table'[u][j] /\ table' \in Contents
    BY <1>0, <1>n, <2>3
  <2>9. CASE page = {} /\ Ended(p)
    <3>1. ASSUME ~racing, NEW i \in Ids PROVE b[t][i] <= mirror[t][i]
      <4>0. b[t][i] \in Nat /\ mirror[t][i] \in Nat
        BY <1>0, <1>n, <2>4 DEF Contents
      <4>1. CASE b[t][i] > 0
        <5>1. Cardinality(page) = 0
          BY <2>9, FS_EmptySet
        <5>2. i \in skipped
          BY <2>4, <2>7, <2>9, <4>1, <5>1
        <5> QED
          BY <2>6, <3>1, <4>1, <5>2
      <4>2. CASE b[t][i] = 0
        BY <4>0, <4>2
      <4> QED
        BY <4>0, <4>1, <4>2
    <3>2. /\ pass[p].pc # "idle" /\ PassHolds(p) /\ mirror' \in Contents
          /\ \A u \in Tables, i \in Ids : mirror[u][i] <= mirror'[u][i]
          /\ ~racing => \A u \in Tables, i \in Ids : floor[u][i] <= mirror[u][i]
          /\ ~racing => \A i \in Ids : pass[p].begun[pass[p].of][i] <= mirror'[pass[p].of][i]
      BY <1>0, <1>n, <2>3, <3>1 DEF Mirrored
    <3>3. /\ pass' \in [Passes -> Pass] /\ floor' \in Contents
          /\ \A q \in Passes : q # p => pass'[q] = pass[q]
          /\ PassHolds(p)'
          /\ ~racing => \A u \in Tables, i \in Ids : floor'[u][i] <= mirror'[u][i]
      BY <1>0, <2>3, <2>9, <3>2, EndedHolds
    <3>4. PgTypeOK' /\ Mirrored' /\ OnePass'
      BY <1>0, <2>3, <3>3 DEF PgTypeOK, Mirrored, OnePass
    <3>5. ASSUME NEW q \in Passes, q # p PROVE PassHolds(q)'
      BY <1>0, <2>3, <2>8, <3>3, <3>5, PassesHold
    <3> QED
      BY <3>3, <3>4, <3>5 DEF MirrorInv
  <2>10. CASE /\ page # {} /\ floor' = floor
              /\ pass' = [pass EXCEPT ![p].pc = "upsert", ![p].page = page, ![p].got = table[t]]
    <3> DEFINE g == table[t]
               w == [pass[p] EXCEPT !.pc = "upsert", !.page = page, !.got = g]
    <3>1. pass' = [pass EXCEPT ![p] = w]
      BY <2>10
    <3>2. /\ w \in Pass /\ w.pc = "upsert" /\ w.of = t /\ w.begun = b /\ w.offset = pass[p].offset
          /\ w.page = page /\ w.got = g
      <4>1. page \in SUBSET Ids /\ g \in [Ids -> Nat]
        BY <1>0, <2>4 DEF Contents, Rows
      <4>2. pass[p] \in Pass
        BY <2>4
      <4> HIDE DEF g
      <4> QED
        BY <4>1, <4>2 DEF Pass
    <3> HIDE DEF w
    <3>3. pass' \in [Passes -> Pass] /\ pass'[p] = w /\ \A q \in Passes : q # p => pass'[q] = pass[q]
      BY <1>0, <3>1, <3>2
    <3>4. PgTypeOK' /\ Mirrored' /\ OnePass'
      BY <1>0, <2>3, <2>10, <3>3 DEF PgTypeOK, Mirrored, OnePass
    <3>5. ASSUME NEW q \in Passes, q # p PROVE PassHolds(q)'
      BY <1>0, <2>3, <2>8, <3>3, <3>5, PassesHold
    <3>6. \A u \in Tables, i \in Ids : Below(u, i)' = Below(u, i)
      BY <2>3 DEF Below, Rows
    <3>7. ASSUME ~racing, NEW i \in Ids, b[t][i] > 0, i \notin page,
                 Cardinality(page) < Batch \/ Cardinality(Below(t, i)) < pass[p].offset + Cardinality(page)
          PROVE  b[t][i] <= mirror[t][i]
      <4>1. Cardinality(Below(t, i)) \in Nat /\ Cardinality(page) \in Nat
        <5>1. page \in SUBSET R
          OBVIOUS
        <5> QED
          BY <2>4, <5>1, FS_Subset, FS_CardinalityType, RowsAreFinite
      <4>2. i \in skipped
        <5>1. i \notin skipped =>
                /\ Cardinality(page) = Batch
                /\ Cardinality(Below(t, i)) >= pass[p].offset + Cardinality(page)
          BY <2>7, <3>7, Zenon
        <5>2. pass[p].offset \in Nat
          BY <2>4
        <5> QED
          BY <3>7, <4>1, <5>1, <5>2, BatchAssumption
      <4> QED
        BY <2>6, <3>7, <4>2
    <3>8. \A i \in Ids : b[t][i] <= table[t][i] /\ mirror[t][i] <= table[t][i] /\ table[t][i] <= table[t][i]
      BY <1>0, <1>n, <2>3, <2>4 DEF PassHolds, Mirrored
    <3>9. /\ \A u \in Tables, i \in Ids : b[u][i] <= table[u][i]
          /\ ~racing /\ t = "ysws_reviews" => \A i \in Ids : b["ship_certs"][i] <= mirror["ship_certs"][i]
          /\ ~racing => \A i \in Ids :
               b[t][i] > 0 /\ Cardinality(Below(t, i)) < pass[p].offset => b[t][i] <= mirror[t][i]
      BY <1>0, <2>3 DEF PassHolds
    <3>10. PassHolds(p)'
      BY <2>3, <2>4, <3>2, <3>3, <3>6, <3>7, <3>8, <3>9 DEF PassHolds
    <3> QED
      BY <3>4, <3>5, <3>10 DEF MirrorInv
  <2> QED
    BY <2>2, <2>9, <2>10
<1>4. ASSUME NEW p \in Passes, UpsertPage(p) PROVE MirrorInv'
  <2> DEFINE t == pass[p].of
             b == pass[p].begun
             n == Cardinality(pass[p].page)
  <2>1. /\ pass[p].pc = "upsert" /\ table' = table /\ epoch' = epoch /\ racing' = racing
        /\ mirror' = [mirror EXCEPT ![t] =
             [i \in Ids |-> IF i \in pass[p].page THEN pass[p].got[i] ELSE @[i]]]
    BY <1>4 DEF UpsertPage
  <2>2. /\ t \in Tables /\ b \in Contents /\ pass[p].offset \in Nat /\ pass[p] \in Pass
        /\ pass[p].got \in [Ids -> Nat] /\ pass[p].page \in SUBSET Ids
    BY <1>0 DEF Pass
  <2>3. n \in Nat
    BY <2>2, FS_Subset, FS_CardinalityType
  <2>4. /\ mirror' \in Contents
        /\ \A u \in Tables, i \in Ids : mirror'[u][i] =
             IF u = t /\ i \in pass[p].page THEN pass[p].got[i] ELSE mirror[u][i]
    BY <1>0, <2>1, <2>2 DEF Contents
  <2>5. \A i \in Ids : /\ b[t][i] <= pass[p].got[i] /\ pass[p].got[i] <= table[t][i]
                       /\ ~racing => mirror[t][i] <= pass[p].got[i]
                       /\ ~racing /\ b[t][i] > 0 /\ i \notin pass[p].page /\
                            (n < Batch \/ Cardinality(Below(t, i)) < pass[p].offset + n)
                            => b[t][i] <= mirror[t][i]
    BY <1>0, <2>1 DEF PassHolds
  <2>6. \A u \in Tables, i \in Ids : mirror'[u][i] <= table[u][i]
    BY <1>0, <2>4, <2>5 DEF Mirrored
  <2>7. ~racing => \A u \in Tables, i \in Ids : mirror[u][i] <= mirror'[u][i]
    BY <1>n, <2>4, <2>5
  <2>8. ~racing => \A u \in Tables, i \in Ids : floor[u][i] <= mirror'[u][i]
    <3> SUFFICES ASSUME ~racing, NEW u \in Tables, NEW i \in Ids PROVE floor[u][i] <= mirror'[u][i]
      OBVIOUS
    <3>1. floor[u][i] <= mirror[u][i] /\ mirror[u][i] <= mirror'[u][i] /\ mirror'[u][i] \in Nat
      BY <1>0, <2>4, <2>7 DEF Mirrored, Contents
    <3> QED
      BY <1>n, <3>1
  <2>9. ASSUME ~racing, NEW i \in Ids, n < Batch \/ Cardinality(Below(t, i)) < pass[p].offset + n
        PROVE  b[t][i] <= mirror'[t][i]
    <3> HIDE DEF b, t, n
    <3>a. mirror' \in [Tables -> [Ids -> Nat]] /\ b \in [Tables -> [Ids -> Nat]] /\ t \in Tables
      BY <2>2, <2>4 DEF Contents
    <3>0. b[t][i] \in Nat /\ mirror'[t][i] \in Nat
      BY <3>a
    <3>1. CASE i \in pass[p].page
      BY <2>2, <2>4, <2>5, <3>1
    <3>2. CASE i \notin pass[p].page /\ b[t][i] > 0
      BY <2>2, <2>4, <2>5, <2>9, <3>2
    <3>3. CASE ~(b[t][i] > 0)
      BY <3>0, <3>3
    <3> QED
      BY <3>1, <3>2, <3>3
  <2>10. \A u \in Tables, j \in Ids : table[u][j] <= table'[u][j] /\ table' \in Contents
    BY <1>0, <1>n, <2>1
  <2>11. \A q \in Passes : q # p => (~racing => pass[q].pc = "idle")
    BY <1>0, <2>1 DEF OnePass
  <2>12. CASE n < Batch /\ Ended(p)
    <3>1. ~racing => \A i \in Ids : pass[p].begun[pass[p].of][i] <= mirror'[pass[p].of][i]
      BY <2>9, <2>12
    <3>2. ~racing => \A u \in Tables, i \in Ids : floor[u][i] <= mirror[u][i]
      BY <1>0 DEF Mirrored
    <3>3. /\ pass' \in [Passes -> Pass] /\ floor' \in Contents
          /\ \A q \in Passes : q # p => pass'[q] = pass[q]
          /\ PassHolds(p)'
          /\ ~racing => \A u \in Tables, i \in Ids : floor'[u][i] <= mirror'[u][i]
      BY <1>0, <2>1, <2>4, <2>7, <2>12, <3>1, <3>2, EndedHolds
    <3>4. PgTypeOK' /\ Mirrored' /\ OnePass'
      BY <1>0, <2>1, <2>4, <2>6, <2>11, <3>3 DEF PgTypeOK, Mirrored, OnePass
    <3>5. ASSUME NEW q \in Passes, q # p PROVE PassHolds(q)'
      BY <1>0, <2>1, <2>10, <2>11, <3>3, <3>5, PassesHold
    <3> QED
      BY <3>3, <3>4, <3>5 DEF MirrorInv
  <2>13. CASE /\ floor' = floor
              /\ pass' = [pass EXCEPT ![p].pc = "read", ![p].page = {}, ![p].offset = @ + n]
    <3> DEFINE k == pass[p].offset + n
               w == [pass[p] EXCEPT !.pc = "read", !.page = {}, !.offset = k]
    <3>0. k \in Nat
      BY <2>2, <2>3
    <3>m. [pass EXCEPT ![p].pc = "read", ![p].page = {}, ![p].offset = @ + n] = [pass EXCEPT ![p] = w]
      BY <1>0
    <3>1. pass' = [pass EXCEPT ![p] = w] /\ k \in Nat
      BY <2>13, <3>0, <3>m
    <3>2. w \in Pass /\ w.pc = "read" /\ w.of = t /\ w.begun = b /\ w.offset = k
      <4>1. \A r \in Pass, m \in Nat :
              LET v == [r EXCEPT !.pc = "read", !.page = {}, !.offset = m] IN
              v \in Pass /\ v.pc = "read" /\ v.of = r.of /\ v.begun = r.begun /\ v.offset = m
        BY DEF Pass
      <4> HIDE DEF k
      <4> QED
        BY <2>2, <3>1, <4>1
    <3> HIDE DEF w
    <3>3. pass' \in [Passes -> Pass] /\ pass'[p] = w /\ \A q \in Passes : q # p => pass'[q] = pass[q]
      BY <1>0, <3>1, <3>2
    <3>4. PgTypeOK' /\ Mirrored' /\ OnePass'
      BY <1>0, <2>1, <2>4, <2>6, <2>8, <2>11, <2>13, <3>3 DEF PgTypeOK, Mirrored, OnePass
    <3>5. ASSUME NEW q \in Passes, q # p PROVE PassHolds(q)'
      BY <1>0, <2>1, <2>10, <2>11, <3>3, <3>5, PassesHold
    <3>6. \A u \in Tables, i \in Ids : Below(u, i)' = Below(u, i)
      BY <2>1 DEF Below, Rows
    <3>7. ~racing /\ t = "ysws_reviews" => \A i \in Ids : b["ship_certs"][i] <= mirror'["ship_certs"][i]
      <4>1. ~racing /\ t = "ysws_reviews" => \A i \in Ids : b["ship_certs"][i] <= mirror["ship_certs"][i]
        BY <1>0, <2>1 DEF PassHolds
      <4>2. "ship_certs" \in Tables
        BY DEF Tables
      <4> QED
        BY <2>4, <4>1, <4>2
    <3>8. \A u \in Tables, i \in Ids : b[u][i] <= table[u][i]
      BY <1>0, <2>1 DEF PassHolds
    <3>9. PassHolds(p)'
      BY <2>1, <2>2, <2>9, <3>2, <3>3, <3>6, <3>7, <3>8 DEF PassHolds
    <3> QED
      BY <3>4, <3>5, <3>9 DEF MirrorInv
  <2> QED
    BY <1>4, <2>12, <2>13 DEF UpsertPage
<1>5. ASSUME NEW p \in Passes, BreakPass(p) PROVE MirrorInv'
  <2>1. /\ pass' = [pass EXCEPT ![p] = Resting]
        /\ table' = table /\ mirror' = mirror /\ epoch' = epoch /\ floor' = floor /\ racing' = racing
    BY <1>5 DEF BreakPass
  <2>2. Resting \in Pass /\ Resting.pc = "idle"
    BY DEF Pass, Resting, Empty, Contents, Tables
  <2>3. pass' \in [Passes -> Pass] /\ pass'[p] = Resting /\ \A q \in Passes : q # p => pass'[q] = pass[q]
    BY <1>0, <2>1, <2>2
  <2>4. PgTypeOK' /\ Mirrored' /\ OnePass' /\ PassHolds(p)'
    BY <1>0, <2>1, <2>2, <2>3 DEF PgTypeOK, Mirrored, OnePass, PassHolds
  <2>5. ASSUME NEW q \in Passes, q # p PROVE PassHolds(q)'
    BY <1>0, <1>n, <2>1, <2>3, <2>5, PassesHold
  <2> QED
    BY <2>4, <2>5 DEF MirrorInv
<1>6. CASE UNCHANGED pgVars
  <2>1. /\ table' = table /\ mirror' = mirror /\ epoch' = epoch /\ pass' = pass
        /\ floor' = floor /\ racing' = racing
    BY <1>6 DEF pgVars
  <2>2. PgTypeOK' /\ Mirrored'
    BY <1>0, <2>1 DEF PgTypeOK, Mirrored
  <2>3. OnePass'
    BY <1>0, <2>1 DEF OnePass
  <2>4. ASSUME NEW q \in Passes PROVE PassHolds(q)'
    BY <1>0, <1>n, <2>1, PassesHold
  <2> QED
    BY <2>2, <2>3, <2>4 DEF MirrorInv
<1> QED
  BY <1>1, <1>2, <1>3, <1>4, <1>5, <1>6 DEF PgNext

(* Tables, mirror and passes keep their types over any number of writes.     *)
THEOREM MirrorTypes == PgSpec => []PgTypeOK
<1>1. MirrorInv => PgTypeOK
  BY DEF MirrorInv
<1> QED
  BY <1>1, MirrorInitHolds, MirrorStep, PTL DEF PgSpec

(* For any batch, any ids and any number of rows written while a pass pages  *)
(* by offset: the mirror never has what the tables had not, and unless two   *)
(* passes ran at once it has every row that was there when the last finished *)
(* pass began, no older than it was then.                                    *)
THEOREM NoRowMissed == PgSpec => []MirrorCovers
<1>1. MirrorInv => MirrorCovers
  <2> SUFFICES ASSUME MirrorInv, NEW t \in Tables, NEW i \in Ids
               PROVE  mirror[t][i] <= table[t][i] /\ (~racing => mirror[t][i] >= floor[t][i])
    BY DEF MirrorCovers
  <2>1. mirror[t][i] \in Nat /\ floor[t][i] \in Nat
    BY DEF MirrorInv, PgTypeOK, Contents
  <2> QED
    BY <2>1 DEF MirrorInv, Mirrored
<1> QED
  BY <1>1, MirrorInitHolds, MirrorStep, PTL DEF PgSpec

------------------------------------------------------------------------------
(* The rate limiter                                                          *)

USE LimitAssumption

JustBefore(p, s) == s = p + 1

Ticks(a, b) == (a .. b) \cap (0 .. MaxNow)

(* s is when the last window opened, p the tick before: what went through    *)
(* since is what the entry counts, nothing did after the window's end, and   *)
(* what went through before it, within a window's length, was no more than   *)
(* one window's worth.                                                       *)
OpenedAt(p, s) ==
  /\ JustBefore(p, s)
  /\ s <= now
  /\ record.resetAt # 0 => /\ record.resetAt = s + WindowMs /\ 0 <= s
                           /\ record.count = Total(passed, Ticks(s, MaxNow))
  /\ record.resetAt = 0 => now > s + WindowMs
  /\ Total(passed, Ticks(s, MaxNow)) <= MaxRequests
  /\ \A t \in 0 .. MaxNow : t > now \/ t > s + WindowMs => passed[t] = 0
  /\ \A t \in 0 .. MaxNow : t <= s /\ s <= t + WindowMs => Total(passed, Ticks(t, p)) <= MaxRequests

LimitInv == LimitTypeOK /\ LimitHolds /\ \E p, s \in Int : OpenedAt(p, s)

LEMMA ThroughIs == \A a, b : Through(a, b) = Total(passed, Ticks(a, b))
BY DEF Through, Ticks

LEMMA TicksAreFinite ==
  ASSUME NEW a \in Int, NEW b \in Int
  PROVE  IsFiniteSet(Ticks(a, b)) /\ Ticks(a, b) \in SUBSET (0 .. MaxNow)
<1>1. IsFiniteSet(0 .. MaxNow)
  BY FS_Interval
<1> QED
  BY <1>1, FS_Subset DEF Ticks

(* One more request counts in the sums that include its tick.                *)
GrowsAt(f, g, n) ==
  \A a, b \in Int :
    /\ Total(f, Ticks(a, b)) \in Nat /\ Total(g, Ticks(a, b)) \in Nat
    /\ a <= n /\ n <= b => Total(g, Ticks(a, b)) = Plus(Total(f, Ticks(a, b)), 1)
    /\ ~(a <= n /\ n <= b) => Total(g, Ticks(a, b)) = Total(f, Ticks(a, b))

LEMMA OneMore ==
  ASSUME NEW f \in [0 .. MaxNow -> Nat], NEW n \in 0 .. MaxNow,
         NEW g, OneUp(f, g, 0 .. MaxNow, n)
  PROVE  GrowsAt(f, g, n)
<1> SUFFICES ASSUME NEW a \in Int, NEW b \in Int
             PROVE  /\ Total(f, Ticks(a, b)) \in Nat /\ Total(g, Ticks(a, b)) \in Nat
                    /\ a <= n /\ n <= b => Total(g, Ticks(a, b)) = Plus(Total(f, Ticks(a, b)), 1)
                    /\ ~(a <= n /\ n <= b) => Total(g, Ticks(a, b)) = Total(f, Ticks(a, b))
  BY Zenon DEF GrowsAt
<1> DEFINE S == Ticks(a, b)
           k == n
<1>1. IsFiniteSet(S) /\ S \in SUBSET (0 .. MaxNow)
  BY TicksAreFinite
<1>3. OneUp(f, g, S, k)
  BY <1>1 DEF OneUp
<1>4. k \in S <=> a <= n /\ n <= b
  BY DEF Ticks
<1> HIDE DEF S, k
<1>5. /\ Total(f, S) \in Nat /\ Total(g, S) \in Nat
      /\ k \in S => Total(g, S) = Plus(Total(f, S), 1)
      /\ k \notin S => Total(g, S) = Total(f, S)
  BY <1>1, <1>3, TotalOneMore, Zenon
<1>6. /\ Total(f, S) \in Nat /\ Total(g, S) \in Nat
      /\ a <= n /\ n <= b => Total(g, S) = Plus(Total(f, S), 1)
      /\ ~(a <= n /\ n <= b) => Total(g, S) = Total(f, S)
  BY <1>4, <1>5, Zenon
<1> QED
  BY <1>6, Zenon DEF S

(* A longer span lets through no less.                                       *)
LEMMA LongerSpans ==
  ASSUME NEW f \in [0 .. MaxNow -> Nat], NEW a \in Int, NEW b \in Int, NEW c \in Int, NEW d \in Int,
         c <= a, b <= d \/ d = MaxNow
  PROVE  /\ Total(f, Ticks(a, b)) <= Total(f, Ticks(c, d))
         /\ Total(f, Ticks(a, b)) \in Nat /\ Total(f, Ticks(c, d)) \in Nat
<1>1. Ticks(a, b) \in SUBSET Ticks(c, d)
  BY DEF Ticks
<1>2. IsFiniteSet(Ticks(c, d)) /\ \A t \in Ticks(c, d) : f[t] \in Nat
  BY TicksAreFinite
<1> QED
  BY <1>1, <1>2, TotalPart

(* A span is what lies before a tick of it and what does not.                *)
SplitsAt(f, a, p, s, b) ==
  /\ Total(f, Ticks(a, b)) = Plus(Total(f, Ticks(a, p)), Total(f, Ticks(s, b)))
  /\ Total(f, Ticks(a, p)) \in Nat /\ Total(f, Ticks(s, b)) \in Nat

LEMMA SpansSplit ==
  ASSUME NEW f \in [0 .. MaxNow -> Nat], NEW a \in Int, NEW b \in Int, NEW s \in Int, a <= s,
         NEW p \in Int, JustBefore(p, s), p <= b
  PROVE  SplitsAt(f, a, p, s, b)
<1> DEFINE L == Ticks(a, p)
           R == Ticks(s, b)
<1>1. L \cup R = Ticks(a, b) /\ L \cap R = {}
  BY DEF Ticks, JustBefore
<1>2. IsFiniteSet(L) /\ IsFiniteSet(R) /\ L \in SUBSET (0 .. MaxNow) /\ R \in SUBSET (0 .. MaxNow)
  BY TicksAreFinite
<1>3. \A t \in L \cup R : f[t] \in Int /\ f[t] \in Nat
  BY <1>2
<1> HIDE DEF L, R
<1>4. Total(f, L \cup R) = Total(f, L) + Total(f, R)
  BY <1>1, <1>2, <1>3, TotalJoin
<1>5. Total(f, L) \in Nat /\ Total(f, R) \in Nat
  BY <1>2, <1>3, TotalNat
<1> QED
  BY <1>1, <1>4, <1>5 DEF L, R, Plus, SplitsAt

LEMMA LimitInitHolds == LimitInit => LimitInv
<1> SUFFICES ASSUME LimitInit PROVE LimitInv
  OBVIOUS
<1> DEFINE s == 0 - WindowMs - 1
           p == s - 1
<1>1. LimitTypeOK
  BY DEF LimitInit, LimitTypeOK, NoRecord
<1>2. \A a, b \in Int : Total(passed, Ticks(a, b)) = 0
  <2> TAKE a, b \in Int
  <2>1. \A t \in Ticks(a, b) : passed[t] = 0
    BY TicksAreFinite DEF LimitInit
  <2> QED
    BY <2>1, TicksAreFinite, TotalZero
<1>3. LimitHolds
  <2>1. \A t \in 0 .. MaxNow : Through(t, t + WindowMs) = 0
    BY <1>2, ThroughIs
  <2> QED
    BY <2>1 DEF LimitHolds, LimitInit
<1>4. s \in Int /\ p \in Int /\ s + WindowMs = -1 /\ s < 0 /\ JustBefore(p, s)
  BY DEF JustBefore
<1>5. Total(passed, Ticks(s, MaxNow)) = 0
  BY <1>2, <1>4
<1> HIDE DEF s, p
<1>6. OpenedAt(p, s)
  BY <1>4, <1>5 DEF OpenedAt, LimitInit, NoRecord
<1> QED
  BY <1>1, <1>3, <1>4, <1>6 DEF LimitInv

(* A request that goes through: the span it falls into began in its own      *)
(* window, or is cut by the window's opening into two that hold at most one  *)
(* window's worth each.                                                      *)
LEMMA LetThrough ==
  ASSUME LimitTypeOK, LimitHolds, NEW s \in Int, s <= now, NEW p \in Int, JustBefore(p, s),
         passed' = [passed EXCEPT ![now] = @ + 1],
         Total(passed', Ticks(s, MaxNow)) <= MaxRequests, now <= s + WindowMs,
         \A t \in 0 .. MaxNow : t <= s /\ s <= t + WindowMs => Total(passed, Ticks(t, p)) <= MaxRequests,
         refused' = refused
  PROVE  /\ LimitHolds'
         /\ \A t \in 0 .. MaxNow : t <= s /\ s <= t + WindowMs => Total(passed', Ticks(t, p)) <= MaxRequests
<1>0. /\ passed \in [0 .. MaxNow -> Nat] /\ passed' \in [0 .. MaxNow -> Nat] /\ now \in 0 .. MaxNow
      /\ refused \subseteq 0 .. MaxNow
  <2>1. passed \in [0 .. MaxNow -> Nat] /\ now \in 0 .. MaxNow /\ refused \subseteq 0 .. MaxNow
    BY DEF LimitTypeOK
  <2>2. passed[now] + 1 \in Nat
    BY <2>1
  <2>3. passed' \in [0 .. MaxNow -> Nat]
    BY <2>1, <2>2, Zenon
  <2> QED
    BY <2>1, <2>3
<1>m. MaxNow \in Int /\ s = p + 1 /\ p \in Int /\ s \in Int /\ WindowMs \in Nat /\ now \in Int
  BY <1>0 DEF JustBefore
<1>u. OneUp(passed, passed', 0 .. MaxNow, now)
  BY <1>0 DEF OneUp
<1>a. \A a, b \in Int :
        /\ Total(passed, Ticks(a, b)) \in Nat /\ Total(passed', Ticks(a, b)) \in Nat
        /\ a <= now /\ now <= b => Total(passed', Ticks(a, b)) = Plus(Total(passed, Ticks(a, b)), 1)
        /\ ~(a <= now /\ now <= b) => Total(passed', Ticks(a, b)) = Total(passed, Ticks(a, b))
  <2>1. GrowsAt(passed, passed', now)
    BY <1>0, <1>u, OneMore, Zenon
  <2> QED
    BY <2>1, Zenon DEF GrowsAt
<1>1. ASSUME NEW t \in 0 .. MaxNow, t <= s, s <= t + WindowMs
      PROVE  Total(passed', Ticks(t, p)) <= MaxRequests
  <2>1. t \in Int /\ ~(t <= now /\ now <= p)
    BY <1>0, <1>m
  <2>2. Total(passed', Ticks(t, p)) = Total(passed, Ticks(t, p))
    BY <1>a, <2>1, Zenon
  <2> QED
    BY <1>1, <2>2
<1>2. ASSUME NEW t \in 0 .. MaxNow
      PROVE  Total(passed', Ticks(t, t + WindowMs)) <= 2 * MaxRequests
  <2> DEFINE e == t + WindowMs
  <2>0. t \in Int /\ e \in Int /\ MaxNow \in Int /\ s <= s /\ e = t + WindowMs
    OBVIOUS
  <2>h. Total(passed, Ticks(t, e)) <= 2 * MaxRequests
    BY ThroughIs DEF LimitHolds
  <2> SUFFICES Total(passed', Ticks(t, e)) <= 2 * MaxRequests
    OBVIOUS
  <2> HIDE DEF e
  <2>1. CASE ~(t <= now /\ now <= e)
    <3>1. Total(passed', Ticks(t, e)) = Total(passed, Ticks(t, e))
      BY <1>a, <2>0, <2>1, Zenon
    <3> QED
      BY <2>h, <3>1
  <2>2. CASE t > s
    <3>0. s <= t /\ (e <= MaxNow \/ MaxNow = MaxNow)
      BY <2>2
    <3>1. /\ Total(passed', Ticks(t, e)) <= Total(passed', Ticks(s, MaxNow))
          /\ Total(passed', Ticks(t, e)) \in Nat /\ Total(passed', Ticks(s, MaxNow)) \in Nat
      BY <1>0, <2>0, <3>0, LongerSpans, Zenon
    <3> QED
      BY <3>1
  <2>3. CASE t <= s /\ t <= now /\ now <= e
    <3>0. t <= s /\ p <= e /\ s <= t + WindowMs
      BY <1>0, <1>m, <2>0, <2>3
    <3>1. /\ Total(passed', Ticks(t, e)) = Plus(Total(passed', Ticks(t, p)), Total(passed', Ticks(s, e)))
          /\ Total(passed', Ticks(t, p)) \in Nat /\ Total(passed', Ticks(s, e)) \in Nat
      <4>1. SplitsAt(passed', t, p, s, e)
        BY <1>0, <1>m, <2>0, <3>0, SpansSplit, Zenon
      <4> QED
        BY <4>1, Zenon DEF SplitsAt
    <3>2. /\ Total(passed', Ticks(s, e)) <= Total(passed', Ticks(s, MaxNow))
          /\ Total(passed', Ticks(s, MaxNow)) \in Nat
      BY <1>0, <2>0, LongerSpans, Zenon
    <3>3. Total(passed', Ticks(t, p)) <= MaxRequests
      BY <1>1, <1>0, <2>0, <2>3, <3>0
    <3> QED
      BY <3>1, <3>2, <3>3 DEF Plus
  <2> QED
    BY <1>m, <2>0, <2>1, <2>2, <2>3
<1>3. ASSUME NEW t \in refused
      PROVE  \E since \in 0 .. t : since + WindowMs >= t /\ Total(passed', Ticks(since, t)) >= MaxRequests
  <2>1. PICK since \in 0 .. t : since + WindowMs >= t /\ Total(passed, Ticks(since, t)) >= MaxRequests
    BY ThroughIs DEF LimitHolds
  <2>2. since \in Int /\ t \in Int
    BY <1>0
  <2>3. /\ Total(passed, Ticks(since, t)) \in Nat /\ Total(passed', Ticks(since, t)) \in Nat
        /\ \/ Total(passed', Ticks(since, t)) = Plus(Total(passed, Ticks(since, t)), 1)
           \/ Total(passed', Ticks(since, t)) = Total(passed, Ticks(since, t))
    BY <1>a, <2>2, Zenon
  <2>4. Total(passed', Ticks(since, t)) >= MaxRequests
    BY <2>1, <2>3 DEF Plus
  <2> QED
    BY <2>1, <2>4
<1>4. \A a, b : Through(a, b)' = Total(passed', Ticks(a, b))
  BY DEF Through, Ticks
<1>5. LimitHolds'
  <2>1. \A t \in 0 .. MaxNow : Through(t, t + WindowMs)' <= 2 * MaxRequests
    BY <1>2, <1>4
  <2>2. \A t \in refused : \E since \in 0 .. t : since + WindowMs >= t /\ Through(since, t)' >= MaxRequests
    BY <1>3, <1>4
  <2> QED
    BY <2>1, <2>2 DEF LimitHolds
<1> QED
  BY <1>1, <1>5

(* What happens when a request is counted.                                   *)
LEMMA Counted ==
  ASSUME passed \in [0 .. MaxNow -> Nat], now \in 0 .. MaxNow, passed' = [passed EXCEPT ![now] = @ + 1],
         NEW n \in Int, n = now
  PROVE  \A a, b \in Int :
           /\ Total(passed, Ticks(a, b)) \in Nat /\ Total(passed', Ticks(a, b)) \in Nat
           /\ a <= n /\ n <= b => Total(passed', Ticks(a, b)) = Plus(Total(passed, Ticks(a, b)), 1)
           /\ ~(a <= n /\ n <= b) => Total(passed', Ticks(a, b)) = Total(passed, Ticks(a, b))
<1>0. n \in 0 .. MaxNow
  OBVIOUS
<1>1. OneUp(passed, passed', 0 .. MaxNow, n)
  BY DEF OneUp
<1>2. GrowsAt(passed, passed', n)
  BY <1>0, <1>1, OneMore, Zenon
<1> QED
  BY <1>2, Zenon DEF GrowsAt

LEMMA LimitOpen ==
  ASSUME LimitTypeOK, LimitHolds, NEW p \in Int, NEW s \in Int, OpenedAt(p, s), Open
  PROVE  LimitInv'
<1>k. MaxRequests \in Nat /\ MaxRequests >= 1 /\ WindowMs \in Nat /\ MaxNow \in Int
  OBVIOUS
<1>0. /\ passed \in [0 .. MaxNow -> Nat] /\ now \in 0 .. MaxNow /\ passed' = [passed EXCEPT ![now] = @ + 1]
      /\ passed' \in [0 .. MaxNow -> Nat] /\ refused' = refused /\ now' = now
  <2>1. passed \in [0 .. MaxNow -> Nat] /\ now \in 0 .. MaxNow
    BY DEF LimitTypeOK
  <2>2. passed' = [passed EXCEPT ![now] = @ + 1] /\ refused' = refused /\ now' = now
    BY DEF Open
  <2>3. passed[now] + 1 \in Nat
    BY <2>1
  <2>4. passed' \in [0 .. MaxNow -> Nat]
    BY <2>1, <2>2, <2>3, Zenon
  <2> QED
    BY <2>1, <2>2, <2>4
<1>1. LimitTypeOK'
  <2>1. record' \in [count : 0 .. MaxRequests, resetAt : Nat]
    BY <1>0, <1>k DEF Open
  <2> QED
    BY <1>0, <2>1 DEF LimitTypeOK
<1>2. PICK n \in Int : n = now
  BY <1>0
<1>3. PICK q \in Int : n = q + 1
  <2>1. n - 1 \in Int /\ n = (n - 1) + 1
    BY <1>2
  <2> QED
    BY <2>1
<1>4. /\ JustBefore(q, n) /\ n <= MaxNow /\ 0 <= n /\ s <= n /\ n > s + WindowMs
      /\ ~(n <= MaxNow /\ MaxNow < n)
  BY <1>0, <1>2, <1>3, <1>k DEF JustBefore, OpenedAt, Open, Lapsed
<1>5. Total(passed, Ticks(n, MaxNow)) = 0
  <2>1. \A t \in Ticks(n, MaxNow) : passed[t] = 0
    BY <1>2, <1>4 DEF Ticks, OpenedAt
  <2>2. IsFiniteSet(Ticks(n, MaxNow))
    BY <1>k, <1>2, TicksAreFinite
  <2> QED
    BY <2>1, <2>2, TotalZero
<1>a. \A a, b \in Int :
        /\ Total(passed, Ticks(a, b)) \in Nat /\ Total(passed', Ticks(a, b)) \in Nat
        /\ a <= n /\ n <= b => Total(passed', Ticks(a, b)) = Plus(Total(passed, Ticks(a, b)), 1)
        /\ ~(a <= n /\ n <= b) => Total(passed', Ticks(a, b)) = Total(passed, Ticks(a, b))
  BY <1>0, <1>2, Counted
<1>6. Total(passed', Ticks(n, MaxNow)) = 1
  <2>1. n <= n
    BY <1>2
  <2>2. Total(passed', Ticks(n, MaxNow)) = Plus(Total(passed, Ticks(n, MaxNow)), 1)
    BY <1>a, <1>k, <1>4, <2>1, Zenon
  <2> QED
    BY <1>5, <2>2 DEF Plus
<1>7. ASSUME NEW t \in 0 .. MaxNow, t <= n, n <= t + WindowMs
      PROVE  Total(passed, Ticks(t, q)) <= MaxRequests
  <2>1. s <= t /\ (q <= MaxNow \/ MaxNow = MaxNow) /\ t \in Int
    BY <1>4, <1>7
  <2>2. /\ Total(passed, Ticks(t, q)) <= Total(passed, Ticks(s, MaxNow))
        /\ Total(passed, Ticks(t, q)) \in Nat /\ Total(passed, Ticks(s, MaxNow)) \in Nat
    BY <1>0, <1>k, <2>1, LongerSpans, Zenon
  <2>3. Total(passed, Ticks(s, MaxNow)) <= MaxRequests
    BY DEF OpenedAt
  <2> QED
    BY <2>2, <2>3, <1>k
<1>8. Total(passed', Ticks(n, MaxNow)) <= MaxRequests /\ now <= n + WindowMs /\ n <= now
  BY <1>2, <1>6, <1>k
<1>9. /\ LimitHolds'
      /\ \A t \in 0 .. MaxNow : t <= n /\ n <= t + WindowMs => Total(passed', Ticks(t, q)) <= MaxRequests
  BY <1>0, <1>4, <1>7, <1>8, LetThrough
<1>10. OpenedAt(q, n)'
  <2>1. record'.count = 1 /\ record'.resetAt = n + WindowMs /\ record'.resetAt # 0
    BY <1>0, <1>2, <1>4, <1>k DEF Open
  <2>2. \A t \in 0 .. MaxNow : t > n \/ t > n + WindowMs => passed'[t] = 0
    BY <1>0, <1>2, <1>k DEF OpenedAt
  <2>3. n <= now'
    BY <1>0, <1>2
  <2> QED
    BY <1>0, <1>2, <1>4, <1>6, <1>8, <1>9, <2>1, <2>2, <2>3 DEF OpenedAt
<1> QED
  BY <1>1, <1>9, <1>10 DEF LimitInv

LEMMA LimitCount ==
  ASSUME LimitTypeOK, LimitHolds, NEW p \in Int, NEW s \in Int, OpenedAt(p, s), Count
  PROVE  LimitInv'
<1>k. MaxRequests \in Nat /\ WindowMs \in Nat /\ MaxNow \in Int
  OBVIOUS
<1>0. /\ passed \in [0 .. MaxNow -> Nat] /\ now \in 0 .. MaxNow /\ passed' = [passed EXCEPT ![now] = @ + 1]
      /\ passed' \in [0 .. MaxNow -> Nat] /\ refused' = refused /\ now' = now
  <2>1. passed \in [0 .. MaxNow -> Nat] /\ now \in 0 .. MaxNow
    BY DEF LimitTypeOK
  <2>2. passed' = [passed EXCEPT ![now] = @ + 1] /\ refused' = refused /\ now' = now
    BY DEF Count
  <2>3. passed[now] + 1 \in Nat
    BY <2>1
  <2>4. passed' \in [0 .. MaxNow -> Nat]
    BY <2>1, <2>2, <2>3, Zenon
  <2> QED
    BY <2>1, <2>2, <2>4
<1>1. record.count \in Nat /\ record.count < MaxRequests /\ record.resetAt \in Nat /\ record.resetAt # 0 /\ now <= record.resetAt
  <2>1. record.count \in 0 .. MaxRequests /\ record.resetAt \in Nat
    BY DEF LimitTypeOK
  <2>2. record.count < MaxRequests /\ ~Lapsed(record)
    BY DEF Count
  <2> QED
    BY SMTT(30), <1>0, <1>k, <2>1, <2>2 DEF Lapsed
<1>2. record'.count = record.count + 1 /\ record'.resetAt = record.resetAt
  BY DEF LimitTypeOK, Count
<1>3. LimitTypeOK'
  <2>1. record' \in [count : 0 .. MaxRequests, resetAt : Nat]
    <3>1. record.count + 1 \in 0 .. MaxRequests
      BY <1>1, <1>k
    <3> QED
      BY <3>1 DEF LimitTypeOK, Count
  <2> QED
    BY <1>0, <2>1 DEF LimitTypeOK
<1>4. PICK n \in Int : n = now
  BY <1>0
<1>5. /\ JustBefore(p, s) /\ s <= n /\ n <= MaxNow /\ record.resetAt = s + WindowMs
      /\ record.count = Total(passed, Ticks(s, MaxNow)) /\ n <= s + WindowMs /\ s <= now /\ now <= s + WindowMs
  <2>1. /\ JustBefore(p, s) /\ s <= now /\ record.resetAt = s + WindowMs
        /\ record.count = Total(passed, Ticks(s, MaxNow))
    BY <1>1, Zenon DEF OpenedAt
  <2> QED
    BY <1>0, <1>1, <1>4, <1>k, <2>1
<1>a. \A a, b \in Int :
        /\ Total(passed, Ticks(a, b)) \in Nat /\ Total(passed', Ticks(a, b)) \in Nat
        /\ a <= n /\ n <= b => Total(passed', Ticks(a, b)) = Plus(Total(passed, Ticks(a, b)), 1)
        /\ ~(a <= n /\ n <= b) => Total(passed', Ticks(a, b)) = Total(passed, Ticks(a, b))
  BY <1>0, <1>4, Counted
<1>6. Total(passed', Ticks(s, MaxNow)) = Plus(Total(passed, Ticks(s, MaxNow)), 1)
  BY <1>a, <1>k, <1>5, Zenon
<1>7. Total(passed', Ticks(s, MaxNow)) = record'.count /\ Total(passed', Ticks(s, MaxNow)) <= MaxRequests
  BY <1>k, <1>1, <1>2, <1>5, <1>6 DEF Plus
<1>8. \A t \in 0 .. MaxNow : t <= s /\ s <= t + WindowMs => Total(passed, Ticks(t, p)) <= MaxRequests
  BY DEF OpenedAt
<1>9. /\ LimitHolds'
      /\ \A t \in 0 .. MaxNow : t <= s /\ s <= t + WindowMs => Total(passed', Ticks(t, p)) <= MaxRequests
  BY <1>0, <1>5, <1>7, <1>8, LetThrough
<1>10. OpenedAt(p, s)'
  <2>1. \A t \in 0 .. MaxNow : t > n \/ t > s + WindowMs => passed'[t] = 0
    BY <1>0, <1>4, <1>5, <1>k DEF OpenedAt
  <2>2. s <= now' /\ record'.resetAt # 0 /\ record'.resetAt = s + WindowMs
    BY <1>0, <1>1, <1>2, <1>5
  <2>3. 0 <= s
    BY <1>1 DEF OpenedAt
  <2> QED
    BY <1>0, <1>4, <1>5, <1>7, <1>9, <2>1, <2>2, <2>3 DEF OpenedAt
<1> QED
  BY <1>3, <1>9, <1>10 DEF LimitInv

(* Who is refused has seen a window's worth go through since it opened.      *)
LEMMA LimitRefuse ==
  ASSUME LimitTypeOK, LimitHolds, NEW p \in Int, NEW s \in Int, OpenedAt(p, s), Refuse
  PROVE  LimitInv'
<1>k. MaxRequests \in Nat /\ WindowMs \in Nat /\ MaxNow \in Int
  OBVIOUS
<1>0. /\ passed \in [0 .. MaxNow -> Nat] /\ now \in 0 .. MaxNow /\ passed' = passed /\ record' = record
      /\ refused' = refused \cup {now} /\ now' = now
  BY DEF LimitTypeOK, Refuse
<1>1. LimitTypeOK'
  BY <1>0 DEF LimitTypeOK
<1>2. PICK n \in Int : n = now
  BY <1>0
<1>3. PICK m \in Int : m = n + 1
  <2>1. n + 1 \in Int
    BY <1>2
  <2> QED
    BY <2>1
<1>4. /\ JustBefore(n, m) /\ s <= n /\ s <= m /\ n <= MaxNow /\ 0 <= s /\ n <= s + WindowMs
      /\ Total(passed, Ticks(s, MaxNow)) >= MaxRequests
  BY <1>0, <1>2, <1>3 DEF JustBefore, OpenedAt, Refuse, Lapsed, LimitTypeOK
<1>5. Total(passed, Ticks(m, MaxNow)) = 0
  <2>1. \A t \in Ticks(m, MaxNow) : passed[t] = 0
    BY <1>2, <1>3, <1>4 DEF Ticks, OpenedAt
  <2>2. IsFiniteSet(Ticks(m, MaxNow))
    BY <1>k, <1>3, TicksAreFinite
  <2> QED
    BY <2>1, <2>2, TotalZero
<1>6. SplitsAt(passed, s, n, m, MaxNow)
  BY <1>0, <1>k, <1>4, SpansSplit, Zenon
<1>7. Total(passed, Ticks(s, n)) >= MaxRequests
  BY <1>4, <1>5, <1>6 DEF SplitsAt, Plus
<1>8. LimitHolds'
  <2>1. \A a, b : Through(a, b)' = Through(a, b)
    BY <1>0 DEF Through
  <2>2. \A t \in 0 .. MaxNow : Through(t, t + WindowMs)' <= 2 * MaxRequests
    BY <2>1 DEF LimitHolds
  <2>3. ASSUME NEW t \in refused'
        PROVE  \E since \in 0 .. t : since + WindowMs >= t /\ Through(since, t)' >= MaxRequests
    <3>1. CASE t \in refused
      <4>1. \E since \in 0 .. t : since + WindowMs >= t /\ Through(since, t) >= MaxRequests
        BY <3>1 DEF LimitHolds
      <4> QED
        BY <4>1, <2>1
    <3>2. CASE t = now
      <4>1. s \in 0 .. n /\ s + WindowMs >= n /\ Through(s, n) >= MaxRequests
        BY <1>4, <1>7, <1>k, ThroughIs
      <4>2. Through(s, n)' >= MaxRequests
        BY <4>1, <2>1
      <4> QED
        BY <3>2, <4>1, <4>2, <1>2
    <3> QED
      BY <1>0, <3>1, <3>2
  <2> QED
    BY <2>2, <2>3 DEF LimitHolds
<1>9. OpenedAt(p, s)'
  BY <1>0 DEF OpenedAt
<1> QED
  BY <1>1, <1>8, <1>9 DEF LimitInv

(* The timer and the clock let nothing through and refuse nobody.            *)
LEMMA LimitQuiet ==
  ASSUME LimitTypeOK, LimitHolds, NEW p \in Int, NEW s \in Int, OpenedAt(p, s), Sweep \/ LimitTick
  PROVE  LimitInv'
<1>k. MaxRequests \in Nat /\ WindowMs \in Nat /\ MaxNow \in Int
  OBVIOUS
<1>0. /\ passed \in [0 .. MaxNow -> Nat] /\ now \in 0 .. MaxNow /\ passed' = passed /\ refused' = refused
  BY DEF LimitTypeOK, Sweep, LimitTick
<1>1. LimitTypeOK'
  <2>1. CASE Sweep
    <3>1. record' \in [count : 0 .. MaxRequests, resetAt : Nat] /\ now' = now
      BY <1>k, <2>1 DEF Sweep, NoRecord
    <3> QED
      BY <1>0, <3>1 DEF LimitTypeOK
  <2>2. CASE LimitTick
    BY <1>0, <1>k, <2>2 DEF LimitTick, LimitTypeOK
  <2> QED
    BY <2>1, <2>2
<1>2. LimitHolds'
  <2>1. \A a, b : Through(a, b)' = Through(a, b)
    BY <1>0 DEF Through
  <2>2. \A t \in 0 .. MaxNow : Through(t, t + WindowMs)' <= 2 * MaxRequests
    BY <2>1 DEF LimitHolds
  <2>3. \A t \in refused : \E since \in 0 .. t : since + WindowMs >= t /\ Through(since, t)' >= MaxRequests
    BY <2>1 DEF LimitHolds
  <2> QED
    BY <1>0, <2>2, <2>3 DEF LimitHolds
<1>3. OpenedAt(p, s)'
  <2>1. /\ JustBefore(p, s) /\ Total(passed, Ticks(s, MaxNow)) <= MaxRequests
        /\ \A t \in 0 .. MaxNow : t <= s /\ s <= t + WindowMs => Total(passed, Ticks(t, p)) <= MaxRequests
    BY DEF OpenedAt
  <2>2. CASE Sweep
    <3>1. record'.resetAt = 0 /\ now' = now /\ now > record.resetAt /\ record.resetAt # 0
      BY <2>2 DEF Sweep, NoRecord
    <3>2. s <= now /\ now > s + WindowMs
      BY <3>1 DEF OpenedAt
    <3>3. \A t \in 0 .. MaxNow : t > now \/ t > s + WindowMs => passed[t] = 0
      BY DEF OpenedAt
    <3> QED
      BY <1>0, <2>1, <3>1, <3>2, <3>3 DEF OpenedAt
  <2>3. CASE LimitTick
    <3>1. now' = now + 1 /\ record' = record
      BY <2>3 DEF LimitTick
    <3>2. s <= now + 1 /\ (record.resetAt = 0 => now + 1 > s + WindowMs)
      BY <1>0, <1>k DEF OpenedAt
    <3>3. \A t \in 0 .. MaxNow : t > now + 1 \/ t > s + WindowMs => passed[t] = 0
      BY <1>0, <1>k DEF OpenedAt
    <3>4. record.resetAt # 0 => /\ record.resetAt = s + WindowMs /\ 0 <= s
                                /\ record.count = Total(passed, Ticks(s, MaxNow))
      BY DEF OpenedAt
    <3> QED
      BY <1>0, <2>1, <3>1, <3>2, <3>3, <3>4 DEF OpenedAt
  <2> QED
    BY <2>2, <2>3
<1> QED
  BY <1>1, <1>2, <1>3 DEF LimitInv

LEMMA LimitKept == LimitInv /\ [LimitNext]_limitVars => LimitInv'
<1> SUFFICES ASSUME LimitInv, [LimitNext]_limitVars PROVE LimitInv'
  OBVIOUS
<1>1. PICK p, s \in Int : OpenedAt(p, s)
  BY DEF LimitInv
<1>2. LimitTypeOK /\ LimitHolds
  BY DEF LimitInv
<1>3. CASE Open
  BY <1>1, <1>2, <1>3, LimitOpen
<1>4. CASE Count
  BY <1>1, <1>2, <1>4, LimitCount
<1>5. CASE Refuse
  BY <1>1, <1>2, <1>5, LimitRefuse
<1>6. CASE Sweep \/ LimitTick
  BY <1>1, <1>2, <1>6, LimitQuiet
<1>7. CASE UNCHANGED limitVars
  BY <1>7 DEF LimitInv, limitVars, LimitTypeOK, LimitHolds, Through, OpenedAt
<1> QED
  BY <1>3, <1>4, <1>5, <1>6, <1>7 DEF LimitNext

(* The counter, its window and the history keep their shape (rateLimit).      *)
THEOREM LimitTypes == LimitSpec => []LimitTypeOK
<1>1. LimitInv => LimitTypeOK
  BY DEF LimitInv
<1> QED
  BY LimitInitHolds, LimitKept, <1>1, PTL DEF LimitSpec

(* A fixed window lets at most two windows' worth through in any span of one, *)
(* and refuses only who came after a window's worth within one window's       *)
(* length, whatever the limit, the window and the times of the requests       *)
(* (rateLimit).                                                                *)
THEOREM LimitIsKept == LimitSpec => []LimitHolds
<1>1. LimitInv => LimitHolds
  BY DEF LimitInv
<1> QED
  BY LimitInitHolds, LimitKept, <1>1, PTL DEF LimitSpec
==============================================================================
