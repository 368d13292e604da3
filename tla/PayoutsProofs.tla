--------------------------- MODULE PayoutsProofs ---------------------------
(***************************************************************************)
(* Proofs about payouts, for any users, admins, amounts and bounds, and any *)
(* number of requests racing.                                               *)
(***************************************************************************)
EXTENDS Payouts, SumsProofs, TLAPS

USE OwnerAssumption, NumbersAssumption, NonEmptyAssumption, FiniteAssumption

(* What the status of a row says about its history.                          *)
RowHistory ==
  \A p \in Ids :
    /\ payout[p].status = "none" => debits[p] = 0
    /\ payout[p].status # "deleted" => refunds[p] = 0
    /\ payout[p].status = "approved" => debits[p] >= 1
    /\ refunds[p] <= 1 /\ refunds[p] <= debits[p]

(* The status a handler read can only have moved forward since.              *)
ReadsForward ==
  \A r \in Requests :
    /\ req[r].pc = "refund" => payout[req[r].id].status \in {"approved", "deleted"}
    /\ req[r].pc \in {"approve", "drop"} => payout[req[r].id].status # "none"

RefundInv == TypeOK /\ RowHistory /\ ReadsForward

(* Between its check and its create, a request's owner has nothing pending,  *)
(* and no other request of his is as far.                                    *)
CheckHolds ==
  \A r \in Requests : req[r].pc = "create" /\ Owner[r] \notin hasty =>
    /\ ~HasPending(Owner[r])
    /\ \A s \in Requests : req[s].pc = "create" /\ Owner[s] = Owner[r] => s = r

PendingInv == TypeOK /\ OnePendingPerUser /\ CheckHolds

(* An approval knows the balance but for what has moved of it since.         *)
DriftKnown ==
  \A r \in Requests : req[r].pc = "approve" =>
    req[r].bal + drift[r] = balance[payout[req[r].id].user]

------------------------------------------------------------------------------
LEMMA IdleType == Idle \in Request
<1>1. (CHOOSE p \in Ids : TRUE) \in Ids
  OBVIOUS
<1> QED
  BY <1>1 DEF Idle, Request

LEMMA TypeInit == Init => TypeOK
<1> SUFFICES ASSUME Init PROVE TypeOK
  OBVIOUS
<1>1. (CHOOSE u \in Users : TRUE) \in Users
  OBVIOUS
<1>2. payout \in [Ids -> Row]
  BY <1>1 DEF Init, Row
<1>0. hasty = {} /\ drift = [r \in Requests |-> 0] /\ overlapped = FALSE
  BY Zenon DEF Init
<1>3. hasty \subseteq Users /\ drift \in [Requests -> Int]
  BY <1>0
<1>5. overlapped \in BOOLEAN
  BY <1>0
<1>4. req \in [Requests -> Request]
  BY IdleType DEF Init
<1> QED
  BY <1>2, <1>3, <1>4, <1>5 DEF Init, TypeOK

(* What approvals and deletes leave of a row.                                *)
LEMMA ApprovedType ==
  ASSUME NEW row \in Row, NEW bal \in Int
  PROVE  /\ Approved(row, bal) \in Row
         /\ Approved(row, bal).status = "approved"
<1>1. row.user \in Users /\ row.amount \in Nat
  BY DEF Row
<1>2. bal - row.amount \in Int
  BY <1>1
<1> QED
  BY <1>1, <1>2 DEF Approved, Row

LEMMA DeletedType ==
  ASSUME NEW row \in Row
  PROVE  Deleted(row) \in Row /\ Deleted(row).status = "deleted"
BY DEF Deleted, Row

LEMMA MovesType ==
  ASSUME TypeOK, NEW u, NEW k \in Int, Moves(u, k)
  PROVE  drift' \in [Requests -> Int]
BY DEF Moves, TypeOK

(* The effect of each step on the requests is well typed.                    *)
LEMMA TypeStep == TypeOK /\ [Next]_vars => TypeOK'
<1> SUFFICES ASSUME TypeOK, [Next]_vars PROVE TypeOK'
  OBVIOUS
<1> USE DEF TypeOK
<1>0. /\ \A r \in Requests : req[r] \in Request
      /\ \A p \in Ids : payout[p] \in Row
  OBVIOUS
<1>1. \A r \in Requests : Answer(r) => req' \in [Requests -> Request]
  BY IdleType DEF Answer
<1>2. ASSUME NEW r \in Requests, NEW n \in Amounts, PostRead(r, n) PROVE TypeOK'
  <2>1. [Idle EXCEPT !.pc = "checkPending", !.amount = n] \in Request
    BY IdleType DEF Request
  <2> QED
    BY <1>2, <2>1 DEF PostRead, Begin
<1>3. ASSUME NEW r \in Requests, NEW p \in Ids, ApproveRead(r, p) PROVE TypeOK'
  <2>1. balance[payout[p].user] \in Int
    BY <1>0 DEF Row
  <2>2. [Idle EXCEPT !.pc = "approve", !.id = p, !.bal = balance[payout[p].user]]
          \in Request
    BY <2>1, IdleType DEF Request
  <2> QED
    BY <1>3, <2>2 DEF ApproveRead, Begin
<1>4. ASSUME NEW r \in Requests, NEW p \in Ids, DeleteRead(r, p) PROVE TypeOK'
  <2> DEFINE q == [Idle EXCEPT !.id = p,
                    !.pc = IF payout[p].status = "approved" THEN "refund" ELSE "drop"]
  <2>1. q \in Request
    BY IdleType DEF Request
  <2>2. Begin(r, q)
    BY <1>4 DEF DeleteRead
  <2> HIDE DEF q
  <2> QED
    BY <1>4, <2>1, <2>2 DEF DeleteRead, Begin
<1>5. ASSUME NEW r \in Requests, PostCheck(r) PROVE TypeOK'
  <2>1. req' \in [Requests -> Request]
    <3>1. Goto(r, "create") => req' \in [Requests -> Request]
      BY <1>0 DEF Goto, Request
    <3> QED
      BY <1>1, <1>5, <3>1 DEF PostCheck
  <2>2. hasty' \subseteq Users
    BY <1>5 DEF PostCheck
  <2> QED
    BY <1>5, <2>1, <2>2 DEF PostCheck
<1>6. ASSUME NEW r \in Requests, PostCreate(r) PROVE TypeOK'
  <2>1. [status |-> "pending", user |-> Owner[r], amount |-> req[r].amount,
         balAfter |-> 0] \in Row
    BY <1>0 DEF Row, Request
  <2> QED
    BY <1>1, <1>6, <2>1 DEF PostCreate
<1>7. ASSUME NEW r \in Requests, ApproveCommit(r) PROVE TypeOK'
  <2> DEFINE p == req[r].id
  <2>1. p \in Ids /\ payout[p] \in Row /\ req[r].bal \in Int
    BY <1>0 DEF Request
  <2>2. /\ payout[p].user \in Users /\ payout[p].amount \in Nat
        /\ Approved(payout[p], req[r].bal) \in Row
    BY <2>1, ApprovedType DEF Row
  <2> HIDE DEF p
  <2>3. balance' \in [Users -> Int] /\ debits' \in [Ids -> Nat]
    BY <1>7, <2>1, <2>2 DEF ApproveCommit, p
  <2>4. payout' \in [Ids -> Row]
    BY <1>7, <2>1, <2>2 DEF ApproveCommit, p
  <2>5. drift' \in [Requests -> Int]
    <3>1. - payout[p].amount \in Int
      BY <2>2
    <3> QED
      BY <1>7, <3>1, MovesType DEF ApproveCommit, p
  <2> QED
    BY <1>1, <1>7, <2>3, <2>4, <2>5 DEF ApproveCommit
<1>8. ASSUME NEW r \in Requests, RefundCommit(r) PROVE TypeOK'
  <2> DEFINE p == req[r].id
  <2>1. p \in Ids /\ payout[p] \in Row
    BY <1>0 DEF Request
  <2>2. /\ payout[p].user \in Users /\ payout[p].amount \in Nat
        /\ Deleted(payout[p]) \in Row
    BY <2>1, DeletedType DEF Row
  <2> HIDE DEF p
  <2>3. balance' \in [Users -> Int] /\ refunds' \in [Ids -> Nat]
    BY <1>8, <2>1, <2>2 DEF RefundCommit, p
  <2>4. payout' \in [Ids -> Row]
    BY <1>8, <2>1, <2>2 DEF RefundCommit, p
  <2>5. drift' \in [Requests -> Int]
    BY <1>8, <2>2, MovesType DEF RefundCommit, p
  <2> QED
    BY <1>1, <1>8, <2>3, <2>4, <2>5 DEF RefundCommit
<1>9. ASSUME NEW r \in Requests, DropCommit(r) PROVE TypeOK'
  <2>1. payout' \in [Ids -> Row]
    BY <1>0, <1>9, DeletedType DEF DropCommit, Request
  <2> QED
    BY <1>1, <1>9, <2>1 DEF DropCommit
<1>10. ASSUME NEW r \in Requests, Abort(r) PROVE TypeOK'
  BY <1>1, <1>10 DEF Abort
<1>11. ASSUME NEW u \in Users, Earn(u) PROVE TypeOK'
  BY <1>11, MovesType DEF Earn
<1>12. CASE UNCHANGED vars
  BY <1>12 DEF vars
<1> QED
  BY <1>2, <1>3, <1>4, <1>5, <1>6, <1>7, <1>8, <1>9, <1>10, <1>11, <1>12 DEF Next, Step

(* Every column and request keeps its type.                                  *)
THEOREM PayoutTypes == Spec => []TypeOK
BY TypeInit, TypeStep, PTL DEF Spec

------------------------------------------------------------------------------
(* Refunds.                                                                  *)
LEMMA RefundInvInit == Init => RefundInv
<1> SUFFICES ASSUME Init PROVE RefundInv
  OBVIOUS
<1> QED
  BY TypeInit DEF Init, RefundInv, RowHistory, ReadsForward, Idle

(* Rows only move from none to pending, to approved, to deleted.             *)
Forward ==
  \A p \in Ids :
    \/ payout'[p].status = payout[p].status
    \/ payout[p].status = "none" /\ payout'[p].status = "pending"
    \/ Exists(p) /\ payout'[p].status \in {"approved", "deleted"}

(* An approval or a refund that finds its row touches that row alone.        *)
LEMMA ApproveEffect ==
  ASSUME TypeOK, NEW r \in Requests, ApproveCommit(r), Exists(req[r].id)
  PROVE  /\ payout'[req[r].id].status = "approved"
         /\ debits'[req[r].id] = debits[req[r].id] + 1
         /\ \A q \in Ids \ {req[r].id} : payout'[q] = payout[q] /\ debits'[q] = debits[q]
         /\ refunds' = refunds
<1>1. payout[req[r].id] \in Row /\ req[r].bal \in Int /\ req[r].id \in Ids
  BY DEF TypeOK, Request
<1>2. /\ payout' = [payout EXCEPT ![req[r].id] =
                      Approved(payout[req[r].id], req[r].bal)]
      /\ debits' = [debits EXCEPT ![req[r].id] = @ + 1]
      /\ refunds' = refunds
  BY DEF ApproveCommit
<1> QED
  BY <1>1, <1>2, ApprovedType DEF TypeOK

LEMMA RefundEffect ==
  ASSUME TypeOK, NEW r \in Requests, RefundCommit(r), Exists(req[r].id)
  PROVE  /\ payout'[req[r].id].status = "deleted"
         /\ refunds'[req[r].id] = refunds[req[r].id] + 1
         /\ \A q \in Ids \ {req[r].id} : payout'[q] = payout[q] /\ refunds'[q] = refunds[q]
         /\ debits' = debits
<1>1. payout[req[r].id] \in Row /\ req[r].id \in Ids
  BY DEF TypeOK, Request
<1>2. /\ payout' = [payout EXCEPT ![req[r].id] = Deleted(payout[req[r].id])]
      /\ refunds' = [refunds EXCEPT ![req[r].id] = @ + 1]
      /\ debits' = debits
  BY DEF RefundCommit
<1> QED
  BY <1>1, <1>2, DeletedType DEF TypeOK

LEMMA HistoryStep == RefundInv /\ [Next]_vars => RowHistory' /\ Forward
<1> SUFFICES ASSUME RefundInv, [Next]_vars PROVE RowHistory' /\ Forward
  OBVIOUS
<1> USE DEF RefundInv, RowHistory, Forward, Exists
<1>0. /\ \A r \in Requests : req[r] \in Request /\ req[r].id \in Ids
      /\ \A p \in Ids : payout[p] \in Row /\ debits[p] \in Nat /\ refunds[p] \in Nat
  BY DEF TypeOK, Request
<1>1. CASE UNCHANGED <<payout, debits, refunds>>
  BY <1>1
<1>2. ASSUME NEW r \in Requests, PostCreate(r) PROVE RowHistory' /\ Forward
  BY <1>0, <1>2 DEF PostCreate, TypeOK
<1>3. ASSUME NEW r \in Requests, ApproveCommit(r) PROVE RowHistory' /\ Forward
  <2> DEFINE p == req[r].id
  <2>1. CASE ~Exists(p)
    BY <1>1, <1>3, <2>1 DEF ApproveCommit
  <2>2. CASE Exists(p)
    <3>1. /\ payout'[p].status = "approved" /\ debits'[p] = debits[p] + 1
          /\ \A q \in Ids \ {p} : payout'[q] = payout[q] /\ debits'[q] = debits[q]
          /\ refunds' = refunds
      BY <1>3, <2>2, ApproveEffect
    <3>2. p \in Ids /\ debits[p] \in Nat /\ refunds[p] = 0
      BY <1>0, <2>2
    <3> HIDE DEF p
    <3> QED
      BY <1>0, <2>2, <3>1, <3>2
  <2> QED
    BY <2>1, <2>2
<1>4. ASSUME NEW r \in Requests, RefundCommit(r) PROVE RowHistory' /\ Forward
  <2> DEFINE p == req[r].id
  <2>1. CASE ~Exists(p)
    BY <1>1, <1>4, <2>1 DEF RefundCommit
  <2>2. CASE Exists(p)
    <3>1. payout[p].status = "approved"
      BY <1>4, <2>2 DEF RefundCommit, ReadsForward
    <3>2. /\ payout'[p].status = "deleted" /\ refunds'[p] = refunds[p] + 1
          /\ \A q \in Ids \ {p} : payout'[q] = payout[q] /\ refunds'[q] = refunds[q]
          /\ debits' = debits
      BY <1>4, <2>2, RefundEffect
    <3>3. p \in Ids /\ refunds[p] = 0 /\ debits[p] \in Nat /\ debits[p] >= 1
      BY <1>0, <3>1
    <3> HIDE DEF p
    <3>4. RowHistory'
      BY <1>0, <3>2, <3>3
    <3>5. Forward
      BY <2>2, <3>2, <3>3
    <3> QED
      BY <3>4, <3>5
  <2> QED
    BY <2>1, <2>2
<1>5. ASSUME NEW r \in Requests, DropCommit(r) PROVE RowHistory' /\ Forward
  BY <1>0, <1>5, DeletedType DEF DropCommit, TypeOK
<1> QED
  BY <1>1, <1>2, <1>3, <1>4, <1>5
  DEF Next, Step, PostRead, PostCheck, ApproveRead, DeleteRead, Abort, Earn, vars

LEMMA ReadsStep == RefundInv /\ [Next]_vars => ReadsForward'
<1> SUFFICES ASSUME RefundInv, [Next]_vars,
                    NEW r \in Requests
             PROVE  /\ req'[r].pc = "refund" =>
                         payout'[req'[r].id].status \in {"approved", "deleted"}
                    /\ req'[r].pc \in {"approve", "drop"} =>
                         payout'[req'[r].id].status # "none"
  BY DEF ReadsForward
<1> DEFINE Waits(q) == q.pc \in {"refund", "approve", "drop"}
<1> USE DEF RefundInv, TypeOK
<1>0. /\ \A x \in Requests : req[x] \in Request /\ req[x].id \in Ids
      /\ Idle \in Request
  BY IdleType DEF Request
<1>1. ASSUME Waits(req'[r]) => req'[r].pc = req[r].pc /\ req'[r].id = req[r].id
      PROVE  /\ req'[r].pc = "refund" =>
                  payout'[req'[r].id].status \in {"approved", "deleted"}
             /\ req'[r].pc \in {"approve", "drop"} =>
                  payout'[req'[r].id].status # "none"
  <2>1. Forward
    BY HistoryStep
  <2> QED
    BY <1>0, <1>1, <2>1 DEF ReadsForward, Forward, Exists
<1>a. ASSUME NEW x \in Requests, Answer(x)
      PROVE Waits(req'[r]) => req'[r].pc = req[r].pc /\ req'[r].id = req[r].id
  BY <1>0, <1>a DEF Answer, Idle
<1>b. ASSUME NEW x \in Requests, Goto(x, "create")
      PROVE Waits(req'[r]) => req'[r].pc = req[r].pc /\ req'[r].id = req[r].id
  BY <1>0, <1>b DEF Goto, Request
<1>2. ASSUME NEW x \in Requests, NEW n \in Amounts, PostRead(x, n)
      PROVE Waits(req'[r]) => req'[r].pc = req[r].pc /\ req'[r].id = req[r].id
  BY <1>0, <1>2 DEF PostRead, Begin, Request
<1>3. ASSUME NEW x \in Requests, NEW p \in Ids, ApproveRead(x, p), x = r
      PROVE req'[r].pc = "approve" /\ req'[r].id = p /\ payout'[p].status = "pending"
  BY <1>0, <1>3 DEF ApproveRead, Begin, Request
<1>4. ASSUME NEW x \in Requests, NEW p \in Ids, DeleteRead(x, p), x = r
      PROVE /\ req'[r].id = p /\ payout'[p].status = payout[p].status
            /\ req'[r].pc = IF payout[p].status = "approved" THEN "refund" ELSE "drop"
            /\ payout[p].status # "none"
  BY <1>0, <1>4 DEF DeleteRead, Begin, Exists, Request
<1>5. ASSUME NEW x \in Requests, NEW p \in Ids,
             ApproveRead(x, p) \/ DeleteRead(x, p), x # r
      PROVE req'[r] = req[r]
  BY <1>0, <1>5 DEF ApproveRead, DeleteRead, Begin
<1>6. CASE UNCHANGED req
  BY <1>1, <1>6
<1>7. ASSUME NEW x \in Requests, Step(x)
      PROVE  /\ req'[r].pc = "refund" =>
                  payout'[req'[r].id].status \in {"approved", "deleted"}
             /\ req'[r].pc \in {"approve", "drop"} =>
                  payout'[req'[r].id].status # "none"
  <2>1. CASE \E n \in Amounts : PostRead(x, n)
    BY <1>1, <1>2, <2>1
  <2>2. CASE \E p \in Ids : ApproveRead(x, p) \/ DeleteRead(x, p)
    BY <1>1, <1>3, <1>4, <1>5, <2>2
  <2>3. CASE PostCheck(x)
    BY <1>1, <1>a, <1>b, <2>3 DEF PostCheck
  <2>4. CASE PostCreate(x) \/ ApproveCommit(x) \/ RefundCommit(x) \/ DropCommit(x)
             \/ Abort(x)
    BY <1>1, <1>a, <2>4
    DEF PostCreate, ApproveCommit, RefundCommit, DropCommit, Abort
  <2> QED
    BY <1>7, <2>1, <2>2, <2>3, <2>4 DEF Step
<1> QED
  BY <1>6, <1>7 DEF Next, Earn, vars

(* However approvals, deletes and crashes interleave, a payout is given     *)
(* back at most once and never without having been taken.                   *)
THEOREM RefundsAreCovered == Spec => []RefundsCovered
<1>1. RefundInv /\ [Next]_vars => RefundInv'
  BY TypeStep, HistoryStep, ReadsStep DEF RefundInv
<1>2. RefundInv => RefundsCovered
  BY DEF RefundInv, RowHistory, RefundsCovered
<1> QED
  BY RefundInvInit, <1>1, <1>2, PTL DEF Spec

------------------------------------------------------------------------------
(* Pending payouts.                                                          *)
LEMMA PendingInvInit == Init => PendingInv
<1> SUFFICES ASSUME Init PROVE PendingInv
  OBVIOUS
<1> QED
  BY TypeInit DEF Init, PendingInv, OnePendingPerUser, CheckHolds, Idle

(* A step makes a row pending only by creating it, and rows keep their user  *)
(* while they are pending.                                                   *)
LEMMA PendingOrigin ==
  ASSUME TypeOK, [Next]_vars, NEW p \in Ids, payout'[p].status = "pending"
  PROVE  \/ payout[p].status = "pending" /\ payout'[p].user = payout[p].user
         \/ \E r \in Requests : PostCreate(r) /\ payout'[p].user = Owner[r]
                               /\ \A q \in Ids \ {p} : payout'[q] = payout[q]
<1> DEFINE Kept == payout[p].status = "pending" /\ payout'[p].user = payout[p].user
<1> USE DEF TypeOK
<1>0. /\ \A r \in Requests : req[r] \in Request /\ req[r].id \in Ids
      /\ \A q \in Ids : payout[q] \in Row
  BY DEF Request
<1>1. CASE UNCHANGED payout
  BY <1>1
<1>2. ASSUME NEW r \in Requests, PostCreate(r)
      PROVE Kept \/ (/\ payout'[p].user = Owner[r]
                     /\ \A q \in Ids \ {p} : payout'[q] = payout[q])
  <2>1. PICK s \in Ids : payout' = [payout EXCEPT ![s] =
            [status |-> "pending", user |-> Owner[r], amount |-> req[r].amount,
             balAfter |-> 0]]
    BY <1>2 DEF PostCreate
  <2>2. CASE s = p
    BY <2>1, <2>2
  <2>3. CASE s # p
    BY <2>1, <2>3
  <2> QED
    BY <2>2, <2>3
<1>3. ASSUME NEW r \in Requests,
             ApproveCommit(r) \/ RefundCommit(r) \/ DropCommit(r)
      PROVE Kept
  <2>1. payout'[req[r].id] = payout[req[r].id] \/ payout'[req[r].id].status # "pending"
    <3>1. req[r].bal \in Int /\ req[r].id \in Ids /\ payout[req[r].id] \in Row
      BY <1>0 DEF Request
    <3> QED
      BY <1>3, <3>1, ApprovedType, DeletedType
      DEF ApproveCommit, RefundCommit, DropCommit
  <2>2. \A q \in Ids \ {req[r].id} : payout'[q] = payout[q]
    BY <1>0, <1>3 DEF ApproveCommit, RefundCommit, DropCommit
  <2> QED
    BY <2>1, <2>2
<1> QED
  BY <1>1, <1>2, <1>3
  DEF Next, Step, PostRead, PostCheck, ApproveRead, DeleteRead, Abort, Earn, vars

(* A request is about to create only if it was before, or has just checked.  *)
LEMMA CreateOrigin ==
  ASSUME TypeOK, [Next]_vars, NEW r \in Requests, req'[r].pc = "create"
  PROVE  \/ req[r].pc = "create" /\ ~PostCreate(r)
         \/ PostCheck(r) /\ ~HasPending(Owner[r]) /\ UNCHANGED payout
<1> USE DEF TypeOK
<1>0. /\ \A x \in Requests : req[x] \in Request
      /\ Idle \in Request
  BY IdleType
<1>a. ASSUME NEW x \in Requests, Answer(x) PROVE req[r].pc = "create" /\ x # r
  BY <1>0, <1>a DEF Answer, Idle
<1>b. ~PostCreate(r)
  BY <1>a DEF PostCreate
<1>c. ASSUME NEW x \in Requests, NEW q, Begin(x, q), q.pc # "create"
      PROVE req[r].pc = "create"
  BY <1>0, <1>c DEF Begin
<1>1. ASSUME NEW x \in Requests, NEW n \in Amounts, PostRead(x, n)
      PROVE req[r].pc = "create"
  BY <1>0, <1>1 DEF PostRead, Begin, Request
<1>2. ASSUME NEW x \in Requests, NEW p \in Ids, ApproveRead(x, p) \/ DeleteRead(x, p)
      PROVE req[r].pc = "create"
  <2>1. CASE ApproveRead(x, p)
    BY <1>0, <2>1 DEF ApproveRead, Begin, Request
  <2>2. CASE DeleteRead(x, p)
    BY <1>0, <2>2 DEF DeleteRead, Begin, Request
  <2> QED
    BY <1>2, <2>1, <2>2
<1>3. ASSUME NEW x \in Requests, PostCheck(x)
      PROVE req[r].pc = "create"
            \/ (PostCheck(r) /\ ~HasPending(Owner[r]) /\ UNCHANGED payout)
  <2>1. CASE x = r
    BY <1>a, <1>3, <2>1 DEF PostCheck
  <2>2. CASE x # r
    BY <1>0, <1>a, <1>3, <2>2 DEF PostCheck, Goto
  <2> QED
    BY <2>1, <2>2
<1>4. ASSUME UNCHANGED req PROVE req[r].pc = "create"
  BY <1>4
<1>5. ASSUME NEW x \in Requests,
             \/ PostCreate(x) \/ ApproveCommit(x) \/ RefundCommit(x) \/ DropCommit(x)
             \/ Abort(x)
      PROVE req[r].pc = "create"
  BY <1>5, <1>a DEF PostCreate, ApproveCommit, RefundCommit, DropCommit, Abort
<1>6. \/ req[r].pc = "create"
      \/ PostCheck(r) /\ ~HasPending(Owner[r]) /\ UNCHANGED payout
  BY <1>1, <1>2, <1>3, <1>4, <1>5 DEF Next, Step, Earn, vars
<1> QED
  BY <1>b, <1>6

(* Users stay hasty.                                                         *)
LEMMA HastyGrows == [Next]_vars => hasty \subseteq hasty'
BY DEF Next, Step, PostRead, PostCheck, PostCreate, ApproveRead, ApproveCommit, DeleteRead,
       RefundCommit, DropCommit, Abort, Earn, Begin, vars

(* However the requests of any number of reviewers and admins interleave and *)
(* fail, a reviewer never has two pending payouts, until two requests of his *)
(* own have both looked before either created (route.ts:49-61).              *)
THEOREM SinglePending == Spec => []OnePendingPerUser
<1>2. ASSUME PendingInv, [Next]_vars PROVE PendingInv'
  <2> USE <1>2 DEF PendingInv
  <2>1. TypeOK'
    BY TypeStep
  <2>0. hasty \subseteq hasty'
    BY HastyGrows
  <2>2. OnePendingPerUser'
    <3> SUFFICES ASSUME NEW p \in Ids, NEW q \in Ids, p # q,
                        payout'[p].status = "pending", payout'[q].status = "pending",
                        payout'[p].user = payout'[q].user, payout'[p].user \notin hasty
                 PROVE FALSE
      BY <2>0 DEF OnePendingPerUser
    <3>1. ASSUME NEW x \in Ids, NEW y \in Ids, x # y, NEW r \in Requests,
                 PostCreate(r), payout'[x].user = Owner[r],
                 \A z \in Ids \ {x} : payout'[z] = payout[z],
                 payout'[y].status = "pending", payout'[y].user = payout'[x].user,
                 payout'[x].user \notin hasty
          PROVE FALSE
      <4>1. HasPending(Owner[r])
        BY <3>1 DEF HasPending
      <4>2. req[r].pc = "create"
        BY <3>1 DEF PostCreate
      <4> QED
        BY <3>1, <4>1, <4>2 DEF CheckHolds
    <3> QED
      BY <3>1, PendingOrigin DEF OnePendingPerUser
  <2>3. CheckHolds'
    <3> SUFFICES ASSUME NEW r \in Requests, req'[r].pc = "create", Owner[r] \notin hasty'
                 PROVE  /\ ~HasPending(Owner[r])'
                        /\ \A s \in Requests : req'[s].pc = "create" /\ Owner[s] = Owner[r] => s = r
      BY DEF CheckHolds
    <3>0. Owner[r] \notin hasty
      BY <2>0
    <3>a. ASSUME NEW x \in Requests, PostCheck(x), Owner[x] = Owner[r], req'[x].pc = "create"
          PROVE \A s \in Requests \ {x} : Owner[s] = Owner[r] => req[s].pc # "create"
      <4>1. ~Answer(x)
        BY <3>a, IdleType DEF Answer, Idle, TypeOK
      <4> QED
        BY <3>a, <4>1 DEF PostCheck
    <3>1. ASSUME NEW s \in Requests, NEW t \in Requests, req'[s].pc = "create",
                 req'[t].pc = "create", Owner[s] = Owner[r], Owner[t] = Owner[r], s # t,
                 req[s].pc = "create"
          PROVE FALSE
      <4>1. CASE req[t].pc = "create"
        BY <3>0, <3>1, <4>1 DEF CheckHolds
      <4>2. CASE PostCheck(t)
        BY <3>1, <3>a, <4>2
      <4> QED
        BY <3>1, <4>1, <4>2, CreateOrigin
    <3>2. ASSUME NEW s \in Requests, req'[s].pc = "create", Owner[s] = Owner[r], s # r
          PROVE FALSE
      <4>1. CASE req[s].pc = "create" \/ req[r].pc = "create"
        BY <3>1, <3>2, <4>1
      <4>2. CASE PostCheck(s) /\ PostCheck(r)
        <5>1. req'[s] = req[s]
          BY <3>2, <4>2, IdleType DEF PostCheck, Answer, Goto, TypeOK
        <5> QED
          BY <3>2, <4>2, <5>1 DEF PostCheck
      <4> QED
        BY <3>2, <4>1, <4>2, CreateOrigin
    <3>3. ASSUME NEW p \in Ids, payout'[p].status = "pending", payout'[p].user = Owner[r]
          PROVE FALSE
      <4>1. CASE req[r].pc = "create" /\ ~PostCreate(r)
        <5>1. ~HasPending(Owner[r])
          BY <3>0, <4>1 DEF CheckHolds
        <5>2. ASSUME NEW x \in Requests, PostCreate(x), payout'[p].user = Owner[x]
              PROVE FALSE
          <6>1. req[x].pc = "create" /\ Owner[x] = Owner[r]
            BY <3>3, <5>2 DEF PostCreate
          <6>2. x = r
            BY <3>0, <4>1, <6>1 DEF CheckHolds
          <6> QED
            BY <4>1, <5>2, <6>2
        <5> QED
          BY <3>3, <5>1, <5>2, PendingOrigin DEF HasPending
      <4>2. CASE PostCheck(r) /\ ~HasPending(Owner[r]) /\ UNCHANGED payout
        BY <3>3, <4>2 DEF HasPending
      <4> QED
        BY <4>1, <4>2, CreateOrigin
    <3> QED
      BY <3>2, <3>3 DEF HasPending
  <2> QED
    BY <2>1, <2>2, <2>3
<1>3. PendingInv => OnePendingPerUser
  BY DEF PendingInv
<1> QED
  BY PendingInvInit, <1>2, <1>3, PTL DEF Spec

------------------------------------------------------------------------------
(* The books.                                                                *)

(* What a user earned and has neither at hand nor been paid out.             *)
Missing(u) == earned[u] - (balance[u] + ApprovedSum(u))

LEMMA PaidOutType == ASSUME TypeOK, NEW u, NEW p \in Ids PROVE PaidOut(u, p) \in Nat
BY DEF TypeOK, Row, PaidOut

LEMMA ApprovedSumType == ASSUME TypeOK, NEW u PROVE ApprovedSum(u) \in Nat
<1> DEFINE f == [p \in Ids |-> PaidOut(u, p)]
<1>1. \A p \in Ids : f[p] \in Nat
  BY PaidOutType
<1> HIDE DEF f
<1>2. Total(f, Ids) \in Nat
  BY <1>1, TotalNat
<1> QED
  BY <1>2 DEF f, ApprovedSum

(* A step that touches one row changes the sum by what it changes there.     *)
LEMMA ApprovedSumChange ==
  ASSUME TypeOK, TypeOK', NEW u, NEW p \in Ids,
         \A q \in Ids \ {p} : payout'[q] = payout[q]
  PROVE  ApprovedSum(u)' = ApprovedSum(u) + (PaidOut(u, p)' - PaidOut(u, p))
<1> DEFINE f == [q \in Ids |-> PaidOut(u, q)]
           g == [q \in Ids |-> PaidOut(u, q)']
<1>1. \A q \in Ids : f[q] \in Int /\ g[q] \in Int
  <2>1. ASSUME NEW q \in Ids PROVE PaidOut(u, q) \in Int /\ PaidOut(u, q)' \in Int
    BY DEF TypeOK, Row, PaidOut
  <2> QED
    BY <2>1
<1>2. \A q \in Ids \ {p} : f[q] = g[q]
  BY DEF PaidOut
<1>3. f[p] = PaidOut(u, p) /\ g[p] = PaidOut(u, p)'
  OBVIOUS
<1>4. ApprovedSum(u) = Total(f, Ids) /\ ApprovedSum(u)' = Total(g, Ids)
  BY DEF ApprovedSum
<1> HIDE DEF f, g
<1>5. Total(g, Ids) = Total(f, Ids) + (g[p] - f[p])
  BY <1>1, <1>2, TotalChange
<1> QED
  BY <1>3, <1>4, <1>5

(* No step lets a user have more than he earned; nothing goes missing but by *)
(* approving or dropping a payout that was approved since it was read.       *)
LEMMA Ledger ==
  ASSUME RefundInv, [Next]_vars, NEW u \in Users
  PROVE  /\ Missing(u) \in Int /\ Missing(u)' \in Int
         /\ Missing(u)' >= Missing(u)
         /\ (\A r \in Requests : ApproveCommit(r) \/ DropCommit(r) =>
               payout[req[r].id].status # "approved") => Missing(u)' = Missing(u)
<1> USE DEF RefundInv
<1>0. TypeOK'
  BY TypeStep
<1>1. /\ ApprovedSum(u) \in Int /\ ApprovedSum(u)' \in Int
      /\ \A v \in Users : {balance[v], earned[v], balance'[v], earned'[v]} \subseteq Int
  <2>1. ApprovedSum(u) \in Nat
    BY ApprovedSumType
  <2>2. ApprovedSum(u)' \in Nat
    <3> DEFINE f == [p \in Ids |-> PaidOut(u, p)']
    <3>1. \A p \in Ids : f[p] \in Nat
      BY <1>0 DEF TypeOK, Row, PaidOut
    <3> HIDE DEF f
    <3>2. Total(f, Ids) \in Nat
      BY <3>1, TotalNat
    <3> QED
      BY <3>2 DEF f, ApprovedSum
  <2> QED
    BY <1>0, <2>1, <2>2 DEF TypeOK
<1>2. /\ \A r \in Requests : req[r].id \in Ids /\ req[r].bal \in Int
      /\ \A p \in Ids : /\ payout[p] \in Row /\ payout[p].user \in Users
                        /\ payout[p].amount \in Nat
  BY DEF TypeOK, Request, Row
<1>3. SUFFICES /\ Missing(u)' >= Missing(u)
               /\ (\A r \in Requests : ApproveCommit(r) \/ DropCommit(r) =>
                     payout[req[r].id].status # "approved") => Missing(u)' = Missing(u)
  BY <1>1 DEF Missing
<1> USE DEF Missing
<1>4. ASSUME UNCHANGED <<payout, balance, earned>> PROVE Missing(u)' = Missing(u)
  <2>1. ApprovedSum(u)' = ApprovedSum(u)
    BY <1>4 DEF ApprovedSum, PaidOut
  <2> QED
    BY <1>1, <1>4, <2>1
<1>5. ASSUME NEW v \in Users, Earn(v) PROVE Missing(u)' = Missing(u)
  <2>1. ApprovedSum(u)' = ApprovedSum(u)
    BY <1>5 DEF Earn, ApprovedSum, PaidOut
  <2>2. balance'[u] - balance[u] = earned'[u] - earned[u]
    BY <1>1, <1>5 DEF Earn, TypeOK
  <2> QED
    BY <1>1, <2>1, <2>2
<1>6. ASSUME NEW r \in Requests, PostCreate(r) PROVE Missing(u)' = Missing(u)
  <2>1. PICK p \in Ids :
          /\ payout[p].status = "none"
          /\ payout' = [payout EXCEPT ![p] =
               [status |-> "pending", user |-> Owner[r], amount |-> req[r].amount,
                balAfter |-> 0]]
    BY <1>6 DEF PostCreate
  <2>2. /\ payout'[p].status = "pending"
        /\ \A q \in Ids \ {p} : payout'[q] = payout[q]
    BY <2>1 DEF TypeOK
  <2>3. PaidOut(u, p) = 0 /\ PaidOut(u, p)' = 0
    BY <2>1, <2>2 DEF PaidOut
  <2>4. ApprovedSum(u)' = ApprovedSum(u) + (PaidOut(u, p)' - PaidOut(u, p))
    BY <1>0, <2>2, ApprovedSumChange
  <2>5. ApprovedSum(u)' = ApprovedSum(u)
    BY <1>1, <2>3, <2>4
  <2> QED
    BY <1>6, <2>5 DEF PostCreate
<1>7. ASSUME NEW r \in Requests, ApproveCommit(r)
      PROVE  /\ Missing(u)' >= Missing(u)
             /\ payout[req[r].id].status # "approved" => Missing(u)' = Missing(u)
  <2>0. PICK p \in Ids : p = req[r].id
    BY <1>2
  <2> DEFINE row == payout[p]
  <2>1. CASE ~Exists(p)
    BY <1>1, <1>4, <1>7, <2>0, <2>1 DEF ApproveCommit
  <2>2. CASE Exists(p)
    <3>1. /\ payout'[p].status = "approved" /\ payout'[p].user = row.user
          /\ payout'[p].amount = row.amount
          /\ \A q \in Ids \ {p} : payout'[q] = payout[q]
          /\ earned' = earned
      <4>1. payout' = [payout EXCEPT ![p] = Approved(row, req[r].bal)] /\ earned' = earned
        BY <1>7, <2>0, <2>2 DEF ApproveCommit
      <4>2. payout'[p] = Approved(row, req[r].bal)
        BY <1>2, <4>1 DEF TypeOK
      <4> QED
        BY <1>2, <4>1, <4>2 DEF TypeOK, Approved, Row
    <3>2. balance'[u] = IF row.user = u THEN balance[u] - row.amount ELSE balance[u]
      BY <1>7, <2>0, <2>2 DEF ApproveCommit, TypeOK
    <3>3. /\ PaidOut(u, p)' = IF row.user = u THEN row.amount ELSE 0
          /\ PaidOut(u, p) = IF row.status = "approved" /\ row.user = u
                             THEN row.amount ELSE 0
      BY <3>1 DEF PaidOut
    <3>4. ApprovedSum(u)' = ApprovedSum(u) + (PaidOut(u, p)' - PaidOut(u, p))
      BY <1>0, <1>2, <3>1, ApprovedSumChange
    <3>5. row.amount \in Nat
      BY <1>2
    <3> HIDE DEF row
    <3> QED
      BY <1>1, <2>0, <3>1, <3>2, <3>3, <3>4, <3>5 DEF row
  <2> QED
    BY <2>1, <2>2
<1>8. ASSUME NEW r \in Requests, RefundCommit(r) PROVE Missing(u)' = Missing(u)
  <2>0. PICK p \in Ids : p = req[r].id
    BY <1>2
  <2> DEFINE row == payout[p]
  <2>1. CASE ~Exists(p)
    BY <1>4, <1>8, <2>0, <2>1 DEF RefundCommit
  <2>2. CASE Exists(p)
    <3>1. row.status = "approved"
      BY <1>8, <2>0, <2>2 DEF RefundCommit, ReadsForward, Exists
    <3>2. /\ payout'[p].status = "deleted"
          /\ \A q \in Ids \ {p} : payout'[q] = payout[q]
      BY <1>8, <2>0, <2>2, RefundEffect
    <3>3. balance'[u] = IF row.user = u THEN balance[u] + row.amount ELSE balance[u]
      BY <1>8, <2>0, <2>2 DEF RefundCommit, TypeOK
    <3>4. earned' = earned
      BY <1>8 DEF RefundCommit
    <3>5. /\ PaidOut(u, p)' = 0
          /\ PaidOut(u, p) = IF row.user = u THEN row.amount ELSE 0
      BY <3>1, <3>2 DEF PaidOut
    <3>6. ApprovedSum(u)' = ApprovedSum(u) + (PaidOut(u, p)' - PaidOut(u, p))
      BY <1>0, <1>2, <3>2, ApprovedSumChange
    <3>7. row.amount \in Nat
      BY <1>2
    <3> HIDE DEF row
    <3> QED
      BY <1>1, <3>3, <3>4, <3>5, <3>6, <3>7
  <2> QED
    BY <2>1, <2>2
<1>9. ASSUME NEW r \in Requests, DropCommit(r)
      PROVE  /\ Missing(u)' >= Missing(u)
             /\ payout[req[r].id].status # "approved" => Missing(u)' = Missing(u)
  <2>0. PICK p \in Ids : p = req[r].id
    BY <1>2
  <2>1. CASE ~Exists(p)
    BY <1>1, <1>4, <1>9, <2>0, <2>1 DEF DropCommit
  <2>2. CASE Exists(p)
    <3>1. /\ payout' = [payout EXCEPT ![p] = Deleted(@)]
          /\ balance' = balance /\ earned' = earned
      BY <1>9, <2>0, <2>2 DEF DropCommit
    <3>2. /\ payout'[p].status = "deleted"
          /\ \A q \in Ids \ {p} : payout'[q] = payout[q]
      BY <1>2, <3>1, DeletedType DEF TypeOK
    <3>3. /\ PaidOut(u, p)' = 0 /\ PaidOut(u, p) \in Nat
          /\ payout[p].status # "approved" => PaidOut(u, p) = 0
      BY <1>2, <3>2, PaidOutType DEF PaidOut
    <3>4. ApprovedSum(u)' = ApprovedSum(u) + (PaidOut(u, p)' - PaidOut(u, p))
      BY <1>0, <1>2, <3>2, ApprovedSumChange
    <3> QED
      BY <1>1, <2>0, <3>1, <3>3, <3>4
  <2> QED
    BY <2>1, <2>2
<1>10. ASSUME NEW r \in Requests,
              \/ \E n \in Amounts : PostRead(r, n)
              \/ \E p \in Ids : ApproveRead(r, p) \/ DeleteRead(r, p)
              \/ PostCheck(r) \/ Abort(r)
       PROVE Missing(u)' = Missing(u)
  BY <1>4, <1>10 DEF PostRead, PostCheck, ApproveRead, DeleteRead, Abort
<1>11. ASSUME UNCHANGED vars PROVE Missing(u)' = Missing(u)
  BY <1>4, <1>11 DEF vars
<1> DEFINE Goal == /\ Missing(u)' >= Missing(u)
                   /\ (\A r \in Requests : ApproveCommit(r) \/ DropCommit(r) =>
                         payout[req[r].id].status # "approved") => Missing(u)' = Missing(u)
<1>12. Missing(u)' = Missing(u) => Goal
  BY <1>1
<1>13. ASSUME NEW r \in Requests, ApproveCommit(r) \/ DropCommit(r) PROVE Goal
  BY <1>7, <1>9, <1>13
<1> HIDE DEF Goal, Missing
<1>14. ASSUME NEW r \in Requests, Step(r) PROVE Goal
  BY <1>6, <1>8, <1>10, <1>12, <1>13, <1>14 DEF Step
<1>15. Goal
  BY <1>5, <1>11, <1>12, <1>14 DEF Next
<1> QED
  BY <1>15 DEF Goal

LEMMA BooksInit ==
  Init => \A u \in Users : Missing(u) = 0 /\ balance[u] = 0
<1> SUFFICES ASSUME Init, NEW u \in Users PROVE Missing(u) = 0 /\ balance[u] = 0
  OBVIOUS
<1> DEFINE f == [p \in Ids |-> PaidOut(u, p)]
<1>1. \A p \in Ids : f[p] = 0
  BY DEF Init, PaidOut
<1> HIDE DEF f
<1>2. Total(f, Ids) = 0
  BY <1>1, TotalZero
<1> QED
  BY <1>2 DEF f, Init, Missing, ApprovedSum

(* However the requests of any number of users race, what a reviewer can     *)
(* spend and what he was paid out never exceed together what he earned.      *)
THEOREM PayoutsAreEarned == Spec => []PaidFromEarnings
<1> DEFINE Inv == RefundInv /\ \A u \in Users : Missing(u) >= 0
<1>1. Init => Inv
  BY RefundInvInit, BooksInit
<1>2. Inv /\ [Next]_vars => Inv'
  <2> SUFFICES ASSUME Inv, [Next]_vars PROVE Inv'
    OBVIOUS
  <2>1. RefundInv'
    BY TypeStep, HistoryStep, ReadsStep DEF RefundInv
  <2>2. ASSUME NEW u \in Users PROVE Missing(u)' >= 0
    <3>1. /\ Missing(u) \in Int /\ Missing(u)' \in Int
          /\ Missing(u)' >= Missing(u)
      BY Ledger
    <3> QED
      BY <3>1
  <2> QED
    BY <2>1, <2>2
<1>3. Inv => PaidFromEarnings
  <2> SUFFICES ASSUME Inv, NEW u \in Users
               PROVE balance[u] + ApprovedSum(u) <= earned[u]
    BY DEF PaidFromEarnings
  <2>1. ApprovedSum(u) \in Int /\ balance[u] \in Int /\ earned[u] \in Int
    BY ApprovedSumType DEF RefundInv, TypeOK
  <2> QED
    BY <2>1 DEF Missing
<1> QED
  BY <1>1, <1>2, <1>3, PTL DEF Spec
------------------------------------------------------------------------------
(* Requests that never overlap.                                              *)

(* What a request that runs alone knows.                                     *)
Knows(r) ==
  /\ req[r].pc \in {"checkPending", "create"} => balance[Owner[r]] >= req[r].amount
  /\ req[r].pc = "create" => ~HasPending(Owner[r])
  /\ req[r].pc = "approve" => /\ payout[req[r].id].status = "pending"
                              /\ req[r].bal = balance[payout[req[r].id].user]
  /\ req[r].pc = "refund" => payout[req[r].id].status = "approved"
  /\ req[r].pc = "drop" => payout[req[r].id].status = "pending"

(* A pending payout can be afforded, and nobody is below zero.               *)
Afforded ==
  /\ \A p \in Ids :
       payout[p].status = "pending" => balance[payout[p].user] >= payout[p].amount
  /\ \A u \in Users : balance[u] >= 0

OnePending ==
  \A p, q \in Ids :
    payout[p].status = "pending" /\ payout[q].status = "pending"
      /\ payout[p].user = payout[q].user => p = q

Serial ==
  ~overlapped => /\ \A r, s \in Requests : req[r].pc # "idle" /\ req[s].pc # "idle" => r = s
                 /\ \A r \in Requests : Knows(r)
                 /\ OnePending
                 /\ Afforded
                 /\ \A u \in Users : Missing(u) = 0

SerialInv == RefundInv /\ Serial

(* The request that takes a step is the only one in progress after it.       *)
LEMMA OnlyOne ==
  ASSUME SerialInv, NEW r \in Requests, Step(r), ~overlapped'
  PROVE  ~overlapped /\ \A s \in Requests \ {r} : req'[s].pc = "idle"
<1> USE DEF SerialInv, RefundInv, Serial, TypeOK
<1>0. Idle \in Request /\ Idle.pc = "idle" /\ \A s \in Requests : req[s] \in Request
  BY IdleType DEF Idle
<1>1. ASSUME NEW q, Begin(r, q) PROVE ~overlapped /\ \A s \in Requests \ {r} : req'[s].pc = "idle"
  BY <1>1 DEF Begin, Busy
<1>2. ASSUME req[r].pc # "idle", UNCHANGED overlapped,
             Answer(r) \/ Goto(r, "create")
      PROVE ~overlapped /\ \A s \in Requests \ {r} : req'[s].pc = "idle"
  <2>1. \A s \in Requests \ {r} : req[s].pc = "idle" /\ req'[s] = req[s]
    BY <1>0, <1>2 DEF Answer, Goto
  <2> QED
    BY <1>2, <2>1
<1>3. CASE \E n \in Amounts : PostRead(r, n)
  BY <1>1, <1>3 DEF PostRead
<1>4. CASE \E p \in Ids : ApproveRead(r, p) \/ DeleteRead(r, p)
  BY <1>1, <1>4 DEF ApproveRead, DeleteRead
<1>5. CASE \/ PostCheck(r) \/ PostCreate(r) \/ ApproveCommit(r) \/ RefundCommit(r)
           \/ DropCommit(r) \/ Abort(r)
  BY <1>2, <1>5
  DEF PostCheck, PostCreate, ApproveCommit, RefundCommit, DropCommit, Abort
<1> QED
  BY <1>3, <1>4, <1>5 DEF Step

LEMMA SerialStep == SerialInv /\ [Next]_vars => Serial'
<1> SUFFICES ASSUME SerialInv, [Next]_vars, ~overlapped' PROVE
       /\ \A r, s \in Requests : req'[r].pc # "idle" /\ req'[s].pc # "idle" => r = s
       /\ \A r \in Requests : Knows(r)'
       /\ OnePending'
       /\ Afforded'
       /\ \A u \in Users : Missing(u)' = 0
  BY DEF Serial
<1> USE DEF SerialInv
<1>1. ~overlapped
  BY OnlyOne DEF Next, Earn, vars
<1>2. /\ \A r, s \in Requests : req[r].pc # "idle" /\ req[s].pc # "idle" => r = s
      /\ \A r \in Requests : Knows(r)
      /\ OnePending /\ Afforded
      /\ \A u \in Users : Missing(u) = 0
  BY <1>1 DEF Serial
<1>3. \A u \in Users : Missing(u)' = 0
  <2>1. \A r \in Requests : ApproveCommit(r) \/ DropCommit(r) =>
          payout[req[r].id].status # "approved"
    BY <1>2 DEF Knows, ApproveCommit, DropCommit
  <2> QED
    BY <1>2, <2>1, Ledger
<1>4. /\ \A r \in Requests : req[r] \in Request /\ req[r].id \in Ids /\ req[r].bal \in Int
                             /\ req[r].amount \in Nat /\ Owner[r] \in Users
      /\ \A p \in Ids : /\ payout[p] \in Row /\ payout[p].user \in Users
                        /\ payout[p].amount \in Nat
      /\ \A u \in Users : balance[u] \in Int
      /\ Idle \in Request /\ Idle.pc = "idle"
  BY IdleType DEF RefundInv, TypeOK, Request, Row, Idle
<1> DEFINE Rest == OnePending' /\ Afforded'
<1>5. ASSUME UNCHANGED <<payout, balance>> PROVE Rest
  BY <1>2, <1>5 DEF OnePending, Afforded
<1>6. ASSUME NEW r \in Requests, req'[r].pc = "idle" PROVE Knows(r)'
  BY <1>6 DEF Knows
<1>7. ASSUME NEW r \in Requests, Answer(r) PROVE Knows(r)'
  BY <1>4, <1>6, <1>7 DEF Answer, RefundInv, TypeOK
<1>8. ASSUME NEW r \in Requests, NEW n \in Amounts, PostRead(r, n) PROVE Knows(r)' /\ Rest
  <2>1. /\ req'[r].pc = "checkPending" /\ req'[r].amount = n
        /\ balance[Owner[r]] >= n /\ UNCHANGED <<payout, balance>>
    BY <1>4, <1>8 DEF PostRead, Begin, RefundInv, TypeOK, Request
  <2> QED
    BY <1>5, <2>1 DEF Knows
<1>9. ASSUME NEW r \in Requests, NEW p \in Ids, ApproveRead(r, p) PROVE Knows(r)' /\ Rest
  <2>1. /\ req'[r].pc = "approve" /\ req'[r].id = p
        /\ req'[r].bal = balance[payout[p].user]
        /\ payout[p].status = "pending" /\ UNCHANGED <<payout, balance>>
    BY <1>4, <1>9 DEF ApproveRead, Begin, RefundInv, TypeOK, Request
  <2> QED
    BY <1>5, <2>1 DEF Knows
<1>10. ASSUME NEW r \in Requests, NEW p \in Ids, DeleteRead(r, p) PROVE Knows(r)' /\ Rest
  <2>1. /\ req'[r].pc = IF payout[p].status = "approved" THEN "refund" ELSE "drop"
        /\ req'[r].id = p /\ payout[p].status \in {"pending", "approved"}
        /\ UNCHANGED <<payout, balance>>
    BY <1>4, <1>10 DEF DeleteRead, Begin, Exists, RefundInv, TypeOK, Request
  <2> QED
    BY <1>5, <2>1 DEF Knows
<1>11. ASSUME NEW r \in Requests, PostCheck(r) PROVE Knows(r)' /\ Rest
  <2>1. UNCHANGED <<payout, balance>>
    BY <1>11 DEF PostCheck
  <2>2. CASE Answer(r)
    BY <1>5, <1>7, <2>1, <2>2
  <2>3. CASE ~HasPending(Owner[r]) /\ Goto(r, "create")
    <3>1. req'[r].pc = "create" /\ req'[r].amount = req[r].amount
      BY <1>4, <2>3 DEF Goto, RefundInv, TypeOK, Request
    <3>2. balance[Owner[r]] >= req[r].amount
      BY <1>2, <1>11 DEF Knows, PostCheck
    <3>3. ~HasPending(Owner[r])'
      BY <2>1, <2>3 DEF HasPending
    <3> QED
      BY <1>5, <2>1, <3>1, <3>2, <3>3 DEF Knows
  <2> QED
    BY <1>11, <2>2, <2>3 DEF PostCheck
<1>12. ASSUME NEW r \in Requests, PostCreate(r) PROVE Knows(r)' /\ Rest
  <2>1. PICK p \in Ids : payout' = [payout EXCEPT ![p] =
            [status |-> "pending", user |-> Owner[r], amount |-> req[r].amount,
             balAfter |-> 0]]
    BY <1>12 DEF PostCreate
  <2>2. /\ payout'[p].status = "pending" /\ payout'[p].user = Owner[r]
        /\ payout'[p].amount = req[r].amount
        /\ \A q \in Ids \ {p} : payout'[q] = payout[q]
        /\ balance' = balance
    BY <1>12, <2>1 DEF PostCreate, RefundInv, TypeOK
  <2>3. ~HasPending(Owner[r]) /\ balance[Owner[r]] >= req[r].amount
    BY <1>2, <1>12 DEF Knows, PostCreate
  <2>4. OnePending'
    BY <1>2, <2>2, <2>3 DEF OnePending, HasPending
  <2>5. Afforded'
    BY <1>2, <2>2, <2>3 DEF Afforded
  <2> QED
    BY <1>7, <1>12, <2>4, <2>5 DEF PostCreate
<1>13. ASSUME NEW r \in Requests, ApproveCommit(r) PROVE Knows(r)' /\ Rest
  <2>0. PICK p \in Ids : p = req[r].id
    BY <1>4
  <2>1. payout[p].status = "pending" /\ Exists(p)
    BY <1>2, <1>13, <2>0 DEF Knows, ApproveCommit, Exists
  <2>2. /\ payout'[p].status = "approved"
        /\ \A q \in Ids \ {p} : payout'[q] = payout[q]
    BY <1>13, <2>0, <2>1, ApproveEffect DEF RefundInv
  <2>3. \A u \in Users : balance'[u] = IF payout[p].user = u THEN balance[u] - payout[p].amount
                                       ELSE balance[u]
    BY <1>13, <2>0, <2>1 DEF ApproveCommit, RefundInv, TypeOK
  <2>4. OnePending'
    BY <1>2, <2>2 DEF OnePending
  <2>5. \A q \in Ids \ {p} : payout[q].status = "pending" => payout[q].user # payout[p].user
    BY <1>2, <2>1 DEF OnePending
  <2>6. balance[payout[p].user] >= payout[p].amount
    BY <1>2, <2>1 DEF Afforded
  <2>7. Afforded'
    <3>1. ASSUME NEW u \in Users PROVE balance'[u] >= 0
      <4>1. /\ balance[u] \in Int /\ balance[u] >= 0 /\ payout[p].amount \in Nat
            /\ balance'[u] = IF payout[p].user = u THEN balance[u] - payout[p].amount
                             ELSE balance[u]
        BY <1>2, <1>4, <2>3 DEF Afforded
      <4> QED
        BY <2>6, <4>1
    <3>2. ASSUME NEW q \in Ids, payout'[q].status = "pending"
          PROVE balance'[payout'[q].user] >= payout'[q].amount
      BY <1>2, <1>4, <2>2, <2>3, <2>5, <3>2 DEF Afforded
    <3> QED
      BY <3>1, <3>2 DEF Afforded
  <2> QED
    BY <1>7, <1>13, <2>4, <2>7 DEF ApproveCommit
<1>14. ASSUME NEW r \in Requests, RefundCommit(r) PROVE Knows(r)' /\ Rest
  <2>0. PICK p \in Ids : p = req[r].id
    BY <1>4
  <2>1. payout[p].status = "approved" /\ Exists(p)
    BY <1>2, <1>14, <2>0 DEF Knows, RefundCommit, Exists
  <2>2. /\ payout'[p].status = "deleted"
        /\ \A q \in Ids \ {p} : payout'[q] = payout[q]
    BY <1>14, <2>0, <2>1, RefundEffect DEF RefundInv
  <2>3. \A u \in Users : balance'[u] = IF payout[p].user = u THEN balance[u] + payout[p].amount
                                       ELSE balance[u]
    BY <1>14, <2>0, <2>1 DEF RefundCommit, RefundInv, TypeOK
  <2>4. OnePending'
    BY <1>2, <2>2 DEF OnePending
  <2>5. Afforded'
    <3>1. \A u \in Users : balance'[u] \in Int /\ balance'[u] >= balance[u]
      BY <1>4, <2>3
    <3>2. ASSUME NEW q \in Ids, payout'[q].status = "pending"
          PROVE balance'[payout'[q].user] >= payout'[q].amount
      BY <1>2, <1>4, <2>2, <3>1, <3>2 DEF Afforded
    <3> QED
      BY <1>2, <1>4, <3>1, <3>2 DEF Afforded
  <2> QED
    BY <1>7, <1>14, <2>4, <2>5 DEF RefundCommit
<1>15. ASSUME NEW r \in Requests, DropCommit(r) PROVE Knows(r)' /\ Rest
  <2>0. PICK p \in Ids : p = req[r].id
    BY <1>4
  <2>1. \A q \in Ids : payout'[q] = payout[q] \/ payout'[q].status = "deleted"
    BY <1>4, <1>15, <2>0, DeletedType DEF DropCommit, RefundInv, TypeOK
  <2>2. balance' = balance
    BY <1>15 DEF DropCommit
  <2>3. OnePending'
    BY <1>2, <2>1 DEF OnePending
  <2>4. Afforded'
    BY <1>2, <2>1, <2>2 DEF Afforded
  <2> QED
    BY <1>7, <1>15, <2>3, <2>4 DEF DropCommit
<1>16. ASSUME NEW r \in Requests, Abort(r) PROVE Knows(r)' /\ Rest
  BY <1>5, <1>7, <1>16 DEF Abort
<1>17. CASE \E r \in Requests : Step(r)
  <2>1. PICK r \in Requests : Step(r)
    BY <1>17
  <2>2. \A s \in Requests \ {r} : req'[s].pc = "idle"
    BY <2>1, OnlyOne
  <2>3. Knows(r)' /\ Rest
    BY <1>8, <1>9, <1>10, <1>11, <1>12, <1>13, <1>14, <1>15, <1>16, <2>1 DEF Step
  <2>4. \A s \in Requests : Knows(s)'
    BY <1>6, <2>2, <2>3
  <2> QED
    BY <1>3, <2>2, <2>3, <2>4
<1>18. CASE \E u \in Users : Earn(u)
  <2>1. PICK u \in Users : Earn(u)
    BY <1>18
  <2>2. /\ \A r \in Requests : req'[r].pc = "idle"
        /\ payout' = payout
        /\ \A v \in Users : balance'[v] \in Int /\ balance'[v] >= balance[v]
    <3>1. (\A r \in Requests : req'[r].pc = "idle") /\ payout' = payout
      BY <2>1 DEF Earn, Busy
    <3>2. balance' = [balance EXCEPT ![u] = @ + 1]
      BY <2>1 DEF Earn
    <3>3. \A v \in Users : balance'[v] = IF v = u THEN balance[v] + 1 ELSE balance[v]
      BY <3>2 DEF RefundInv, TypeOK
    <3> QED
      BY <1>4, <3>1, <3>3
  <2>3. Rest
    BY <1>2, <1>4, <2>2 DEF OnePending, Afforded
  <2>4. \A r \in Requests : Knows(r)'
    BY <1>6, <2>2
  <2> QED
    BY <1>3, <2>2, <2>3, <2>4
<1>19. CASE UNCHANGED vars
  <2>1. UNCHANGED <<payout, balance, req>>
    BY <1>19 DEF vars
  <2>2. \A r \in Requests : Knows(r)'
    BY <1>2, <2>1 DEF Knows, HasPending
  <2> QED
    BY <1>2, <1>3, <1>5, <2>1, <2>2
<1> QED
  BY <1>17, <1>18, <1>19 DEF Next

LEMMA SerialInvariant == Spec => []SerialInv
<1>1. Init => SerialInv
  <2> SUFFICES ASSUME Init PROVE Serial
    BY RefundInvInit DEF SerialInv
  <2>1. \A r \in Requests : req[r].pc = "idle"
    BY DEF Init, Idle
  <2>2. \A p \in Ids : payout[p].status = "none"
    BY DEF Init
  <2>3. \A u \in Users : balance[u] = 0 /\ Missing(u) = 0
    BY BooksInit DEF Init
  <2>4. \A r \in Requests : Knows(r)
    BY <2>1 DEF Knows
  <2>5. OnePending
    BY <2>2 DEF OnePending
  <2>6. Afforded
    BY <2>2, <2>3 DEF Afforded
  <2>7. \A r, s \in Requests : req[r].pc # "idle" /\ req[s].pc # "idle" => r = s
    BY <2>1
  <2> QED
    BY <2>3, <2>4, <2>5, <2>6, <2>7 DEF Serial
<1>2. SerialInv /\ [Next]_vars => SerialInv'
  BY TypeStep, HistoryStep, ReadsStep, SerialStep DEF SerialInv, RefundInv
<1> QED
  BY <1>1, <1>2, PTL DEF Spec

(* Over any sequence of requests, approvals, refunds and failures that never *)
(* overlapped, nobody is below zero and the books balance to the cookie.     *)
THEOREM SerialBooks == Spec => []BooksBalance
<1>1. SerialInv => BooksBalance
  <2> SUFFICES ASSUME SerialInv, ~overlapped, NEW u \in Users
               PROVE balance[u] >= 0 /\ balance[u] + ApprovedSum(u) = earned[u]
    BY DEF BooksBalance
  <2>1. ApprovedSum(u) \in Int /\ balance[u] \in Int /\ earned[u] \in Int
    BY ApprovedSumType DEF SerialInv, RefundInv, TypeOK
  <2>2. Missing(u) = 0 /\ balance[u] >= 0
    BY DEF SerialInv, Serial, Afforded
  <2> QED
    BY <2>1, <2>2 DEF Missing
<1> QED
  BY <1>1, SerialInvariant, PTL

------------------------------------------------------------------------------
(* Receipts.                                                                 *)

LEMMA DriftStep == RefundInv /\ DriftKnown /\ [Next]_vars => DriftKnown'
<1> SUFFICES ASSUME RefundInv, DriftKnown, [Next]_vars, NEW r \in Requests,
                    req'[r].pc = "approve"
             PROVE  req'[r].bal + drift'[r] = balance'[payout'[req'[r].id].user]
  BY DEF DriftKnown
<1> USE DEF RefundInv, TypeOK
<1>0. /\ \A x \in Requests : req[x] \in Request /\ req[x].id \in Ids /\ req[x].bal \in Int
      /\ \A p \in Ids : payout[p] \in Row /\ payout[p].user \in Users /\ payout[p].amount \in Nat
      /\ \A u \in Users : balance[u] \in Int
      /\ drift[r] \in Int
      /\ Idle \in Request /\ Idle.pc = "idle"
  BY IdleType DEF Request, Row, Idle
<1> DEFINE u == payout[req[r].id].user
           Same == req'[r] = req[r] /\ req[r].pc = "approve" /\ u \in Users
                     /\ req[r].bal + drift[r] = balance[u] /\ req[r].id \in Ids
                     /\ payout[req[r].id].status # "none"
<1>a. ASSUME req'[r] = req[r] PROVE Same
  BY <1>0, <1>a DEF DriftKnown, ReadsForward
<1>b. ASSUME NEW x \in Requests, Answer(x) PROVE Same /\ x # r
  BY <1>0, <1>a, <1>b DEF Answer
<1>c. ASSUME Same, UNCHANGED <<payout, balance>>, drift'[r] = drift[r]
      PROVE req'[r].bal + drift'[r] = balance'[payout'[req'[r].id].user]
  BY <1>c
<1>d. ASSUME Same, NEW v \in Users, NEW k \in Int, Moves(v, k),
             balance' = [balance EXCEPT ![v] = @ + k], payout'[req[r].id].user = u
      PROVE req'[r].bal + drift'[r] = balance'[payout'[req'[r].id].user]
  <2>1. drift'[r] = IF u = v THEN drift[r] + k ELSE drift[r]
    BY <1>d DEF Moves
  <2>2. balance'[u] = IF u = v THEN balance[u] + k ELSE balance[u]
    BY <1>d
  <2> HIDE DEF u
  <2>3. req[r].bal \in Int /\ drift[r] \in Int /\ (u \in Users => balance[u] \in Int)
    BY <1>0
  <2> QED
    BY <1>d, <2>1, <2>2, <2>3
<1>e. ASSUME NEW x \in Requests, NEW q, Begin(x, q), UNCHANGED <<payout, balance>>, x # r
      PROVE req'[r].bal + drift'[r] = balance'[payout'[req'[r].id].user]
  BY <1>a, <1>c, <1>e DEF Begin
<1>1. ASSUME NEW v \in Users, Earn(v)
      PROVE req'[r].bal + drift'[r] = balance'[payout'[req'[r].id].user]
  <2>1. /\ Moves(v, 1) /\ balance' = [balance EXCEPT ![v] = @ + 1]
        /\ UNCHANGED <<payout, req>>
    BY <1>1 DEF Earn
  <2>2. Same /\ payout'[req[r].id].user = u
    BY <2>1, <1>a
  <2>3. 1 \in Int
    OBVIOUS
  <2> HIDE DEF Same, u
  <2> QED
    BY <2>1, <2>2, <2>3, <1>d, Zenon
<1>2. ASSUME NEW x \in Requests, NEW n \in Amounts, PostRead(x, n)
      PROVE req'[r].bal + drift'[r] = balance'[payout'[req'[r].id].user]
  <2>1. x # r
    BY <1>0, <1>2 DEF PostRead, Begin, Request
  <2> QED
    BY <1>2, <1>e, <2>1 DEF PostRead
<1>3. ASSUME NEW x \in Requests, NEW p \in Ids, ApproveRead(x, p)
      PROVE req'[r].bal + drift'[r] = balance'[payout'[req'[r].id].user]
  <2>1. CASE x = r
    <3>1. /\ req'[r].id = p /\ req'[r].bal = balance[payout[p].user] /\ drift'[r] = 0
          /\ UNCHANGED <<payout, balance>>
      BY <1>0, <1>3, <2>1 DEF ApproveRead, Begin, Request
    <3> QED
      BY <1>0, <3>1
  <2>2. CASE x # r
    BY <1>3, <1>e, <2>2 DEF ApproveRead
  <2> QED
    BY <2>1, <2>2
<1>4. ASSUME NEW x \in Requests, NEW p \in Ids, DeleteRead(x, p)
      PROVE req'[r].bal + drift'[r] = balance'[payout'[req'[r].id].user]
  <2>1. x # r
    BY <1>0, <1>4 DEF DeleteRead, Begin, Request
  <2> QED
    BY <1>4, <1>e, <2>1 DEF DeleteRead
<1>5. ASSUME NEW x \in Requests, PostCheck(x) \/ Abort(x)
      PROVE req'[r].bal + drift'[r] = balance'[payout'[req'[r].id].user]
  <2>1. CASE Answer(x)
    <3>1. x # r /\ Same
      BY <1>b, <2>1
    <3> QED
      BY <1>5, <1>c, <3>1 DEF PostCheck, Abort
  <2>2. CASE Goto(x, "create")
    <3>1. req' = [req EXCEPT ![x].pc = "create"]
      BY <2>2 DEF Goto
    <3>2. req'[x].pc = "create"
      BY <3>1, <1>0 DEF Request
    <3>3. x # r
      BY <3>2
    <3>4. req'[r] = req[r]
      BY <3>1, <3>3
    <3>5. PostCheck(x)
      BY <1>5, <2>2, <3>2, <1>0 DEF Abort, Answer
    <3> QED
      BY <3>5, <1>a, <1>c, <3>4 DEF PostCheck
  <2> QED
    BY <1>5, <2>1, <2>2 DEF PostCheck, Abort
<1>6. ASSUME NEW x \in Requests, PostCreate(x)
      PROVE req'[r].bal + drift'[r] = balance'[payout'[req'[r].id].user]
  <2>1. Same
    BY <1>6, <1>b DEF PostCreate
  <2>2. payout'[req[r].id] = payout[req[r].id]
    BY <1>6, <2>1 DEF PostCreate
  <2> QED
    BY <1>6, <2>1, <2>2 DEF PostCreate
<1>7. ASSUME NEW x \in Requests, ApproveCommit(x) \/ RefundCommit(x)
      PROVE req'[r].bal + drift'[r] = balance'[payout'[req'[r].id].user]
  <2>1. Same
    BY <1>7, <1>b DEF ApproveCommit, RefundCommit
  <2> DEFINE p == req[x].id
  <2>2. CASE ~Exists(p)
    BY <1>7, <1>c, <2>1, <2>2 DEF ApproveCommit, RefundCommit
  <2>3. CASE Exists(p)
    <3>0. p \in Ids /\ payout[p].user \in Users /\ payout[p].amount \in Int
          /\ - payout[p].amount \in Int
      <4>1. p \in Ids /\ payout[p].user \in Users /\ payout[p].amount \in Nat
        BY <1>0
      <4> QED
        BY <4>1
    <3>1. payout'[req[r].id].user = u
      <4>1. \A row \in Row, b \in Int : Approved(row, b).user = row.user /\ Deleted(row).user = row.user
        BY DEF Approved, Deleted, Row
      <4>2. payout' = [payout EXCEPT ![p] = Approved(payout[p], req[x].bal)]
            \/ payout' = [payout EXCEPT ![p] = Deleted(payout[p])]
        BY <1>7, <2>3 DEF ApproveCommit, RefundCommit
      <4>3. payout'[p].user = payout[p].user
        BY <1>0, <3>0, <4>1, <4>2
      <4>4. \A q \in Ids \ {p} : payout'[q] = payout[q]
        BY <3>0, <4>2
      <4> QED
        BY <2>1, <4>3, <4>4
    <3>2. CASE ApproveCommit(x)
      <4>1. /\ Moves(payout[p].user, - payout[p].amount)
            /\ balance' = [balance EXCEPT ![payout[p].user] = @ + (- payout[p].amount)]
        BY <1>0, <2>3, <3>2 DEF ApproveCommit
      <4> QED
        BY <1>d, <2>1, <3>0, <3>1, <4>1
    <3>3. CASE RefundCommit(x)
      <4>1. /\ Moves(payout[p].user, payout[p].amount)
            /\ balance' = [balance EXCEPT ![payout[p].user] = @ + payout[p].amount]
        BY <2>3, <3>3 DEF RefundCommit
      <4> QED
        BY <1>d, <2>1, <3>0, <3>1, <4>1
    <3> QED
      BY <1>7, <3>2, <3>3
  <2> QED
    BY <2>2, <2>3
<1>8. ASSUME NEW x \in Requests, DropCommit(x)
      PROVE req'[r].bal + drift'[r] = balance'[payout'[req'[r].id].user]
  <2>1. Same
    BY <1>8, <1>b DEF DropCommit
  <2>2. payout'[req[r].id].user = u
    BY <1>0, <1>8 DEF DropCommit, Deleted, Row
  <2> QED
    BY <1>8, <2>1, <2>2 DEF DropCommit
<1>9. CASE UNCHANGED vars
  BY <1>9, <1>a, <1>c DEF vars
<1> QED
  BY <1>1, <1>2, <1>3, <1>4, <1>5, <1>6, <1>7, <1>8, <1>9 DEF Next, Step

(* Whatever overlaps, the balance an approval writes on the row is off the   *)
(* one it leaves by exactly what others moved of it since it was read.       *)
THEOREM ReceiptsTell == Spec => ReceiptsMatch
<1>1. ASSUME RefundInv, DriftKnown, NEW r \in Requests, ApproveCommit(r), Exists(req[r].id)
      PROVE  payout'[req[r].id].balAfter + drift[r] = balance'[payout[req[r].id].user]
  <2>1. PICK p \in Ids : p = req[r].id
    BY <1>1 DEF RefundInv, TypeOK, Request
  <2>2. req[r].bal + drift[r] = balance[payout[p].user]
    BY <1>1, <2>1 DEF DriftKnown, ApproveCommit
  <2>3. /\ payout[p] \in Row /\ payout[p].user \in Users /\ payout[p].amount \in Nat
        /\ req[r].bal \in Int /\ drift[r] \in Int
    BY <1>1 DEF RefundInv, TypeOK, Request, Row
  <2>4. /\ balance' = [balance EXCEPT ![payout[p].user] = @ - payout[p].amount]
        /\ payout' = [payout EXCEPT ![p] = Approved(payout[p], req[r].bal)]
    BY <1>1, <2>1 DEF ApproveCommit
  <2>5. /\ balance'[payout[p].user] = balance[payout[p].user] - payout[p].amount
        /\ balance[payout[p].user] \in Int
    BY <1>1, <2>3, <2>4 DEF RefundInv, TypeOK
  <2>6. payout'[p].balAfter = req[r].bal - payout[p].amount
    BY <1>1, <2>3, <2>4 DEF RefundInv, TypeOK, Approved, Row
  <2> QED
    BY <2>1, <2>2, <2>3, <2>5, <2>6
<1>2. Init => RefundInv /\ DriftKnown
  BY RefundInvInit DEF Init, Idle, DriftKnown
<1>3. RefundInv /\ DriftKnown /\ [Next]_vars => (RefundInv /\ DriftKnown)'
  BY TypeStep, HistoryStep, ReadsStep, DriftStep DEF RefundInv
<1>4. RefundInv /\ DriftKnown /\ [Next]_vars =>
        [\A r \in Requests : LET p == req[r].id IN
           ApproveCommit(r) /\ Exists(p) =>
             payout'[p].balAfter + drift[r] = balance'[payout[p].user]]_vars
  BY <1>1
<1> QED
  BY <1>2, <1>3, <1>4, PTL DEF Spec, ReceiptsMatch
=============================================================================
