----------------------------- MODULE PayoutPage -----------------------------
(***************************************************************************)
(* The payouts page of an admin (admin/payouts/page.tsx, table.tsx): a table *)
(* as of the last load, a dialog to approve with a proof and a bonus, and a  *)
(* "Refund" at every row.  The handlers of payouts/route.ts are one step     *)
(* here; Payouts has them read by read.                                      *)
(***************************************************************************)
EXTENDS Naturals, FiniteSets

CONSTANTS
  Reqs,       \* payouts
  NoReq,
  MaxOthers,  \* bound: requests, and acts of another admin
  MaxActs     \* bound: clicks that open or send something

ASSUME NoReqAssumption == NoReq \notin Reqs

VARIABLES
  rows,     \* the table payout_reqs
  shown,    \* [Reqs -> status]: the page's copy
  admin,    \* the page: dialogs, fields, flags
  approval, \* approve() in progress
  refunds,  \* [Reqs -> ...]: refund() in progress
  others, acts,
  stirred,  \* history: since the load somebody else acted, an answer was lost,
            \* or a click came while something was on its way
  carried   \* history: a dialog was closed over a chosen file or bonus

payPageVars == <<rows, shown, admin, approval, refunds, others, acts, stirred, carried>>

States == {"none", "pending", "approved", "deleted"}
Maybe == Reqs \cup {NoReq}

(* What was chosen for which payout; `file` and `bonus` survive the dialog.  *)
Fresh == [modal |-> NoReq, view |-> NoReq, file |-> NoReq, bonus |-> NoReq,
          loading |-> FALSE, leaving |-> FALSE]
NoApproval == [pc |-> "idle", id |-> NoReq, file |-> NoReq, bonus |-> NoReq, ok |-> FALSE]
NoRefund == [pc |-> "idle", said |-> "none", ok |-> FALSE]
NoRow == [status |-> "none", proof |-> NoReq, bonus |-> NoReq, back |-> FALSE,
          said |-> "none", fair |-> FALSE]

PayPageTypeOK ==
  /\ \A i \in Reqs : /\ rows[i].status \in States /\ rows[i].proof \in Maybe
                     /\ shown[i] \in States \ {"deleted"}
                     /\ refunds[i].pc \in {"idle", "sent", "unheard", "back"}
  /\ {admin.modal, admin.view, admin.file, admin.bonus, approval.id} \subseteq Maybe
  /\ admin.modal = NoReq \/ admin.view = NoReq
  /\ approval.pc \in {"idle", "presign", "upload", "patch", "unheard", "back"}

PayPageInit ==
  /\ rows = [i \in Reqs |-> NoRow] /\ shown = [i \in Reqs |-> "none"]
  /\ admin = Fresh /\ approval = NoApproval /\ refunds = [i \in Reqs |-> NoRefund]
  /\ others = 0 /\ acts = 0 /\ stirred = FALSE /\ carried = FALSE

Refunding == \E i \in Reqs : refunds[i].pc # "idle"
Underway == approval.pc # "idle" \/ Refunding \/ admin.leaving
Act == acts < MaxActs /\ acts' = acts + 1
Table(i) == IF rows[i].status = "deleted" THEN "none" ELSE rows[i].status

------------------------------------------------------------------------------
(* Elsewhere                                                                 *)

Request(i) ==
  /\ rows[i].status = "none" /\ others < MaxOthers /\ others' = others + 1
  /\ rows' = [rows EXCEPT ![i].status = "pending"]
  /\ UNCHANGED <<shown, admin, approval, refunds, acts, stirred, carried>>

OtherAdmin(i) ==
  /\ rows[i].status \in {"pending", "approved"} /\ others < MaxOthers /\ others' = others + 1
  /\ \/ rows[i].status = "pending" /\ rows' = [rows EXCEPT ![i].status = "approved"]
     \/ rows' = [rows EXCEPT ![i] = [NoRow EXCEPT !.status = "deleted"]]
  /\ stirred' = TRUE
  /\ UNCHANGED <<shown, admin, approval, refunds, acts, carried>>

------------------------------------------------------------------------------
(* The page                                                                  *)

(* The server renders the table.  What was sent may still be handled, but    *)
(* nobody hears the answer.                                                  *)
LoadTable ==
  /\ shown # [i \in Reqs |-> Table(i)] \/ admin # Fresh
  /\ shown' = [i \in Reqs |-> Table(i)]
  /\ admin' = Fresh /\ carried' = FALSE
  /\ approval' = IF approval.pc \in {"patch", "unheard"} THEN [approval EXCEPT !.pc = "unheard"] ELSE NoApproval
  /\ refunds' = [i \in Reqs |-> IF refunds[i].pc \in {"sent", "unheard"}
                                   THEN [refunds[i] EXCEPT !.pc = "unheard"] ELSE NoRefund]
  /\ stirred' = (approval.pc \in {"patch", "unheard"} \/ \E i \in Reqs : refunds[i].pc \in {"sent", "unheard"})
  /\ UNCHANGED <<rows, others, acts>>

Covered == admin.modal # NoReq \/ admin.view # NoReq

OpenModal(i) ==
  /\ shown[i] = "pending" /\ ~Covered /\ Act
  /\ admin' = [admin EXCEPT !.modal = i]
  /\ UNCHANGED <<rows, shown, approval, refunds, others, stirred, carried>>

OpenView(i) ==
  /\ shown[i] = "approved" /\ ~Covered /\ Act
  /\ admin' = [admin EXCEPT !.view = i]
  /\ UNCHANGED <<rows, shown, approval, refunds, others, stirred, carried>>

(* Cancel, or a click beside the dialog, closes it and nothing else.         *)
CloseDialogs ==
  /\ Covered
  /\ admin' = [admin EXCEPT !.modal = NoReq, !.view = NoReq]
  /\ carried' = (carried \/ (admin.modal # NoReq /\ {admin.file, admin.bonus} # {NoReq}))
  /\ UNCHANGED <<rows, shown, approval, refunds, others, acts, stirred>>

Fields ==
  /\ admin.modal # NoReq
  /\ \/ \E f \in {admin.modal, NoReq} : admin' = [admin EXCEPT !.file = f]
     \/ \E b \in {admin.modal, NoReq} : admin' = [admin EXCEPT !.bonus = b]
  /\ UNCHANGED <<rows, shown, approval, refunds, others, acts, stirred, carried>>

(* approve(): the closure keeps dialog, file and bonus of the click.         *)
Approve ==
  /\ admin.modal # NoReq /\ ~admin.loading /\ admin.file # NoReq /\ Act
  /\ approval.pc = "idle"
  /\ admin' = [admin EXCEPT !.loading = TRUE]
  /\ approval' = [NoApproval EXCEPT !.pc = "presign", !.id = admin.modal, !.file = admin.file,
                                    !.bonus = admin.bonus]
  /\ stirred' = (stirred \/ Underway)
  /\ UNCHANGED <<rows, shown, refunds, others, carried>>

(* An error is shown in whatever dialog is open; nothing is loaded again.    *)
Failed == /\ approval' = NoApproval
          /\ admin' = [admin EXCEPT !.loading = FALSE]

Presign ==
  /\ approval.pc = "presign"
  /\ \/ approval' = [approval EXCEPT !.pc = "upload"] /\ UNCHANGED admin
     \/ Failed
  /\ UNCHANGED <<rows, shown, refunds, others, acts, stirred, carried>>

(* The storage's answer is not looked at.                                    *)
SendProof ==
  /\ approval.pc = "upload"
  /\ \/ approval' = [approval EXCEPT !.pc = "patch"] /\ UNCHANGED admin
     \/ Failed
  /\ UNCHANGED <<rows, shown, refunds, others, acts, stirred, carried>>

PatchRow ==
  /\ approval.pc \in {"patch", "unheard"}
  /\ LET ok == rows[approval.id].status = "pending" IN
       /\ rows' = IF ~ok THEN rows
                  ELSE [rows EXCEPT ![approval.id] =
                    [@ EXCEPT !.status = "approved", !.proof = approval.file, !.bonus = approval.bonus,
                              !.fair = ~stirred /\ ~carried]]
       /\ approval' = IF approval.pc = "unheard" THEN NoApproval
                      ELSE [approval EXCEPT !.pc = "back", !.ok = ok]
  /\ UNCHANGED <<shown, admin, refunds, others, acts, stirred, carried>>

(* Fault: the page stays as it was.                                          *)
ApprovedInPlace ==
  /\ approval.pc = "back"
  /\ IF approval.ok
       THEN admin' = [admin EXCEPT !.modal = NoReq, !.file = NoReq, !.bonus = NoReq, !.loading = FALSE]
       ELSE admin' = [admin EXCEPT !.loading = FALSE]
  /\ approval' = NoApproval
  /\ UNCHANGED <<rows, shown, refunds, others, acts, stirred, carried>>

(* Until the new page is there, the old one can be clicked.                  *)
ApprovalBack ==
  /\ approval.pc = "back"
  /\ IF approval.ok
       THEN admin' = [admin EXCEPT !.modal = NoReq, !.file = NoReq, !.bonus = NoReq,
                                   !.loading = FALSE, !.leaving = TRUE]
       ELSE admin' = [admin EXCEPT !.loading = FALSE]
  /\ approval' = NoApproval
  /\ UNCHANGED <<rows, shown, refunds, others, acts, stirred, carried>>

(* The request, or its answer, is lost.                                      *)
AnswerLost ==
  /\ approval.pc \in {"patch", "back"}
  /\ Failed /\ stirred' = TRUE
  /\ UNCHANGED <<rows, shown, refunds, others, acts, carried>>

(* refund(): at a row shown pending, or in the view of a paid one.           *)
Refund(i) ==
  /\ \/ shown[i] = "pending" /\ ~Covered
     \/ admin.view = i
  /\ refunds[i].pc = "idle" /\ Act
  /\ refunds' = [refunds EXCEPT ![i] = [NoRefund EXCEPT !.pc = "sent", !.said = shown[i]]]
  /\ admin' = [admin EXCEPT !.view = NoReq]
  /\ stirred' = (stirred \/ Underway)
  /\ UNCHANGED <<rows, shown, approval, others, carried>>

DeleteRow(i) ==
  /\ refunds[i].pc \in {"sent", "unheard"}
  /\ LET ok == rows[i].status \in {"pending", "approved"} IN
       /\ rows' = IF ~ok THEN rows
                  ELSE [rows EXCEPT ![i] =
                    [NoRow EXCEPT !.status = "deleted", !.back = (rows[i].status = "approved"),
                                  !.said = refunds[i].said, !.fair = ~stirred]]
       /\ refunds' = [refunds EXCEPT ![i] = IF refunds[i].pc = "unheard" THEN NoRefund
                                            ELSE [@ EXCEPT !.pc = "back", !.ok = ok]]
  /\ UNCHANGED <<shown, admin, approval, others, acts, stirred, carried>>

Refunded(i) ==
  /\ refunds[i].pc = "back"
  /\ refunds' = [refunds EXCEPT ![i] = NoRefund]
  /\ admin' = [admin EXCEPT !.leaving = @ \/ refunds[i].ok]
  /\ UNCHANGED <<rows, shown, approval, others, acts, stirred, carried>>

RefundLost(i) ==
  /\ refunds[i].pc \in {"sent", "back"}
  /\ refunds' = [refunds EXCEPT ![i] = NoRefund] /\ stirred' = TRUE
  /\ UNCHANGED <<rows, shown, admin, approval, others, acts, carried>>

PayPageNext ==
  \/ \E i \in Reqs : \/ Request(i) \/ OtherAdmin(i) \/ OpenModal(i) \/ OpenView(i)
                     \/ Refund(i) \/ DeleteRow(i) \/ Refunded(i) \/ RefundLost(i)
  \/ LoadTable \/ CloseDialogs \/ Fields \/ Approve \/ Presign \/ SendProof \/ PatchRow
  \/ ApprovalBack \/ AnswerLost

PayPageSpec == PayPageInit /\ [][PayPageNext]_payPageVars

------------------------------------------------------------------------------
(* Properties                                                                *)

(* Unless somebody else acted since the load, an answer was lost or a click  *)
(* came while something was on its way: "Refund" gives cookies back exactly  *)
(* where the row was shown as paid, and a page at rest shows the table but   *)
(* for new requests.  Unless a dialog was closed over a chosen file too, a   *)
(* payout is approved with the proof chosen for it and never with another's  *)
(* bonus (table.tsx:60-133, page.tsx:13-29).                                 *)
PayoutsAsShown ==
  \A i \in Reqs :
    /\ rows[i].fair /\ rows[i].status = "deleted" => (rows[i].back <=> rows[i].said = "approved")
    /\ rows[i].fair /\ rows[i].status = "approved" => rows[i].proof = i /\ rows[i].bonus \in {i, NoReq}
    /\ ~stirred /\ ~Underway => shown[i] = Table(i) \/ shown[i] = "none"
=============================================================================
