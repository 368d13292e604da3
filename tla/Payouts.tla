------------------------------ MODULE Payouts ------------------------------
(***************************************************************************)
(* Cookie payouts of sw-dash: a reviewer asks for a payout, an admin        *)
(* approves it (the balance goes down) or deletes it (an approved one is    *)
(* paid back).  payouts/route.ts reads first and writes later; only the     *)
(* two writes of an approval, and those of a refund, share a transaction.   *)
(***************************************************************************)
EXTENDS Integers, FiniteSets, Sums

CONSTANTS
  Users,        \* users.id
  Admins,       \* users with payouts_edit
  Requests,     \* slots for HTTP requests
  Owner,        \* Owner[r]: the session user a request runs for
  Ids,          \* payout_reqs.id
  Amounts,      \* amounts users ask for
  Minimum,      \* the smallest payout
  MaxRequests,  \* bound: how many requests may start
  MaxEarned     \* bound: cookies a reviewer may earn

ASSUME OwnerAssumption == Owner \in [Requests -> Users]
ASSUME NonEmptyAssumption == Ids # {} /\ Users # {}
ASSUME FiniteAssumption == IsFiniteSet(Ids)
ASSUME NumbersAssumption ==
  /\ Ids \subseteq Nat /\ Amounts \subseteq Nat
  /\ {Minimum, MaxRequests, MaxEarned} \subseteq Nat

VARIABLES
  payout,   \* [Ids -> Row]: the payout_reqs table
  balance,  \* [Users -> Int]: users.cookieBalance
  earned,   \* [Users -> Nat]: users.cookiesEarned
  debits,   \* [Ids -> Nat]: how often the payout was taken from the balance
  refunds,  \* [Ids -> Nat]: how often it was paid back
  req,      \* [Requests -> Request]
  started,  \* how many requests have started
  overlapped, \* history: TRUE once anything began while a request was in progress
  hasty,      \* history: users two of whose requests found nothing pending before
              \* either of them created its payout
  drift       \* history: [Requests -> Int]: what others have put on and taken off the
              \* balance that an approval read

vars == <<payout, balance, earned, debits, refunds, req, started, overlapped, hasty, drift>>

Row == [status : {"none", "pending", "approved", "deleted"},
        user : Users, amount : Nat, balAfter : Int]

(* What a handler keeps across awaits: the row, the amount asked for, the   *)
(* balance it read.                                                         *)
Request == [pc : {"idle", "checkPending", "create", "approve", "refund", "drop"},
            id : Ids, amount : Nat, bal : Int]

TypeOK ==
  /\ payout \in [Ids -> Row]
  /\ balance \in [Users -> Int]
  /\ earned \in [Users -> Nat]
  /\ debits \in [Ids -> Nat]
  /\ refunds \in [Ids -> Nat]
  /\ req \in [Requests -> Request]
  /\ started \in Nat
  /\ overlapped \in BOOLEAN
  /\ hasty \subseteq Users
  /\ drift \in [Requests -> Int]

Idle == [pc |-> "idle", id |-> CHOOSE p \in Ids : TRUE, amount |-> 0, bal |-> 0]

Init ==
  /\ payout = [p \in Ids |-> [status |-> "none", user |-> CHOOSE u \in Users : TRUE,
                              amount |-> 0, balAfter |-> 0]]
  /\ balance = [u \in Users |-> 0]
  /\ earned = [u \in Users |-> 0]
  /\ debits = [p \in Ids |-> 0]
  /\ refunds = [p \in Ids |-> 0]
  /\ req = [r \in Requests |-> Idle]
  /\ started = 0
  /\ overlapped = FALSE
  /\ hasty = {}
  /\ drift = [r \in Requests |-> 0]

Busy == \E r \in Requests : req[r].pc # "idle"

Begin(r, q) ==
  /\ req[r].pc = "idle"
  /\ started < MaxRequests
  /\ started' = started + 1
  /\ overlapped' = (overlapped \/ Busy)
  /\ req' = [req EXCEPT ![r] = q]
  /\ drift' = [drift EXCEPT ![r] = 0]
  /\ UNCHANGED hasty

Goto(r, pc) == req' = [req EXCEPT ![r].pc = pc]
Answer(r) == req' = [req EXCEPT ![r] = Idle]

(* u's balance goes up by k: approvals under way have read it before.         *)
Moves(u, k) ==
  drift' = [r \in Requests |->
    IF req[r].pc = "approve" /\ payout[req[r].id].user = u THEN drift[r] + k ELSE drift[r]]

(* Fault: a receipt with the old balance.                                    *)
ApprovedOldBalance(row, bal) == [row EXCEPT !.status = "approved", !.balAfter = bal]

Approved(row, bal) ==
  [row EXCEPT !.status = "approved", !.balAfter = bal - row.amount]

Deleted(row) == [row EXCEPT !.status = "deleted"]

(* The row is in the table.                                                 *)
Exists(p) == payout[p].status \in {"pending", "approved"}

------------------------------------------------------------------------------
(* A verdict elsewhere pays a cookie: one update of both columns.            *)
Earn(u) ==
  /\ earned[u] < MaxEarned
  /\ earned' = [earned EXCEPT ![u] = @ + 1]
  /\ balance' = [balance EXCEPT ![u] = @ + 1]
  /\ overlapped' = (overlapped \/ Busy)
  /\ Moves(u, 1)
  /\ UNCHANGED <<payout, debits, refunds, req, started, hasty>>

(* POST: the balance is read first, the pending request looked for second,  *)
(* and the row created third.                                               *)
PostRead(r, n) ==
  /\ n >= Minimum
  /\ balance[Owner[r]] >= n
  /\ Begin(r, [Idle EXCEPT !.pc = "checkPending", !.amount = n])
  /\ UNCHANGED <<payout, balance, earned, debits, refunds>>

HasPending(u) == \E p \in Ids : payout[p].status = "pending" /\ payout[p].user = u

(* Fault: a pending request does not stop the next.                          *)
PostCheckSkipped(r) ==
  /\ req[r].pc = "checkPending"
  /\ Goto(r, "create")
  /\ UNCHANGED <<payout, balance, earned, debits, refunds, started, overlapped, hasty, drift>>

PostCheck(r) ==
  /\ req[r].pc = "checkPending"
  /\ \/ HasPending(Owner[r]) /\ Answer(r) /\ UNCHANGED hasty
     \/ /\ ~HasPending(Owner[r]) /\ Goto(r, "create")
        /\ hasty' = IF \E s \in Requests : Owner[s] = Owner[r] /\ req[s].pc = "create"
                    THEN hasty \cup {Owner[r]} ELSE hasty
  /\ UNCHANGED <<payout, balance, earned, debits, refunds, started, overlapped, drift>>

PostCreate(r) ==
  /\ req[r].pc = "create"
  /\ \E p \in Ids :
       /\ payout[p].status = "none"
       /\ \A q \in Ids : q < p => payout[q].status # "none"
       /\ payout' = [payout EXCEPT ![p] =
            [status |-> "pending", user |-> Owner[r], amount |-> req[r].amount,
             balAfter |-> 0]]
  /\ Answer(r)
  /\ UNCHANGED <<balance, earned, debits, refunds, started, overlapped, hasty, drift>>

(* PATCH: the row and its user's balance are read outside the transaction.  *)
ApproveRead(r, p) ==
  /\ Owner[r] \in Admins
  /\ payout[p].status = "pending"
  /\ Begin(r, [Idle EXCEPT !.pc = "approve", !.id = p,
                           !.bal = balance[payout[p].user]])
  /\ UNCHANGED <<payout, balance, earned, debits, refunds>>

(* The transaction looks at no status; it fails, and takes nothing, only    *)
(* when the row is gone.                                                    *)
ApproveCommit(r) ==
  /\ req[r].pc = "approve"
  /\ LET p == req[r].id
         row == payout[p] IN
       \/ /\ Exists(p)
          /\ balance' = [balance EXCEPT ![row.user] = @ - row.amount]
          /\ payout' = [payout EXCEPT ![p] = Approved(row, req[r].bal)]
          /\ debits' = [debits EXCEPT ![p] = @ + 1]
          /\ Moves(row.user, - row.amount)
       \/ /\ ~Exists(p)
          /\ UNCHANGED <<balance, payout, debits, drift>>
  /\ Answer(r)
  /\ UNCHANGED <<earned, refunds, started, overlapped, hasty>>

(* Faults: every delete pays back; no delete does.                           *)
DeleteReadRefunds(r, p) ==
  /\ Owner[r] \in Admins
  /\ Exists(p)
  /\ Begin(r, [Idle EXCEPT !.id = p, !.pc = "refund"])
  /\ UNCHANGED <<payout, balance, earned, debits, refunds>>

DeleteReadDrops(r, p) ==
  /\ Owner[r] \in Admins
  /\ Exists(p)
  /\ Begin(r, [Idle EXCEPT !.id = p, !.pc = "drop"])
  /\ UNCHANGED <<payout, balance, earned, debits, refunds>>

(* DELETE: the status that is read decides between a refund and a plain     *)
(* delete.                                                                  *)
DeleteRead(r, p) ==
  /\ Owner[r] \in Admins
  /\ Exists(p)
  /\ Begin(r, [Idle EXCEPT !.id = p,
       !.pc = IF payout[p].status = "approved" THEN "refund" ELSE "drop"])
  /\ UNCHANGED <<payout, balance, earned, debits, refunds>>

(* Fault: the two writes of a refund share no transaction.                   *)
RefundCommitSplit(r) ==
  /\ req[r].pc = "refund"
  /\ LET p == req[r].id IN
       /\ balance' = [balance EXCEPT ![payout[p].user] = @ + payout[p].amount]
       /\ payout' = [payout EXCEPT ![p] = Deleted(payout[p])]
       /\ refunds' = [refunds EXCEPT ![p] = @ + 1]
       /\ Moves(payout[p].user, payout[p].amount)
  /\ Answer(r)
  /\ UNCHANGED <<earned, debits, started, overlapped, hasty>>

RefundCommit(r) ==
  /\ req[r].pc = "refund"
  /\ LET p == req[r].id
         row == payout[p] IN
       \/ /\ Exists(p)
          /\ balance' = [balance EXCEPT ![row.user] = @ + row.amount]
          /\ payout' = [payout EXCEPT ![p] = Deleted(row)]
          /\ refunds' = [refunds EXCEPT ![p] = @ + 1]
          /\ Moves(row.user, row.amount)
       \/ /\ ~Exists(p)
          /\ UNCHANGED <<balance, payout, refunds, drift>>
  /\ Answer(r)
  /\ UNCHANGED <<earned, debits, started, overlapped, hasty>>

DropCommit(r) ==
  /\ req[r].pc = "drop"
  /\ payout' = IF Exists(req[r].id)
               THEN [payout EXCEPT ![req[r].id] = Deleted(@)]
               ELSE payout
  /\ Answer(r)
  /\ UNCHANGED <<balance, earned, debits, refunds, started, overlapped, hasty, drift>>

(* A database error or a crash ends the request where it stands.            *)
Abort(r) ==
  /\ req[r].pc # "idle"
  /\ Answer(r)
  /\ UNCHANGED <<payout, balance, earned, debits, refunds, started, overlapped, hasty, drift>>

Step(r) ==
  \/ \E n \in Amounts : PostRead(r, n)
  \/ \E p \in Ids : ApproveRead(r, p) \/ DeleteRead(r, p)
  \/ PostCheck(r)
  \/ PostCreate(r)
  \/ ApproveCommit(r)
  \/ RefundCommit(r)
  \/ DropCommit(r)
  \/ Abort(r)

Next ==
  \/ \E r \in Requests : Step(r)
  \/ \E u \in Users : Earn(u)

Spec == Init /\ [][Next]_vars

------------------------------------------------------------------------------
(* Properties                                                                *)

PaidOut(u, p) ==
  IF payout[p].status = "approved" /\ payout[p].user = u THEN payout[p].amount ELSE 0

ApprovedSum(u) == Total([p \in Ids |-> PaidOut(u, p)], Ids)

(* What a reviewer can spend and what he was paid out never exceed together *)
(* what he earned, whatever approvals, deletions and refunds race.          *)
PaidFromEarnings ==
  \A u \in Users : balance[u] + ApprovedSum(u) <= earned[u]

(* A payout is given back at most once, and only after it was taken         *)
(* (route.ts:165-171 trusts a status read earlier).                         *)
RefundsCovered ==
  \A p \in Ids : refunds[p] <= 1 /\ refunds[p] <= debits[p]

(* A reviewer has at most one pending payout (route.ts:49-53), however his   *)
(* requests interleave with each other and with those of the admins, until   *)
(* two of his own have both looked before either created.                     *)
OnePendingPerUser ==
  \A p, q \in Ids :
    /\ payout[p].status = "pending"
    /\ payout[q].status = "pending"
    /\ payout[p].user = payout[q].user
    /\ payout[p].user \notin hasty
    => p = q

(* An approval takes the cookies once ("already done", route.ts:78-79).      *)
DebitedOnce == \A p \in Ids : debits[p] <= 1

(* As long as no two requests overlapped, over any sequence of requests,     *)
(* approvals, refunds and failures, nobody spends cookies he does not have   *)
(* ("not enough cookies lmao", route.ts:45-47), and the books balance to the *)
(* cookie: what is missing from a balance is what the approved rows show.    *)
BooksBalance ==
  ~overlapped => \A u \in Users :
    balance[u] >= 0 /\ balance[u] + ApprovedSum(u) = earned[u]

(* Whatever overlaps, the balance that an approval writes on the row          *)
(* (route.ts:72-75, 96) is off the balance it leaves by exactly what verdicts *)
(* and the commits of other admins, a second approval of the same payout      *)
(* included, moved of it after the approval had read it.                      *)
ReceiptsMatch ==
  [][\A r \in Requests : LET p == req[r].id IN
       ApproveCommit(r) /\ Exists(p) =>
         payout'[p].balAfter + drift[r] = balance'[payout[p].user]]_vars
=============================================================================
