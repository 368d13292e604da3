----------------------------- MODULE DeskProofs -----------------------------
(***************************************************************************)
(* Proofs about the certification desk, for any reviewers, ships, request   *)
(* slots, timeout and bounds; and about the desk with the reviews it feeds,  *)
(* for any callbacks and PATCH slots.                                        *)
(***************************************************************************)
EXTENDS YswsPipeline, SumsProofs, FiniteSetTheorems, TLAPS

------------------------------------------------------------------------------
(* The desk                                                                  *)

(* Between the scan and the write of a claim, the claimant holds no other   *)
(* ship, unless his handler has missed another claim of his.                 *)
ScanHolds ==
  \A r \in Requests :
    req[r].pc \in {"claimRead", "claimWrite"} /\ "own" \notin missed[r] =>
      \A d \in Certs \ {req[r].cert} : ~Holds(Owner[r], d)

ClaimInv == TypeOK /\ OneClaimPerUser /\ ScanHolds

USE RolesAssumption, OwnerAssumption, NoUserAssumption, CertsAssumption,
    SentAssumption, PaysAssumption, TimeAssumption, FiniteAssumption

------------------------------------------------------------------------------
LEMMA IdleType == \A r \in Requests : Idle(r) \in Request
<1>1. (CHOOSE c \in Certs : TRUE) \in Certs
  OBVIOUS
<1> QED
  BY <1>1 DEF Idle, Request, Steps, Verdicts, Status

(* Every variable keeps its type.                                            *)
LEMMA TypeInit == Init => TypeOK
<1> SUFFICES ASSUME Init PROVE TypeOK
  OBVIOUS
<1>1. NewRow \in Row
  BY DEF NewRow, Row, Status
<1>2. req \in [Requests -> Request] /\ \A r \in Requests : req[r].pc = "idle"
  BY IdleType DEF Init, Idle
<1> QED
  BY <1>1, <1>2 DEF Init, TypeOK

(* What the handlers write to a row is a row.                                *)
LEMMA ClaimedType ==
  ASSUME NEW row \in Row, NEW u \in Users \cup {NoUser}, NEW t \in Nat
  PROVE  Claimed(row, u, t) \in Row
BY DEF Claimed, Row

LEMMA DecidedType ==
  ASSUME NEW row \in Row, NEW q \in Request
  PROVE  Decided(row, q) \in Row
<1>0. /\ q.payee \in Users /\ q.at \in Nat /\ q.pay \in Nat
      /\ q.verdict \in Verdicts /\ q.stamp \in BOOLEAN
  BY DEF Request
<1>1. CASE q.verdict = "keep"
  BY <1>0, <1>1 DEF Decided, Row
<1>2. CASE q.verdict # "keep"
  <2>1. q.verdict \in Status
    BY <1>0, <1>2 DEF Verdicts
  <2>2. (IF q.stamp THEN q.at ELSE row.startedAt) \in Nat
    BY <1>0 DEF Row
  <2>3. (IF IsDecision(q.verdict) THEN q.pay ELSE row.earned) \in Nat
    BY <1>0 DEF Row
  <2> QED
    BY <1>0, <1>2, <2>1, <2>2, <2>3 DEF Decided, Row
<1> QED
  BY <1>1, <1>2

(* What the handlers may have missed keeps its type.                         *)
LEMMA HistoryType ==
  ASSUME TypeOK, [Next]_vars
  PROVE  missed' \in [Requests -> SUBSET Missable] /\ doubled' \subseteq Users
<1> USE DEF TypeOK, Missable
<1>1. ASSUME NEW r \in Requests, Forgets(r)
      PROVE missed' \in [Requests -> SUBSET Missable] /\ doubled' \subseteq Users
  BY <1>1 DEF Forgets
<1>2. ASSUME NEW r \in Requests, ClaimRead(r)
      PROVE missed' \in [Requests -> SUBSET Missable] /\ doubled' \subseteq Users
  BY <1>1, <1>2 DEF ClaimRead
<1>3. ASSUME NEW r \in Requests, ClaimWrite(r)
      PROVE missed' \in [Requests -> SUBSET Missable] /\ doubled' \subseteq Users
  BY <1>3 DEF ClaimWrite, ClaimsFor
<1>4. ASSUME NEW r \in Requests, VerdictWrite(r)
      PROVE missed' \in [Requests -> SUBSET Missable] /\ doubled' \subseteq Users
  BY <1>4 DEF VerdictWrite, Writes
<1>5. CASE UNCHANGED <<missed, doubled>>
  BY <1>5
<1> QED
  BY <1>1, <1>2, <1>3, <1>4, <1>5
  DEF Next, Arrive, Continue, GoesOn, Ends, ClaimScan, ReleaseRead, ReleaseWrite,
      VerdictRead, Credit, SyncAccepted, SyncFailed, Mark, Abort, Tick, vars

LEMMA TypeStep == TypeOK /\ [Next]_vars => TypeOK'
<1> SUFFICES ASSUME TypeOK, [Next]_vars PROVE TypeOK'
  OBVIOUS
<1> USE DEF TypeOK
<1>0. \A r \in Requests : req[r] \in Request
  OBVIOUS
<1>m. missed' \in [Requests -> SUBSET Missable] /\ doubled' \subseteq Users
  BY HistoryType
<1> DEFINE Talks(q) == q.pc \in {"credit", "sync", "mark"}
           ReqOK == /\ req' \in [Requests -> Request]
                    /\ \A r \in Requests : Talks(req'[r]) => req'[r].verdict # "keep"
<1>a. ASSUME NEW r \in Requests, Answer(r) PROVE ReqOK
  BY <1>a, IdleType DEF Answer, Idle
<1>b. ASSUME NEW r \in Requests, NEW pc \in Steps, Goto(r, pc),
             pc \in {"credit", "sync", "mark"} => req[r].verdict # "keep"
      PROVE ReqOK
  BY <1>b DEF Goto, Request
<1>c. ASSUME NEW r \in Requests, NEW q \in Request, Begin(r, q), ~Talks(q)
      PROVE ReqOK /\ started' \in Nat
  BY <1>c DEF Begin
<1>1. ASSUME NEW r \in Requests, NEW c \in Certs, ClaimScan(r, c) PROVE TypeOK'
  <2> DEFINE q == [Idle(r) EXCEPT !.pc = "claimRead", !.cert = c, !.at = now]
  <2>1. q \in Request /\ ~Talks(q)
    BY IdleType DEF Request, Steps
  <2>2. Begin(r, q)
    BY <1>1 DEF ClaimScan
  <2> HIDE DEF q
  <2> QED
    BY <1>m, <1>1, <1>c, <2>1, <2>2 DEF ClaimScan
<1>2. ASSUME NEW r \in Requests, ClaimRead(r) PROVE TypeOK'
  <2>1. ReqOK
    BY <1>2, <1>a, <1>b DEF ClaimRead, Steps
  <2> QED
    BY <1>m, <1>2, <2>1 DEF ClaimRead
<1>3. ASSUME NEW r \in Requests, ClaimWrite(r) PROVE TypeOK'
  <2>1. cert' \in [Certs -> Row]
    BY <1>3, <1>0, ClaimedType DEF ClaimWrite, Request
  <2> QED
    BY <1>m, <1>3, <1>a, <2>1 DEF ClaimWrite
<1>4. ASSUME NEW r \in Requests, NEW c \in Certs, ReleaseRead(r, c) PROVE TypeOK'
  <2> DEFINE q == [Idle(r) EXCEPT !.pc = "releaseWrite", !.cert = c]
  <2>1. q \in Request /\ ~Talks(q)
    BY IdleType DEF Request, Steps
  <2>2. Begin(r, q)
    BY <1>4 DEF ReleaseRead
  <2> HIDE DEF q
  <2> QED
    BY <1>m, <1>4, <1>c, <2>1, <2>2 DEF ReleaseRead
<1>5. ASSUME NEW r \in Requests, ReleaseWrite(r) PROVE TypeOK'
  <2>1. cert' \in [Certs -> Row]
    BY <1>5, <1>0, ClaimedType DEF ReleaseWrite, Request
  <2> QED
    BY <1>m, <1>5, <1>a, <2>1 DEF ReleaseWrite
<1>6. ASSUME NEW r \in Requests, NEW c \in Certs, NEW v \in Sent, NEW p \in Users,
             VerdictRead(r, c, v, p)
      PROVE TypeOK'
  <2> DEFINE q(n) == [pc |-> "decide", cert |-> c, at |-> now, verdict |-> v,
                      payee |-> p, pay |-> n, stamp |-> cert[c].startedAt = 0]
  <2>1. PICK n \in IF IsDecision(v) THEN Pays ELSE {0} : Begin(r, q(n))
    BY <1>6 DEF VerdictRead
  <2>2. n \in Nat
    BY <2>1
  <2>3. q(n) \in Request /\ ~Talks(q(n))
    BY <2>2 DEF Request, Steps, Verdicts, Status
  <2> HIDE DEF q
  <2> QED
    BY <1>m, <1>6, <1>c, <2>1, <2>3 DEF VerdictRead
<1>7. ASSUME NEW r \in Requests, VerdictWrite(r) PROVE TypeOK'
  <2>1. Decided(cert[req[r].cert], req[r]) \in Row
    BY <1>0, DecidedType DEF Request
  <2>2. cert' \in [Certs -> Row]
    BY <1>7, <1>0, <2>1 DEF VerdictWrite, Request
  <2>3. ReqOK
    BY <1>7, <1>a, <1>b DEF VerdictWrite, Steps, IsDecision
  <2> QED
    BY <1>m, <1>7, <2>2, <2>3 DEF VerdictWrite
<1>8. ASSUME NEW r \in Requests, Credit(r) PROVE TypeOK'
  <2>1. lifetime' \in [Users -> Nat]
    BY <1>8, <1>0 DEF Credit, Request
  <2> QED
    BY <1>m, <1>8, <1>b, <2>1 DEF Credit, Steps
<1>9. ASSUME NEW r \in Requests, SyncAccepted(r) PROVE TypeOK'
  <2>1. ft' \in [Certs -> Status \cup {"never"}]
    BY <1>9, <1>0 DEF SyncAccepted, Request, Verdicts
  <2> QED
    BY <1>m, <1>9, <1>b, <2>1 DEF SyncAccepted, Steps
<1>10. ASSUME NEW r \in Requests, SyncFailed(r) PROVE TypeOK'
  <2>1. ft' \in [Certs -> Status \cup {"never"}]
    BY <1>10, <1>0 DEF SyncFailed, Request, Verdicts
  <2> QED
    BY <1>m, <1>10, <1>a, <2>1 DEF SyncFailed
<1>11. ASSUME NEW r \in Requests, Mark(r) PROVE TypeOK'
  <2>0. \A row \in Row : [row EXCEPT !.synced = TRUE] \in Row
    BY DEF Row
  <2>1. cert' \in [Certs -> Row]
    BY <1>11, <1>0, <2>0 DEF Mark, Request
  <2> QED
    BY <1>m, <1>11, <1>a, <2>1 DEF Mark
<1>12. ASSUME NEW r \in Requests, Abort(r) PROVE TypeOK'
  <2>1. lost' \in Nat
    BY <1>12, <1>0 DEF Abort, Request
  <2> QED
    BY <1>m, <1>12, <1>a, <2>1 DEF Abort
<1>13. CASE Tick
  BY <1>m, <1>13 DEF Tick
<1>14. CASE UNCHANGED vars
  BY <1>m, <1>14 DEF vars
<1> QED
  BY <1>1, <1>2, <1>3, <1>4, <1>5, <1>6, <1>7, <1>8, <1>9, <1>10, <1>11, <1>12,
     <1>13, <1>14 DEF Next, Arrive, Continue, GoesOn, Ends

(* Every column, clock and request of the desk keeps its type, whatever the *)
(* handlers interleave.                                                     *)
THEOREM DeskTypes == Spec => []TypeOK
BY TypeInit, TypeStep, PTL DEF Spec

------------------------------------------------------------------------------
(* Claims.  Only ClaimWrite gives anybody a live claim.                      *)
LEMMA NoNewHolds ==
  ASSUME TypeOK, [Next]_vars, \A r \in Requests : ~ClaimWrite(r),
         NEW u \in Users, NEW c \in Certs, Holds(u, c)'
  PROVE  Holds(u, c)
<1> USE DEF Holds, Fresh
<1>0. cert[c] \in Row /\ \A r \in Requests : req[r] \in Request
  BY DEF TypeOK
<1>1. CASE UNCHANGED <<cert, now>>
  BY <1>1
<1>2. ASSUME NEW r \in Requests, ReleaseWrite(r) PROVE Holds(u, c)
  BY <1>0, <1>2 DEF ReleaseWrite, Claimed, TypeOK, Request, Row
<1>3. ASSUME NEW r \in Requests, VerdictWrite(r) PROVE Holds(u, c)
  <2>1. CASE req[r].cert # c
    BY <1>3, <2>1 DEF VerdictWrite, TypeOK
  <2>2. CASE req[r].cert = c
    <3>1. cert'[c] = Decided(cert[c], req[r]) /\ now' = now
      BY <1>3, <2>2 DEF VerdictWrite, TypeOK
    <3>2. req[r].verdict = "keep"
      BY <1>0, <3>1 DEF Decided, Row
    <3>3. /\ cert'[c].status = cert[c].status
          /\ cert'[c].claimer = cert[c].claimer
          /\ cert'[c].startedAt = cert[c].startedAt
      BY <1>0, <3>1, <3>2 DEF Decided, Row
    <3> QED
      BY <3>1, <3>3
  <2> QED
    BY <2>1, <2>2
<1>4. ASSUME NEW r \in Requests, Mark(r) PROVE Holds(u, c)
  <2>1. /\ cert'[c].status = cert[c].status
        /\ cert'[c].claimer = cert[c].claimer
        /\ cert'[c].startedAt = cert[c].startedAt
    BY <1>0, <1>4 DEF Mark, TypeOK, Row
  <2> QED
    BY <1>4, <2>1 DEF Mark
<1>5. CASE Tick
  BY <1>0, <1>5 DEF Tick, TypeOK, Row
<1> QED
  BY <1>1, <1>2, <1>3, <1>4, <1>5
  DEF Next, Arrive, Continue, GoesOn, Ends, ClaimScan, ClaimRead, ReleaseRead, VerdictRead,
      Credit, SyncAccepted, SyncFailed, Abort, vars

(* ClaimWrite gives the claimant the ship of his request and nothing else.   *)
LEMMA OneNewHold ==
  ASSUME TypeOK, NEW r \in Requests, ClaimWrite(r),
         NEW u \in Users, NEW c \in Certs, Holds(u, c)'
  PROVE  Holds(u, c) \/ (u = Owner[r] /\ c = req[r].cert)
<1>1. cert[c] \in Row /\ req[r] \in Request
  BY DEF TypeOK
<1>2. CASE c # req[r].cert
  BY <1>2 DEF ClaimWrite, Holds, Fresh, TypeOK
<1>3. CASE c = req[r].cert
  BY <1>1, <1>3 DEF ClaimWrite, Claimed, Holds, TypeOK, Row
<1> QED
  BY <1>2, <1>3

(* A step of one handler leaves the other requests alone.                    *)
LEMMA OneRequest ==
  ASSUME TypeOK, NEW r \in Requests, GoesOn(r) \/ Ends(r) \/ Abort(r) \/ Arrive(r),
         NEW x \in Requests \ {r}
  PROVE  req'[x] = req[x]
BY DEF TypeOK, GoesOn, Ends, Abort, Arrive, ClaimRead, ClaimWrite, ReleaseWrite,
       VerdictWrite, Credit, SyncAccepted, SyncFailed, Mark, ClaimScan, ReleaseRead,
       VerdictRead, Begin, Goto, Answer

(* ... and none of them learns what it has missed.                           *)
LEMMA MissedStays ==
  ASSUME TypeOK, NEW r \in Requests, GoesOn(r) \/ Ends(r) \/ Abort(r) \/ Arrive(r),
         NEW x \in Requests \ {r}
  PROVE  missed[x] \subseteq missed'[x] /\ UNCHANGED now
<1> USE DEF TypeOK
<1>1. ASSUME Forgets(r) PROVE missed[x] \subseteq missed'[x]
  BY <1>1 DEF Forgets
<1>2. ASSUME ClaimRead(r) PROVE missed[x] \subseteq missed'[x]
  BY <1>1, <1>2 DEF ClaimRead
<1>3. ASSUME ClaimWrite(r) PROVE missed[x] \subseteq missed'[x]
  BY <1>3 DEF ClaimWrite, ClaimsFor
<1>4. ASSUME VerdictWrite(r) PROVE missed[x] \subseteq missed'[x]
  BY <1>4 DEF VerdictWrite, Writes
<1>5. ASSUME UNCHANGED missed PROVE missed[x] \subseteq missed'[x]
  BY <1>5
<1>6. missed[x] \subseteq missed'[x]
  BY <1>1, <1>2, <1>3, <1>4, <1>5
  DEF Arrive, GoesOn, Ends, ClaimScan, ReleaseRead, ReleaseWrite, VerdictRead, Credit,
      SyncAccepted, SyncFailed, Mark, Abort
<1>7. UNCHANGED now
  BY DEF Arrive, GoesOn, Ends, ClaimScan, ReleaseRead, ReleaseWrite, VerdictRead, Credit,
         SyncAccepted, SyncFailed, Mark, Abort, ClaimRead, ClaimWrite, VerdictWrite
<1> QED
  BY <1>6, <1>7

(* A request that is past its scan after a step was past it before, or has  *)
(* just made it.                                                             *)
LEMMA ScanOrigin ==
  ASSUME TypeOK, [Next]_vars, NEW r \in Requests,
         req'[r].pc \in {"claimRead", "claimWrite"}
  PROVE  \/ /\ req[r].pc \in {"claimRead", "claimWrite"}
            /\ req'[r].cert = req[r].cert
         \/ \E c \in Certs : ClaimScan(r, c) /\ req'[r].cert = c
<1> DEFINE Past(q) == q.pc \in {"claimRead", "claimWrite"}
           Kept == Past(req[r]) /\ req'[r].cert = req[r].cert
<1>0. \A x \in Requests : req[x] \in Request /\ Idle(x) \in Request
  BY IdleType DEF TypeOK
<1>a. ASSUME NEW x \in Requests, Answer(x) PROVE Kept
  BY <1>a, <1>0 DEF Answer, Idle, TypeOK
<1>b. ASSUME NEW x \in Requests, NEW pc, Goto(x, pc),
             ~(pc \in {"claimRead", "claimWrite"})
      PROVE Kept
  BY <1>b, <1>0 DEF Goto, TypeOK, Request
<1>c. ASSUME NEW x \in Requests, NEW q, Begin(x, q), ~Past(q) PROVE Kept
  BY <1>c, <1>0 DEF Begin, TypeOK
<1>1. ASSUME NEW x \in Requests, NEW c \in Certs, ClaimScan(x, c), x # r PROVE Kept
  BY <1>1, <1>0 DEF ClaimScan, Begin, TypeOK
<1>2. ASSUME NEW c \in Certs, ClaimScan(r, c) PROVE req'[r].cert = c
  BY <1>2, <1>0 DEF ClaimScan, Begin, TypeOK, Idle, Request
<1>3. ASSUME NEW x \in Requests, ClaimRead(x) PROVE Kept
  BY <1>3, <1>a, <1>0 DEF ClaimRead, Goto, TypeOK, Request
<1>4. ASSUME NEW x \in Requests, NEW c \in Certs, ReleaseRead(x, c) PROVE Kept
  <2> DEFINE q == [Idle(x) EXCEPT !.pc = "releaseWrite", !.cert = c]
  <2>1. Begin(x, q) /\ ~Past(q)
    BY <1>4, <1>0 DEF ReleaseRead, Request
  <2> HIDE DEF q
  <2> QED
    BY <1>c, <2>1
<1>5. ASSUME NEW x \in Requests, NEW c \in Certs, NEW v \in Sent, NEW p \in Users,
             VerdictRead(x, c, v, p)
      PROVE Kept
  <2> DEFINE q(n) == [pc |-> "decide", cert |-> c, at |-> now, verdict |-> v,
                      payee |-> p, pay |-> n, stamp |-> cert[c].startedAt = 0]
  <2>1. PICK n \in IF IsDecision(v) THEN Pays ELSE {0} : Begin(x, q(n))
    BY <1>5 DEF VerdictRead
  <2>2. ~Past(q(n))
    OBVIOUS
  <2> HIDE DEF q
  <2> QED
    BY <1>c, <2>1, <2>2
<1>6. ASSUME NEW x \in Requests,
             \/ ClaimWrite(x) \/ ReleaseWrite(x) \/ VerdictWrite(x) \/ Credit(x)
             \/ SyncAccepted(x) \/ SyncFailed(x) \/ Mark(x) \/ Abort(x)
      PROVE Kept
  BY <1>6, <1>a, <1>b
  DEF ClaimWrite, ReleaseWrite, VerdictWrite, Credit, SyncAccepted, SyncFailed,
      Mark, Abort
<1>7. CASE UNCHANGED req
  BY <1>7
<1> QED
  BY <1>1, <1>2, <1>3, <1>4, <1>5, <1>6, <1>7 DEF Next, Arrive, Continue, GoesOn, Ends, Tick, vars

(* A claim that has missed another of its user does not forget it on the way *)
(* to its write.                                                             *)
LEMMA OwnKept ==
  ASSUME TypeOK, [Next]_vars, NEW q \in Requests,
         req[q].pc \in {"claimRead", "claimWrite"},
         req'[q].pc \in {"claimRead", "claimWrite"}, "own" \in missed[q]
  PROVE  "own" \in missed'[q]
<1>0. req[q] \in Request /\ req \in [Requests -> Request] /\ Idle(q).pc = "idle"
      /\ missed \in [Requests -> SUBSET Missable]
  BY DEF TypeOK, Idle
<1>1. ASSUME NEW r \in Requests \ {q}, Arrive(r) \/ GoesOn(r) \/ Ends(r) \/ Abort(r)
      PROVE "own" \in missed'[q]
  BY <1>1, MissedStays
<1>2. CASE ClaimRead(q)
  <2>1. ~Answer(q)
    BY <1>0 DEF Answer
  <2> QED
    BY <1>0, <1>2, <2>1 DEF ClaimRead
<1>3. CASE Arrive(q)
  BY <1>3 DEF Arrive, ClaimScan, ReleaseRead, VerdictRead, Begin
<1>4. CASE ClaimWrite(q) \/ ReleaseWrite(q) \/ VerdictWrite(q) \/ Credit(q)
           \/ SyncAccepted(q) \/ Ends(q) \/ Abort(q)
  BY <1>0, <1>4 DEF ClaimWrite, ReleaseWrite, VerdictWrite, Credit, SyncAccepted, Ends,
                    SyncFailed, Mark, Abort, Answer
<1>5. CASE UNCHANGED <<missed, doubled>>
  BY <1>5
<1> QED
  BY <1>1, <1>2, <1>3, <1>4, <1>5 DEF Next, Continue, GoesOn, Tick, vars

LEMMA ClaimInvInit == Init => ClaimInv
<1> SUFFICES ASSUME Init PROVE ClaimInv
  OBVIOUS
<1>1. \A c \in Certs : cert[c].claimer = NoUser
  BY DEF Init, NewRow
<1>2. \A r \in Requests : req[r].pc = "idle"
  BY DEF Init, Idle
<1> QED
  BY <1>1, <1>2, TypeInit DEF ClaimInv, OneClaimPerUser, ScanHolds, Holds

LEMMA ClaimInvStep == ClaimInv /\ [Next]_vars => ClaimInv'
<1> SUFFICES ASSUME ClaimInv, [Next]_vars PROVE ClaimInv'
  OBVIOUS
<1> USE DEF ClaimInv
<1>1. TypeOK'
  BY TypeStep
<1>2. OneClaimPerUser'
  <2> SUFFICES ASSUME NEW u \in Users \ doubled', NEW c \in Certs, NEW d \in Certs,
                      Holds(u, c)', Holds(u, d)'
               PROVE c = d
    BY DEF OneClaimPerUser
  <2>0. u \notin doubled
    BY DEF Next, Arrive, Continue, GoesOn, Ends, ClaimScan, ClaimRead, ClaimWrite,
           ReleaseRead, ReleaseWrite, VerdictRead, VerdictWrite, Credit, SyncAccepted,
           SyncFailed, Mark, Abort, Tick, Forgets, vars
  <2>1. CASE \A r \in Requests : ~ClaimWrite(r)
    BY <2>0, <2>1, NoNewHolds DEF OneClaimPerUser
  <2>2. ASSUME NEW r \in Requests, ClaimWrite(r) PROVE c = d
    <3>1. u = Owner[r] => \A e \in Certs \ {req[r].cert} : ~Holds(u, e)
      BY <2>2 DEF ScanHolds, ClaimWrite
    <3>2. Holds(u, c) \/ (u = Owner[r] /\ c = req[r].cert)
      BY <2>2, OneNewHold
    <3>3. Holds(u, d) \/ (u = Owner[r] /\ d = req[r].cert)
      BY <2>2, OneNewHold
    <3> QED
      BY <2>0, <3>1, <3>2, <3>3 DEF OneClaimPerUser
  <2> QED
    BY <2>1, <2>2
<1>3. ScanHolds'
  <2> SUFFICES ASSUME NEW q \in Requests, "own" \notin missed'[q],
                      req'[q].pc \in {"claimRead", "claimWrite"},
                      NEW d \in Certs \ {req'[q].cert}, Holds(Owner[q], d)'
               PROVE FALSE
    BY DEF ScanHolds
  <2>0. req[q].pc \in {"claimRead", "claimWrite"} => "own" \notin missed[q]
    BY OwnKept
  <2>1. CASE \A r \in Requests : ~ClaimWrite(r)
    <3>1. Holds(Owner[q], d)
      BY <2>1, NoNewHolds DEF TypeOK
    <3>2. CASE req[q].pc \in {"claimRead", "claimWrite"} /\ req'[q].cert = req[q].cert
      BY <2>0, <3>1, <3>2 DEF ScanHolds
    <3>3. ASSUME NEW c \in Certs, ClaimScan(q, c), req'[q].cert = c PROVE FALSE
      BY <3>1, <3>3 DEF ClaimScan
    <3> QED
      BY <3>2, <3>3, ScanOrigin
  <2>2. ASSUME NEW r \in Requests, ClaimWrite(r) PROVE FALSE
    <3>1. q # r
      BY <2>2 DEF ClaimWrite, Answer, Idle, TypeOK
    <3>2. req'[q] = req[q]
      BY <2>2, <3>1 DEF ClaimWrite, Answer, TypeOK
    <3>3. Owner[q] # Owner[r]
      BY <2>2, <3>1, <3>2 DEF ClaimWrite, ClaimsFor
    <3>4. Holds(Owner[q], d)
      BY <2>2, <3>3, OneNewHold
    <3> QED
      BY <2>0, <3>2, <3>4 DEF ScanHolds
  <2> QED
    BY <2>1, <2>2
<1> QED
  BY <1>1, <1>2, <1>3

(* However many requests interleave, two tabs of one reviewer included, and   *)
(* wherever they fail, nobody holds two live claims before a claim of his is  *)
(* written that missed another one (claim/route.ts:77-146).                   *)
THEOREM SingleClaim == Spec => []OneClaimPerUser
<1>1. ClaimInv => OneClaimPerUser
  BY DEF ClaimInv
<1> QED
  BY ClaimInvInit, ClaimInvStep, <1>1, PTL DEF Spec

------------------------------------------------------------------------------
(* Cookies.                                                                  *)
Earned == [c \in Certs |-> cert[c].earned]
Owed == [r \in Requests |-> Owes(r)]

(* What is paid, about to be paid or lost beyond what the rows show.         *)
Beyond == (lost + Total(lifetime, Users) + Total(Owed, Requests)) - Total(Earned, Certs)

CookieInv == TypeOK /\ CookiesBackRows

LEMMA CookieTypes ==
  TypeOK => /\ \A c \in Certs : Earned[c] \in Nat
            /\ \A u \in Users : lifetime[u] \in Nat
            /\ \A r \in Requests : Owed[r] \in Nat
BY DEF TypeOK, Row, Request, Earned, Owed, Owes

LEMMA CookieSums ==
  TypeOK => {lost, Total(Earned, Certs), Total(lifetime, Users), Total(Owed, Requests)}
              \subseteq Int
<1> SUFFICES ASSUME TypeOK
             PROVE  /\ Total(Earned, Certs) \in Int /\ Total(lifetime, Users) \in Int
                    /\ Total(Owed, Requests) \in Int /\ lost \in Int
  OBVIOUS
<1>1. /\ \A c \in Certs : Earned[c] \in Int
      /\ \A u \in Users : lifetime[u] \in Int
      /\ \A r \in Requests : Owed[r] \in Int
  BY CookieTypes
<1>2. Total(Earned, Certs) \in Int
  BY <1>1, TotalType
<1>3. Total(lifetime, Users) \in Int
  BY <1>1, TotalType
<1>4. Total(Owed, Requests) \in Int
  BY <1>1, TotalType
<1> QED
  BY <1>2, <1>3, <1>4 DEF TypeOK

(* The step of one request changes the sum of what is owed by its own debt.  *)
LEMMA OwedChange ==
  ASSUME TypeOK, TypeOK', NEW r \in Requests,
         \A s \in Requests \ {r} : req'[s] = req[s]
  PROVE  Total(Owed', Requests) = Total(Owed, Requests) + (Owes(r)' - Owes(r))
<1>1. \A s \in Requests : Owed[s] \in Int /\ Owed'[s] \in Int
  <2>1. \A s \in Requests : Owed[s] \in Nat /\ Owed'[s] \in Nat
    BY DEF TypeOK, Request, Owed, Owes
  <2> QED
    BY <2>1
<1>2. \A s \in Requests \ {r} : Owed[s] = Owed'[s]
  BY DEF Owed, Owes
<1>3. Owed[r] = Owes(r) /\ Owed'[r] = Owes(r)'
  BY DEF Owed
<1> QED
  BY <1>1, <1>2, <1>3, TotalChange

LEMMA EarnedChange ==
  ASSUME TypeOK, TypeOK', NEW c \in Certs, \A d \in Certs \ {c} : cert'[d] = cert[d]
  PROVE  Total(Earned', Certs) = Total(Earned, Certs) + (cert'[c].earned - cert[c].earned)
<1>1. \A d \in Certs : Earned[d] \in Int /\ Earned'[d] \in Int
  <2>1. \A d \in Certs : Earned[d] \in Nat /\ Earned'[d] \in Nat
    BY DEF TypeOK, Row, Earned
  <2> QED
    BY <2>1
<1>2. \A d \in Certs \ {c} : Earned[d] = Earned'[d]
  BY DEF Earned
<1>3. Earned[c] = cert[c].earned /\ Earned'[c] = cert'[c].earned
  BY DEF Earned
<1> QED
  BY <1>1, <1>2, <1>3, TotalChange

LEMMA CookieStep == TypeOK /\ [Next]_vars => Beyond' >= Beyond
<1> SUFFICES ASSUME TypeOK, [Next]_vars PROVE Beyond' >= Beyond
  OBVIOUS
<1>0. TypeOK'
  BY TypeStep
<1>1. /\ {lost, Total(Earned, Certs), Total(lifetime, Users), Total(Owed, Requests)}
           \subseteq Int
      /\ {lost', Total(Earned', Certs), Total(lifetime', Users), Total(Owed', Requests)}
           \subseteq Int
  <2>1. (TypeOK => {lost, Total(Earned, Certs), Total(lifetime, Users), Total(Owed, Requests)}
           \subseteq Int)'
    BY CookieSums, PTL
  <2> QED
    BY <1>0, <2>1, CookieSums
<1>2. \A r \in Requests : /\ req[r] \in Request /\ req[r].pay \in Nat /\ req[r].cert \in Certs
                          /\ req[r].payee \in Users
  BY DEF TypeOK, Request
<1> DEFINE Rows == Total(Earned, Certs)
           Paid == Total(lifetime, Users)
           Due == Total(Owed, Requests)
(* Rows and payments stay, and the one that moves owes nothing.              *)
<1>3. ASSUME NEW r \in Requests, UNCHANGED <<lost, lifetime>>,
             \A c \in Certs : cert'[c].earned = cert[c].earned,
             \A s \in Requests \ {r} : req'[s] = req[s],
             req[r].pc # "credit", req'[r].pc # "credit"
      PROVE  Beyond' >= Beyond
  <2>1. Earned' = Earned
    BY <1>3 DEF Earned
  <2>2. Owes(r) = 0 /\ Owes(r)' = 0
    BY <1>3 DEF Owes
  <2>3. Total(Owed', Requests) = Total(Owed, Requests)
    BY <1>0, <1>1, <1>3, <2>2, OwedChange
  <2> QED
    BY <1>1, <1>3, <2>1, <2>3 DEF Beyond
<1>4. ASSUME NEW r \in Requests, Answer(r) PROVE
        /\ \A s \in Requests \ {r} : req'[s] = req[s]
        /\ req'[r].pc = "idle"
  BY <1>4 DEF Answer, Idle, TypeOK
<1>5. ASSUME NEW r \in Requests, NEW pc, Goto(r, pc) PROVE
        /\ \A s \in Requests \ {r} : req'[s] = req[s]
        /\ req'[r].pc = pc /\ req'[r].pay = req[r].pay
  BY <1>2, <1>5 DEF Goto, TypeOK, Request
<1>6. ASSUME NEW r \in Requests, NEW q, Begin(r, q), q.pc # "credit"
      PROVE  /\ \A s \in Requests \ {r} : req'[s] = req[s]
             /\ req[r].pc # "credit" /\ req'[r].pc # "credit"
  BY <1>6 DEF Begin, TypeOK
<1>7. ASSUME NEW r \in Requests, Arrive(r) PROVE Beyond' >= Beyond
  <2>1. PICK c \in Certs : \/ ClaimScan(r, c) \/ ReleaseRead(r, c)
                           \/ \E v \in Sent, p \in Users : VerdictRead(r, c, v, p)
    BY <1>7 DEF Arrive
  <2>2. UNCHANGED <<cert, lifetime, lost>>
    BY <2>1 DEF ClaimScan, ReleaseRead, VerdictRead
  <2>3. \E q : Begin(r, q) /\ q.pc # "credit"
    <3>1. CASE ClaimScan(r, c)
      <4> DEFINE q == [Idle(r) EXCEPT !.pc = "claimRead", !.cert = c, !.at = now]
      <4>1. Begin(r, q) /\ q.pc = "claimRead"
        BY <3>1, IdleType DEF ClaimScan, Request
      <4> QED
        BY <4>1
    <3>2. CASE ReleaseRead(r, c)
      <4> DEFINE q == [Idle(r) EXCEPT !.pc = "releaseWrite", !.cert = c]
      <4>1. Begin(r, q) /\ q.pc = "releaseWrite"
        BY <3>2, IdleType DEF ReleaseRead, Request
      <4> QED
        BY <4>1
    <3>3. ASSUME NEW v \in Sent, NEW p \in Users, VerdictRead(r, c, v, p)
          PROVE \E q : Begin(r, q) /\ q.pc # "credit"
      <4> DEFINE q(n) == [pc |-> "decide", cert |-> c, at |-> now, verdict |-> v,
                          payee |-> p, pay |-> n, stamp |-> cert[c].startedAt = 0]
      <4>1. PICK n \in IF IsDecision(v) THEN Pays ELSE {0} : Begin(r, q(n))
        BY <3>3 DEF VerdictRead
      <4>2. q(n).pc = "decide"
        OBVIOUS
      <4> HIDE DEF q
      <4> QED
        BY <4>1, <4>2
    <3> QED
      BY <2>1, <3>1, <3>2, <3>3
  <2> QED
    BY <1>3, <1>6, <2>2, <2>3
<1>8. ASSUME NEW r \in Requests, ClaimRead(r) PROVE Beyond' >= Beyond
  <2>1. /\ \A s \in Requests \ {r} : req'[s] = req[s]
        /\ req'[r].pc # "credit" /\ req[r].pc # "credit"
        /\ UNCHANGED <<cert, lifetime, lost>>
    BY <1>4, <1>5, <1>8 DEF ClaimRead
  <2> QED
    BY <1>3, <2>1
<1>9. ASSUME NEW r \in Requests, ClaimWrite(r) \/ ReleaseWrite(r) \/ Mark(r)
      PROVE Beyond' >= Beyond
  <2>1. \A c \in Certs : cert'[c].earned = cert[c].earned
    <3>1. \A row \in Row : \A u, t : Claimed(row, u, t).earned = row.earned
      BY DEF Row, Claimed
    <3>2. \A row \in Row : [row EXCEPT !.synced = TRUE].earned = row.earned
      BY DEF Row
    <3>3. CASE ClaimWrite(r) \/ ReleaseWrite(r)
      <4>1. \E u, t : cert' = [cert EXCEPT ![req[r].cert] = Claimed(@, u, t)]
        BY <3>3 DEF ClaimWrite, ReleaseWrite
      <4> QED
        BY <1>2, <3>1, <4>1 DEF TypeOK
    <3>4. CASE Mark(r)
      BY <1>2, <3>2, <3>4 DEF Mark, TypeOK
    <3> QED
      BY <1>9, <3>3, <3>4
  <2>2. UNCHANGED <<lifetime, lost>> /\ Answer(r) /\ req[r].pc # "credit"
    BY <1>9 DEF ClaimWrite, ReleaseWrite, Mark
  <2> QED
    BY <1>3, <1>4, <2>1, <2>2
<1>10. ASSUME NEW r \in Requests, VerdictWrite(r) PROVE Beyond' >= Beyond
  <2>0. PICK c \in Certs : c = req[r].cert
    BY <1>2
  <2>1. /\ \A d \in Certs \ {c} : cert'[d] = cert[d]
        /\ cert'[c] = Decided(cert[c], req[r])
        /\ UNCHANGED <<lifetime, lost>>
        /\ cert[c] \in Row
    BY <1>10, <2>0 DEF VerdictWrite, TypeOK
  <2>2. CASE ~IsDecision(req[r].verdict)
    <3>1. cert'[c].earned = cert[c].earned
      BY <2>1, <2>2 DEF Decided, Row
    <3>2. /\ \A s \in Requests \ {r} : req'[s] = req[s]
          /\ req'[r].pc # "credit" /\ req[r].pc # "credit"
      BY <1>4, <1>5, <1>10, <2>2 DEF VerdictWrite
    <3>3. \A d \in Certs : cert'[d].earned = cert[d].earned
      BY <2>1, <3>1
    <3> QED
      BY <1>3, <2>1, <3>2, <3>3
  <2>3. CASE IsDecision(req[r].verdict)
    <3>1. cert'[c].earned = req[r].pay
      BY <2>1, <2>3 DEF Decided, Row, IsDecision
    <3>2. /\ req[r].pc = "decide"
          /\ \A s \in Requests \ {r} : req'[s] = req[s]
          /\ req'[r].pc = "credit" /\ req'[r].pay = req[r].pay
      BY <1>5, <1>10, <2>3 DEF VerdictWrite, IsDecision
    <3>3. Owes(r) = 0 /\ Owes(r)' = req[r].pay
      BY <3>2 DEF Owes
    <3>4. Total(Owed', Requests) = Total(Owed, Requests) + req[r].pay
      BY <1>0, <1>1, <1>2, <3>2, <3>3, OwedChange
    <3>5. Total(Earned', Certs) = Total(Earned, Certs) + (req[r].pay - cert[c].earned)
      BY <1>0, <2>1, <3>1, EarnedChange
    <3>6. cert[c].earned \in Nat
      BY <2>1 DEF Row
    <3> QED
      BY <1>1, <1>2, <2>1, <3>4, <3>5, <3>6 DEF Beyond
  <2> QED
    BY <2>2, <2>3
<1>11. ASSUME NEW r \in Requests, Credit(r) PROVE Beyond' >= Beyond
  <2>1. /\ req[r].pc = "credit" /\ req'[r].pc = "sync"
        /\ \A s \in Requests \ {r} : req'[s] = req[s]
        /\ UNCHANGED <<cert, lost>>
    BY <1>5, <1>11 DEF Credit
  <2>2. Owes(r) = req[r].pay /\ Owes(r)' = 0
    BY <2>1 DEF Owes
  <2>3. Total(Owed', Requests) = Total(Owed, Requests) - req[r].pay
    BY <1>0, <1>1, <1>2, <2>1, <2>2, OwedChange
  <2>4. Total(lifetime', Users) = Total(lifetime, Users) + req[r].pay
    <3>0. PICK p \in Users : p = req[r].payee
      BY <1>2
    <3>1. /\ lifetime'[p] = lifetime[p] + req[r].pay
          /\ \A u \in Users \ {p} : lifetime[u] = lifetime'[u]
          /\ \A u \in Users : lifetime[u] \in Int /\ lifetime'[u] \in Int
      BY <1>0, <1>11, <3>0 DEF Credit, TypeOK
    <3>2. Total(lifetime', Users) = Total(lifetime, Users) + (lifetime'[p] - lifetime[p])
      BY <3>1, TotalChange
    <3> QED
      BY <1>2, <3>1, <3>2
  <2>5. Earned' = Earned
    BY <2>1 DEF Earned
  <2> QED
    BY <1>1, <1>2, <2>1, <2>3, <2>4, <2>5 DEF Beyond
<1>12. ASSUME NEW r \in Requests, SyncAccepted(r) \/ SyncFailed(r) PROVE Beyond' >= Beyond
  <2>1. /\ \A s \in Requests \ {r} : req'[s] = req[s]
        /\ req'[r].pc # "credit" /\ req[r].pc # "credit"
        /\ UNCHANGED <<cert, lifetime, lost>>
    BY <1>4, <1>5, <1>12 DEF SyncAccepted, SyncFailed
  <2> QED
    BY <1>3, <2>1
<1>13. ASSUME NEW r \in Requests, Abort(r) PROVE Beyond' >= Beyond
  <2>1. /\ \A s \in Requests \ {r} : req'[s] = req[s]
        /\ req'[r].pc = "idle" /\ UNCHANGED <<cert, lifetime>>
    BY <1>4, <1>13 DEF Abort
  <2>2. CASE req[r].pc # "credit"
    <3>1. lost' = lost
      BY <1>13, <2>2 DEF Abort
    <3> QED
      BY <1>3, <2>1, <2>2, <3>1
  <2>3. CASE req[r].pc = "credit"
    <3>1. lost' = lost + req[r].pay
      BY <1>13, <2>3 DEF Abort
    <3>2. Owes(r) = req[r].pay /\ Owes(r)' = 0
      BY <2>1, <2>3 DEF Owes
    <3>3. Total(Owed', Requests) = Total(Owed, Requests) - req[r].pay
      BY <1>0, <1>1, <1>2, <2>1, <3>2, OwedChange
    <3>4. Earned' = Earned
      BY <2>1 DEF Earned
    <3> QED
      BY <1>1, <1>2, <2>1, <3>1, <3>3, <3>4 DEF Beyond
  <2> QED
    BY <2>2, <2>3
<1>14. CASE UNCHANGED <<cert, lifetime, lost, req>>
  <2>1. Earned' = Earned /\ Owed' = Owed
    BY <1>14 DEF Earned, Owed, Owes
  <2> QED
    BY <1>1, <1>14, <2>1 DEF Beyond
<1> QED
  BY <1>7, <1>8, <1>9, <1>10, <1>11, <1>12, <1>13, <1>14
  DEF Next, Continue, GoesOn, Ends, Tick, vars

(* However many handlers interleave and fail, the cookies the rows show as   *)
(* earned were paid, are about to be, or were lost by a handler that failed. *)
THEOREM RowsAreBacked == Spec => []CookiesBackRows
<1>1. TypeOK => (CookiesBackRows <=> Beyond >= 0)
  <2> SUFFICES ASSUME TypeOK PROVE CookiesBackRows <=> Beyond >= 0
    OBVIOUS
  <2>1. {lost, Total(Earned, Certs), Total(lifetime, Users), Total(Owed, Requests)}
          \subseteq Int
    BY CookieSums
  <2>2. CookiesBackRows <=> Total(Earned, Certs)
                              <= lost + Total(lifetime, Users) + Total(Owed, Requests)
    BY DEF CookiesBackRows, Earned, Owed
  <2> QED
    BY <2>1, <2>2 DEF Beyond
<1>2. Init => CookieInv
  <2> SUFFICES ASSUME Init PROVE CookieInv
    OBVIOUS
  <2>1. /\ \A c \in Certs : Earned[c] = 0
        /\ \A u \in Users : lifetime[u] = 0
        /\ \A r \in Requests : Owed[r] = 0
    BY DEF Init, NewRow, Idle, Earned, Owed, Owes
  <2>2. Total(Earned, Certs) = 0 /\ Total(lifetime, Users) = 0 /\ Total(Owed, Requests) = 0
    BY <2>1, TotalZero
  <2>3. Beyond = 0
    BY <2>2 DEF Init, Beyond
  <2> QED
    BY <1>1, <2>3, TypeInit DEF CookieInv
<1>3. CookieInv /\ [Next]_vars => CookieInv'
  <2> SUFFICES ASSUME CookieInv, [Next]_vars PROVE CookieInv'
    OBVIOUS
  <2>1. TypeOK'
    BY TypeStep DEF CookieInv
  <2>2. Beyond' >= Beyond /\ Beyond >= 0
    BY <1>1, CookieStep DEF CookieInv
  <2>3. Beyond \in Int /\ Beyond' \in Int
    <3>1. (TypeOK => {lost, Total(Earned, Certs), Total(lifetime, Users),
                      Total(Owed, Requests)} \subseteq Int)'
      BY CookieSums, PTL
    <3> QED
      BY <2>1, <3>1, CookieSums DEF CookieInv, Beyond
  <2>4. (TypeOK => (CookiesBackRows <=> Beyond >= 0))'
    BY <1>1, PTL
  <2> QED
    BY <2>1, <2>2, <2>3, <2>4 DEF CookieInv
<1> QED
  BY <1>2, <1>3, PTL DEF Spec, CookieInv
------------------------------------------------------------------------------
(* What handlers find.                                                       *)

(* What a handler found when it read is still so when it goes on, unless it   *)
(* has missed what somebody else wrote on the ship.                          *)
FindsClaim(r) ==
  LET q == req[r] IN
  /\ q.pc \in {"claimRead", "claimWrite"} => q.at <= now
  /\ q.pc = "claimWrite" /\ "claim" \notin missed[r] => HolderOf(q.cert) = NoUser

FindsRelease(r) ==
  req[r].pc = "releaseWrite" /\ "claim" \notin missed[r] =>
    cert[req[r].cert].claimer \in {Owner[r], NoUser} \/ Owner[r] \in Overriders

FindsVerdict(r) ==
  LET q == req[r] IN
  q.pc = "decide" =>
    /\ "verdict" \notin missed[r] =>
         cert[q.cert].status = "pending" \/ Owner[r] \in Overriders
    /\ "claim" \notin missed[r] /\ q.verdict # "keep" =>
         HolderOf(q.cert) \in {NoUser, Owner[r]} \/ Owner[r] \in Megawrights

FindsOwn(r) ==
  LET q == req[r]
      row == cert[q.cert] IN
  /\ q.pc = "credit" /\ {"verdict", "keep"} \cap missed[r] = {} =>
       row.reviewer = q.payee /\ row.earned = q.pay
  /\ q.pc \in {"credit", "sync", "mark"} /\ "verdict" \notin missed[r] =>
       row.status = q.verdict

Finds(r) == FindsClaim(r) /\ FindsRelease(r) /\ FindsVerdict(r) /\ FindsOwn(r)

FindInv == TypeOK /\ \A r \in Requests : Finds(r)

LEMMA FreshBefore ==
  ASSUME NEW row \in Row, NEW s \in Nat, NEW t \in Nat, s <= t, Fresh(row, t)
  PROVE  Fresh(row, s)
BY DEF Fresh, Row

(* What the step of r leaves of a row, or has s miss.                         *)
LEMMA Touches ==
  ASSUME TypeOK, NEW r \in Requests, GoesOn(r) \/ Ends(r) \/ Abort(r) \/ Arrive(r),
         NEW s \in Requests \ {r}, req[s].pc # "idle", NEW c \in Certs, c = req[s].cert
  PROVE  /\ \/ "claim" \in missed'[s]
            \/ /\ HolderOf(c)' \in {NoUser, HolderOf(c)}
               /\ cert'[c].claimer \in {NoUser, cert[c].claimer}
         /\ "verdict" \in missed'[s] \/ cert'[c].status = cert[c].status
         /\ \/ {"verdict", "keep"} \cap missed'[s] # {}
            \/ cert'[c].reviewer = cert[c].reviewer /\ cert'[c].earned = cert[c].earned
<1> DEFINE Goal == /\ \/ "claim" \in missed'[s]
                      \/ /\ HolderOf(c)' \in {NoUser, HolderOf(c)}
                         /\ cert'[c].claimer \in {NoUser, cert[c].claimer}
                   /\ "verdict" \in missed'[s] \/ cert'[c].status = cert[c].status
                   /\ \/ {"verdict", "keep"} \cap missed'[s] # {}
                      \/ /\ cert'[c].reviewer = cert[c].reviewer
                         /\ cert'[c].earned = cert[c].earned
<1>0. /\ cert \in [Certs -> Row] /\ cert[c] \in Row
      /\ req[r] \in Request /\ req[r].cert \in Certs
      /\ missed[s] \subseteq missed'[s] /\ now' = now
  BY MissedStays DEF TypeOK, Request
<1>1. CASE cert'[c] = cert[c]
  BY <1>0, <1>1 DEF HolderOf
<1>2. ASSUME ClaimWrite(r), req[r].cert = c PROVE Goal
  <2>1. cert'[c] = Claimed(cert[c], Owner[r], req[r].at)
    BY <1>0, <1>2 DEF ClaimWrite
  <2>2. "claim" \in missed'[s]
    BY <1>2 DEF ClaimWrite, ClaimsFor
  <2> QED
    BY <1>0, <2>1, <2>2 DEF Claimed, Row
<1>3. ASSUME ReleaseWrite(r), req[r].cert = c PROVE Goal
  <2>1. cert'[c] = Claimed(cert[c], NoUser, 0)
    BY <1>0, <1>3 DEF ReleaseWrite
  <2>2. /\ cert'[c].claimer = NoUser /\ cert'[c].status = cert[c].status
        /\ cert'[c].reviewer = cert[c].reviewer /\ cert'[c].earned = cert[c].earned
    BY <1>0, <2>1 DEF Claimed, Row
  <2>3. HolderOf(c)' = NoUser
    BY <2>2 DEF HolderOf, Fresh
  <2> QED
    BY <2>2, <2>3
<1>4. ASSUME VerdictWrite(r), req[r].cert = c PROVE Goal
  <2>1. cert'[c] = Decided(cert[c], req[r])
    BY <1>0, <1>4 DEF VerdictWrite
  <2>2. CASE req[r].verdict = "keep"
    <3>1. Writes(r, req[r].cert, "keep")
      BY <1>4, <2>2 DEF VerdictWrite
    <3>2. "keep" \in missed'[s]
      BY <1>4, <3>1 DEF Writes
    <3>3. /\ cert'[c].status = cert[c].status /\ cert'[c].claimer = cert[c].claimer
          /\ cert'[c].startedAt = cert[c].startedAt
      BY <1>0, <2>1, <2>2 DEF Decided, Row
    <3>4. HolderOf(c)' = HolderOf(c)
      BY <1>0, <3>3 DEF HolderOf, Fresh
    <3> QED
      BY <3>2, <3>3, <3>4
  <2>3. CASE req[r].verdict # "keep"
    <3>1. Writes(r, req[r].cert, "verdict")
      BY <1>4, <2>3 DEF VerdictWrite
    <3>2. "verdict" \in missed'[s]
      BY <1>4, <3>1 DEF Writes
    <3>3. cert'[c].claimer = NoUser
      BY <1>0, <2>1, <2>3 DEF Decided, Row
    <3>4. HolderOf(c)' = NoUser
      BY <3>3 DEF HolderOf, Fresh
    <3> QED
      BY <3>2, <3>3, <3>4
  <2> QED
    BY <2>2, <2>3
<1>5. ASSUME Mark(r), req[r].cert = c PROVE Goal
  <2>1. cert'[c] = [cert[c] EXCEPT !.synced = TRUE]
    BY <1>0, <1>5 DEF Mark
  <2>2. /\ cert'[c].status = cert[c].status /\ cert'[c].claimer = cert[c].claimer
        /\ cert'[c].startedAt = cert[c].startedAt
        /\ cert'[c].reviewer = cert[c].reviewer /\ cert'[c].earned = cert[c].earned
    BY <1>0, <2>1 DEF Row
  <2>3. HolderOf(c)' = HolderOf(c)
    BY <1>0, <2>2 DEF HolderOf, Fresh
  <2> QED
    BY <2>2, <2>3
<1>6. \/ cert'[c] = cert[c]
      \/ req[r].cert = c /\ (ClaimWrite(r) \/ ReleaseWrite(r) \/ VerdictWrite(r) \/ Mark(r))
  BY <1>0 DEF Arrive, GoesOn, Ends, ClaimScan, ReleaseRead, VerdictRead, Credit, ClaimRead,
              SyncAccepted, SyncFailed, Abort, ClaimWrite, ReleaseWrite, VerdictWrite, Mark
<1> QED
  BY <1>1, <1>2, <1>3, <1>4, <1>5, <1>6

(* The step of one handler takes away what others found, or they miss it.    *)
LEMMA OthersFind ==
  ASSUME TypeOK, NEW r \in Requests, GoesOn(r) \/ Ends(r) \/ Abort(r) \/ Arrive(r),
         NEW s \in Requests \ {r}, Finds(s)
  PROVE  Finds(s)'
<1>0. PICK c \in Certs : c = req[s].cert
  BY DEF TypeOK, Request
<1>1. req'[s] = req[s] /\ missed[s] \subseteq missed'[s] /\ now' = now
  BY OneRequest, MissedStays
<1>2. CASE req[s].pc = "idle"
  BY <1>1, <1>2 DEF Finds, FindsClaim, FindsRelease, FindsVerdict, FindsOwn
<1>3. CASE req[s].pc # "idle"
  <2>1. /\ \/ "claim" \in missed'[s]
           \/ /\ HolderOf(c)' \in {NoUser, HolderOf(c)}
              /\ cert'[c].claimer \in {NoUser, cert[c].claimer}
        /\ "verdict" \in missed'[s] \/ cert'[c].status = cert[c].status
        /\ \/ {"verdict", "keep"} \cap missed'[s] # {}
           \/ cert'[c].reviewer = cert[c].reviewer /\ cert'[c].earned = cert[c].earned
    BY <1>0, <1>3, Touches
  <2>2. FindsClaim(s)'
    <3>1. HolderOf(req[s].cert) = HolderOf(c)
      BY <1>0
    <3>2. (HolderOf(req[s].cert))' = HolderOf(c)'
      BY <1>0, <1>1 DEF HolderOf
    <3> QED
      BY <1>0, <1>1, <2>1, <3>1, <3>2 DEF Finds, FindsClaim
  <2>3. FindsRelease(s)'
    BY <1>0, <1>1, <2>1 DEF Finds, FindsRelease
  <2>4. FindsVerdict(s)'
    <3>1. HolderOf(req[s].cert) = HolderOf(c)
      BY <1>0
    <3>2. (HolderOf(req[s].cert))' = HolderOf(c)'
      BY <1>0, <1>1 DEF HolderOf
    <3> QED
      BY <1>0, <1>1, <2>1, <3>1, <3>2 DEF Finds, FindsVerdict
  <2>5. FindsOwn(s)'
    BY <1>0, <1>1, <2>1 DEF Finds, FindsOwn
  <2> QED
    BY <2>2, <2>3, <2>4, <2>5 DEF Finds
<1> QED
  BY <1>2, <1>3

(* A handler that arrives or goes on knows what it has just read or written. *)
LEMMA OwnFinds ==
  ASSUME TypeOK, NEW r \in Requests, GoesOn(r) \/ Ends(r) \/ Abort(r) \/ Arrive(r), Finds(r)
  PROVE  Finds(r)'
<1> USE DEF Finds, FindsClaim, FindsRelease, FindsVerdict, FindsOwn
<1>0. /\ req[r] \in Request /\ req[r].cert \in Certs /\ req[r].at \in Nat
      /\ Idle(r) \in Request /\ Idle(r).pc = "idle"
      /\ req \in [Requests -> Request] /\ cert \in [Certs -> Row]
      /\ \A c \in Certs : cert[c] \in Row
      /\ now \in Nat /\ Owner[r] \in Users
  BY IdleType DEF TypeOK, Request, Idle
<1>1. ASSUME req'[r].pc = "idle" PROVE Finds(r)'
  BY <1>1
<1>2. ASSUME Answer(r) PROVE Finds(r)'
  <2>1. req'[r].pc = "idle"
    BY <1>0, <1>2 DEF Answer
  <2> QED
    BY <1>1, <2>1
<1>3. ASSUME NEW pc, Goto(r, pc)
      PROVE  /\ req'[r].pc = pc /\ req'[r].cert = req[r].cert /\ req'[r].at = req[r].at
             /\ req'[r].verdict = req[r].verdict /\ req'[r].payee = req[r].payee
             /\ req'[r].pay = req[r].pay
  BY <1>0, <1>3 DEF Goto, Request
<1>4. ASSUME NEW c \in Certs, ClaimScan(r, c) PROVE Finds(r)'
  <2>1. req'[r].pc = "claimRead" /\ req'[r].at = now /\ now' = now
    BY <1>0, <1>4 DEF ClaimScan, Begin, Request
  <2> QED
    BY <1>0, <2>1
<1>5. ASSUME NEW c \in Certs, ReleaseRead(r, c) PROVE Finds(r)'
  <2>1. /\ req'[r].pc = "releaseWrite" /\ req'[r].cert = c /\ UNCHANGED cert
        /\ cert[c].claimer = Owner[r] \/ Owner[r] \in Overriders
    BY <1>0, <1>5 DEF ReleaseRead, Begin, Request
  <2> QED
    BY <2>1
<1>6. ASSUME NEW c \in Certs, NEW v \in Sent, NEW p \in Users, VerdictRead(r, c, v, p)
      PROVE Finds(r)'
  <2>1. /\ req'[r].pc = "decide" /\ req'[r].cert = c /\ req'[r].verdict = v
        /\ UNCHANGED <<cert, now>> /\ MayDecide(Owner[r], cert[c], v)
        /\ v = "keep" => Owner[r] \in Overriders
    BY <1>0, <1>6 DEF VerdictRead, Begin
  <2>2. (HolderOf(req[r].cert))' = HolderOf(c)
    BY <2>1 DEF HolderOf, Fresh
  <2>3. cert[c].status = "pending" \/ Owner[r] \in Overriders
    BY <2>1 DEF MayDecide
  <2>4. v # "keep" => HolderOf(c) \in {NoUser, Owner[r]} \/ Owner[r] \in Megawrights
    BY <2>1 DEF MayDecide, HolderOf
  <2> QED
    BY <2>1, <2>2, <2>3, <2>4
<1>7. ASSUME ClaimRead(r) PROVE Finds(r)'
  <2>1. req[r].pc = "claimRead" /\ UNCHANGED <<cert, now>>
    BY <1>7 DEF ClaimRead
  <2>2. CASE Answer(r)
    BY <1>2, <2>2
  <2>3. CASE ~Fresh(cert[req[r].cert], req[r].at) /\ Goto(r, "claimWrite")
    <3>1. req[r].at <= now
      BY <2>1
    <3>2. ~Fresh(cert[req[r].cert], now)
      BY <1>0, <2>3, <3>1, FreshBefore
    <3>3. req'[r].pc = "claimWrite" /\ req'[r].cert = req[r].cert /\ req'[r].at = req[r].at
      BY <1>3, <2>3
    <3>4. ~Fresh(cert'[req'[r].cert], now')
      BY <2>1, <3>2, <3>3
    <3>5. (HolderOf(req[r].cert))' = NoUser
      BY <3>4 DEF HolderOf
    <3> QED
      BY <2>1, <3>1, <3>3, <3>5
  <2> QED
    BY <1>7, <2>2, <2>3 DEF ClaimRead
<1>8. ASSUME ClaimWrite(r) \/ ReleaseWrite(r) \/ Ends(r) \/ Abort(r) PROVE Finds(r)'
  BY <1>2, <1>8 DEF ClaimWrite, ReleaseWrite, Ends, SyncFailed, Mark, Abort
<1>9. ASSUME VerdictWrite(r) PROVE Finds(r)'
  <2>0. PICK c \in Certs : c = req[r].cert
    BY <1>0
  <2>1. cert'[c] = Decided(cert[c], req[r]) /\ cert[c] \in Row
    BY <1>0, <1>9, <2>0 DEF VerdictWrite
  <2>2. CASE Answer(r)
    BY <1>2, <2>2
  <2>3. CASE req[r].verdict = "pending" /\ Goto(r, "sync")
    <3>1. cert'[c].status = req[r].verdict
      BY <2>1, <2>3 DEF Decided, Row
    <3>2. req'[r].pc = "sync" /\ req'[r].cert = c /\ req'[r].verdict = req[r].verdict
      BY <1>3, <2>0, <2>3
    <3> QED
      BY <3>1, <3>2
  <2>4. CASE IsDecision(req[r].verdict) /\ Goto(r, "credit")
    <3>1. /\ cert'[c].status = req[r].verdict /\ cert'[c].reviewer = req[r].payee
          /\ cert'[c].earned = req[r].pay
      BY <2>1, <2>4 DEF Decided, Row, IsDecision
    <3>2. /\ req'[r].pc = "credit" /\ req'[r].cert = c /\ req'[r].verdict = req[r].verdict
          /\ req'[r].payee = req[r].payee /\ req'[r].pay = req[r].pay
      BY <1>3, <2>0, <2>4
    <3> QED
      BY <3>1, <3>2
  <2> QED
    BY <1>9, <2>2, <2>3, <2>4 DEF VerdictWrite
<1>10. ASSUME Credit(r) \/ SyncAccepted(r) PROVE Finds(r)'
  <2>1. /\ req[r].pc \in {"credit", "sync"} /\ UNCHANGED cert
        /\ UNCHANGED missed
    BY <1>10 DEF Credit, SyncAccepted
  <2>2. /\ req'[r].pc \in {"sync", "mark"} /\ req'[r].cert = req[r].cert
        /\ req'[r].verdict = req[r].verdict
    BY <1>3, <1>10 DEF Credit, SyncAccepted
  <2> QED
    BY <2>1, <2>2
<1> QED
  BY <1>4, <1>5, <1>6, <1>7, <1>8, <1>9, <1>10 DEF Arrive, GoesOn

(* The clock only lets claims lapse.                                         *)
LEMMA TickFinds ==
  ASSUME TypeOK, Tick, NEW s \in Requests, Finds(s)
  PROVE  Finds(s)'
<1>0. PICK c \in Certs : c = req[s].cert
  BY DEF TypeOK, Request
<1>1. now' = now + 1 /\ UNCHANGED <<cert, req, missed>> /\ now \in Nat
      /\ req[s].at \in Nat /\ cert[c] \in Row
  BY DEF Tick, TypeOK, Request
<1>2. Fresh(cert[c], now + 1) => Fresh(cert[c], now)
  BY <1>1, FreshBefore
<1>3. HolderOf(req[s].cert) = HolderOf(c) /\ (HolderOf(req[s].cert))' = HolderOf(c)'
  BY <1>0, <1>1 DEF HolderOf
<1>4. HolderOf(c)' \in {NoUser, HolderOf(c)}
  BY <1>1, <1>2 DEF HolderOf
<1>5. FindsClaim(s)'
  BY <1>0, <1>1, <1>3, <1>4 DEF Finds, FindsClaim
<1>6. FindsVerdict(s)'
  BY <1>0, <1>1, <1>3, <1>4 DEF Finds, FindsVerdict
<1>7. FindsRelease(s)' /\ FindsOwn(s)'
  BY <1>1 DEF Finds, FindsRelease, FindsOwn
<1> QED
  BY <1>5, <1>6, <1>7 DEF Finds

LEMMA FindInvariant == Spec => []FindInv
<1>1. Init => FindInv
  <2> SUFFICES ASSUME Init PROVE FindInv
    OBVIOUS
  <2>1. \A r \in Requests : req[r].pc = "idle"
    BY DEF Init, Idle
  <2> QED
    BY <2>1, TypeInit
    DEF FindInv, Finds, FindsClaim, FindsRelease, FindsVerdict, FindsOwn
<1>2. FindInv /\ [Next]_vars => FindInv'
  <2> SUFFICES ASSUME FindInv, [Next]_vars, NEW s \in Requests PROVE Finds(s)'
    BY TypeStep DEF FindInv
  <2>1. TypeOK /\ Finds(s)
    BY DEF FindInv
  <2>2. ASSUME NEW r \in Requests, GoesOn(r) \/ Ends(r) \/ Abort(r) \/ Arrive(r)
        PROVE Finds(s)'
    BY <2>1, <2>2, OwnFinds, OthersFind
  <2>3. CASE Tick
    BY <2>1, <2>3, TickFinds
  <2>4. CASE UNCHANGED vars
    <3>1. UNCHANGED <<cert, req, now, missed>>
      BY <2>4 DEF vars
    <3> QED
      BY <2>1, <3>1 DEF Finds, FindsClaim, FindsRelease, FindsVerdict, FindsOwn, HolderOf, Fresh
  <2> QED
    BY <2>2, <2>3, <2>4 DEF Next, Continue
<1> QED
  BY <1>1, <1>2, PTL DEF Spec

(* However handlers interleave and die, one pays the reviewer the row names   *)
(* what the row shows, and tells Flavortown the verdict it shows, unless      *)
(* somebody else wrote on the ship since its own write.                       *)
THEOREM EffectsFollowRow == Spec => EffectsMatchRow
<1>1. ASSUME FindInv, NEW r \in Requests, Credit(r), {"verdict", "keep"} \cap missed[r] = {}
      PROVE lifetime' = [lifetime EXCEPT ![cert[req[r].cert].reviewer]
                           = @ + cert[req[r].cert].earned]
  BY <1>1 DEF Credit, FindInv, Finds, FindsOwn
<1>2. ASSUME FindInv, NEW r \in Requests, SyncAccepted(r), "verdict" \notin missed[r]
      PROVE cert[req[r].cert].status = ft'[req[r].cert]
  BY <1>2 DEF SyncAccepted, FindInv, Finds, FindsOwn, TypeOK, Request
<1>3. FindInv =>
        [\A r \in Requests : LET row == cert[req[r].cert] IN
           /\ Credit(r) /\ {"verdict", "keep"} \cap missed[r] = {} =>
                lifetime' = [lifetime EXCEPT ![row.reviewer] = @ + row.earned]
           /\ SyncAccepted(r) /\ "verdict" \notin missed[r] =>
                row.status = ft'[req[r].cert]]_vars
  BY <1>1, <1>2
<1> QED
  BY <1>3, FindInvariant, PTL DEF EffectsMatchRow

------------------------------------------------------------------------------
(* The docket.                                                               *)
Statuses == [c \in Certs |-> cert[c].status]
Holders == [c \in Certs |-> HolderOf(c)]

LEMMA HolderHolds ==
  ASSUME TypeOK, NEW c \in Certs
  PROVE  /\ HolderOf(c) \in Users \cup {NoUser}
         /\ \A u \in Users : HolderOf(c) = u <=> Holds(u, c)
<1>1. cert[c].claimer \in Users \cup {NoUser}
  BY DEF TypeOK, Row
<1> QED
  BY <1>1 DEF HolderOf, Holds, Fresh

(* A step that touches one row moves one entry of the docket.                *)
LEMMA OneRow ==
  ASSUME UNCHANGED now, NEW c \in Certs, \A d \in Certs \ {c} : cert'[d] = cert[d]
  PROVE  /\ Holders' = [Holders EXCEPT ![c] = HolderOf(c)']
         /\ Statuses' = [Statuses EXCEPT ![c] = cert'[c].status]
<1>1. \A d \in Certs \ {c} : HolderOf(d)' = HolderOf(d)
  BY DEF HolderOf, Fresh
<1>2. Holders' = [d \in Certs |-> HolderOf(d)']
  BY DEF Holders
<1>3. Statuses' = [d \in Certs |-> cert'[d].status]
  BY DEF Statuses
<1> QED
  BY <1>1, <1>2, <1>3 DEF Holders, Statuses

LEMMA DocketVars == (UNCHANGED Desk!docketVars) <=> UNCHANGED <<Statuses, Holders>>
BY DEF Desk!docketVars, Statuses, Holders

DeskInv == ClaimInv /\ FindInv

(* A claim that is not late takes a free ship for a reviewer who holds none,  *)
(* or changes nothing.                                                       *)
LEMMA ClaimTakes ==
  ASSUME DeskInv, NEW r \in Requests, ClaimWrite(r), ~Late(r)
  PROVE  Desk!Take(Owner[r], req[r].cert) \/ UNCHANGED Desk!docketVars
<1>0. PICK c \in Certs : c = req[r].cert
  BY DEF DeskInv, FindInv, TypeOK, Request
<1> DEFINE u == Owner[r]
<1>1. /\ cert'[c] = Claimed(cert[c], u, req[r].at) /\ UNCHANGED now
      /\ \A d \in Certs \ {c} : cert'[d] = cert[d]
  BY <1>0 DEF ClaimWrite, DeskInv, FindInv, TypeOK
<1>2. "own" \notin missed[r] /\ "claim" \notin missed[r] /\ req[r].pc = "claimWrite"
  BY DEF ClaimWrite, Late
<1>a. \A d \in Certs \ {c} : ~Holds(u, d)
  BY <1>0, <1>2 DEF DeskInv, ClaimInv, ScanHolds
<1>3. cert[c] \in Row /\ u \in Users
  BY DEF DeskInv, FindInv, TypeOK
<1>4. cert'[c].status = cert[c].status
  BY <1>1, <1>3 DEF Claimed, Row
<1>5. HolderOf(c) = NoUser
  BY <1>0, <1>2 DEF DeskInv, FindInv, Finds, FindsClaim
<1>6. HolderOf(c)' = u \/ HolderOf(c)' = NoUser
  BY <1>1, <1>3 DEF HolderOf, Claimed, Row
<1>7. \A d \in Certs : HolderOf(d) # u
  <2>1. \A d \in Certs \ {c} : HolderOf(d) # u
    BY <1>a, <1>3, HolderHolds DEF DeskInv, FindInv
  <2> QED
    BY <1>3, <1>5, <2>1
<1>8. /\ Holders' = [Holders EXCEPT ![c] = HolderOf(c)']
      /\ Statuses' = [Statuses EXCEPT ![c] = cert'[c].status]
  BY <1>1, OneRow
<1>9. Statuses' = Statuses
  BY <1>4, <1>8 DEF Statuses
<1>10. CASE HolderOf(c)' = u
  <2>1. cert[c].status = "pending"
    BY <1>3, <1>4, <1>10, NoUserAssumption DEF HolderOf
  <2> QED
    BY <1>0, <2>1, <1>5, <1>7, <1>8, <1>9, <1>10 DEF Desk!Take, Holders, Statuses
<1>11. CASE HolderOf(c)' = NoUser
  <2>1. Holders' = Holders
    BY <1>5, <1>8, <1>11 DEF Holders
  <2> QED
    BY <1>9, <2>1, DocketVars
<1> QED
  BY <1>6, <1>10, <1>11

(* A release gives back what its user holds or may take from anybody.        *)
LEMMA ReleaseGives ==
  ASSUME DeskInv, NEW r \in Requests, ReleaseWrite(r), ~Late(r)
  PROVE  Desk!GiveBack(Owner[r], req[r].cert) \/ UNCHANGED Desk!docketVars
<1>0. PICK c \in Certs : c = req[r].cert
  BY DEF DeskInv, FindInv, TypeOK, Request
<1>1. /\ cert'[c] = Claimed(cert[c], NoUser, 0) /\ UNCHANGED now
      /\ \A d \in Certs \ {c} : cert'[d] = cert[d]
  BY <1>0 DEF ReleaseWrite, DeskInv, FindInv, TypeOK
<1>2. cert[c].claimer \in {Owner[r], NoUser} \/ Owner[r] \in Overriders
  BY <1>0 DEF ReleaseWrite, Late, DeskInv, FindInv, Finds, FindsRelease
<1>3. cert[c] \in Row
  BY DEF DeskInv, FindInv, TypeOK
<1>4. cert'[c].status = cert[c].status /\ HolderOf(c)' = NoUser
  BY <1>1, <1>3 DEF Claimed, Row, HolderOf, Fresh
<1>5. /\ Holders' = [Holders EXCEPT ![c] = NoUser]
      /\ Statuses' = [Statuses EXCEPT ![c] = cert[c].status]
  BY <1>1, <1>4, OneRow
<1>6. Statuses' = Statuses
  BY <1>5 DEF Statuses
<1>7. CASE HolderOf(c) = Owner[r] \/ Owner[r] \in Overriders
  BY <1>0, <1>5, <1>6, <1>7 DEF Desk!GiveBack, Holders, Statuses
<1>8. CASE HolderOf(c) # Owner[r] /\ Owner[r] \notin Overriders
  <2>1. HolderOf(c) = NoUser
    BY <1>2, <1>8 DEF HolderOf
  <2>2. Holders' = Holders
    BY <1>5, <2>1 DEF Holders
  <2> QED
    BY <1>6, <2>2, DocketVars
<1> QED
  BY <1>7, <1>8

(* A verdict is one its user may give, and ends the claim.                   *)
LEMMA VerdictDecides ==
  ASSUME DeskInv, NEW r \in Requests, VerdictWrite(r), req[r].verdict # "keep", ~Late(r)
  PROVE  Desk!Decide(Owner[r], req[r].cert, req[r].verdict)
<1>0. PICK c \in Certs : c = req[r].cert
  BY DEF DeskInv, FindInv, TypeOK, Request
<1> DEFINE u == Owner[r]
           v == req[r].verdict
<1>1. /\ cert'[c] = Decided(cert[c], req[r]) /\ UNCHANGED now
      /\ \A d \in Certs \ {c} : cert'[d] = cert[d]
  BY <1>0 DEF VerdictWrite, DeskInv, FindInv, TypeOK
<1>2. req[r].pc = "decide" /\ FindsVerdict(r)
  BY DEF VerdictWrite, DeskInv, FindInv, Finds
<1>3. cert[c] \in Row
  BY DEF DeskInv, FindInv, TypeOK
<1>4. cert'[c].status = v /\ cert'[c].claimer = NoUser
  BY <1>1, <1>3 DEF Decided, Row
<1>5. HolderOf(c)' = NoUser
  BY <1>4 DEF HolderOf, Fresh
<1>6. cert[c].status = "pending" \/ u \in Overriders
  BY <1>0, <1>2 DEF FindsVerdict, Late
<1>7. HolderOf(c) \in {NoUser, u} \/ u \in Megawrights
  BY <1>0, <1>2 DEF FindsVerdict, Late
<1>8. /\ Holders' = [Holders EXCEPT ![c] = NoUser]
      /\ Statuses' = [Statuses EXCEPT ![c] = v]
  BY <1>1, <1>4, <1>5, OneRow
<1> QED
  BY <1>0, <1>6, <1>7, <1>8 DEF Desk!Decide, Holders, Statuses

LEMMA DeskInvariant == Spec => []DeskInv
BY ClaimInvInit, ClaimInvStep, FindInvariant, PTL DEF Spec, DeskInv

(* However requests interleave, every claim, release and verdict is one its  *)
(* own user may make at the moment it is written, or changes nothing, unless *)
(* its handler missed a claim or a verdict that would have stopped it.       *)
THEOREM HandlersAct == Spec => ActsForItsUser
<1>1. DeskInv =>
        [\A r \in Requests : LET c == req[r].cert
                                 u == Owner[r]
                                 idle == UNCHANGED Desk!docketVars IN
           ~Late(r) =>
             /\ ClaimWrite(r) => Desk!Take(u, c) \/ idle
             /\ ReleaseWrite(r) => Desk!GiveBack(u, c) \/ idle
             /\ VerdictWrite(r) /\ req[r].verdict # "keep" =>
                  Desk!Decide(u, c, req[r].verdict)]_vars
  BY ClaimTakes, ReleaseGives, VerdictDecides
<1> QED
  BY <1>1, DeskInvariant, PTL DEF ActsForItsUser

LEMMA DocketStep ==
  DeskInv /\ [Next]_vars =>
    [Desk!DocketNext \/ \E r \in Requests : LateWrite(r)]_(Desk!docketVars)
<1> SUFFICES ASSUME DeskInv, [Next]_vars, \A r \in Requests : ~LateWrite(r)
             PROVE  Desk!DocketNext \/ UNCHANGED Desk!docketVars
  OBVIOUS
<1>t. TypeOK
  BY DEF DeskInv, FindInv
<1>l. \A r \in Requests : ClaimWrite(r) \/ ReleaseWrite(r) \/ VerdictWrite(r) => ~Late(r)
  BY DEF LateWrite
<1>0. \A r \in Requests : /\ req[r].cert \in Certs /\ Owner[r] \in Users
                          /\ req[r].verdict \in Verdicts
  BY <1>t DEF TypeOK, Request
<1>1. ASSUME UNCHANGED <<cert, now>> PROVE UNCHANGED Desk!docketVars
  BY <1>1, DocketVars DEF Statuses, Holders, HolderOf, Fresh
<1>2. ASSUME NEW r \in Requests, ClaimWrite(r)
      PROVE Desk!DocketNext \/ UNCHANGED Desk!docketVars
  BY <1>0, <1>2, <1>l, ClaimTakes DEF Desk!DocketNext
<1>3. ASSUME NEW r \in Requests, ReleaseWrite(r)
      PROVE Desk!DocketNext \/ UNCHANGED Desk!docketVars
  BY <1>0, <1>3, <1>l, ReleaseGives DEF Desk!DocketNext
<1>4. ASSUME NEW r \in Requests, VerdictWrite(r)
      PROVE Desk!DocketNext \/ UNCHANGED Desk!docketVars
  <2>1. CASE req[r].verdict # "keep"
    <3>1. req[r].verdict \in {"pending", "approved", "rejected"}
      BY <1>0, <2>1 DEF Verdicts, Status
    <3>2. Desk!Decide(Owner[r], req[r].cert, req[r].verdict)
      BY <1>4, <1>l, <2>1, VerdictDecides
    <3>3. PICK u \in Users, c \in Certs, v \in {"pending", "approved", "rejected"} :
            Desk!Decide(u, c, v)
      <4> DEFINE D(u, c, v) == Desk!Decide(u, c, v)
      <4>1. D(Owner[r], req[r].cert, req[r].verdict)
        BY <3>2
      <4> HIDE DEF D
      <4>2. \E u \in Users, c \in Certs, v \in {"pending", "approved", "rejected"} : D(u, c, v)
        BY <1>0, <3>1, <4>1
      <4> QED
        BY <4>2 DEF D
    <3> QED
      BY <3>3 DEF Desk!DocketNext
  <2>2. CASE req[r].verdict = "keep"
    <3>1. \A row \in Row : \A q : q.verdict = "keep" =>
            /\ Decided(row, q).status = row.status /\ Decided(row, q).claimer = row.claimer
            /\ Decided(row, q).startedAt = row.startedAt
      BY DEF Decided, Row
    <3>2. \A c \in Certs : /\ cert'[c].status = cert[c].status
                           /\ cert'[c].claimer = cert[c].claimer
                           /\ cert'[c].startedAt = cert[c].startedAt
      BY <1>0, <1>t, <1>4, <2>2, <3>1 DEF VerdictWrite, TypeOK
    <3>3. now' = now
      BY <1>4 DEF VerdictWrite
    <3> QED
      BY <3>2, <3>3, DocketVars DEF Statuses, Holders, HolderOf, Fresh
  <2> QED
    BY <2>1, <2>2
<1>5. ASSUME NEW r \in Requests, Mark(r) PROVE UNCHANGED Desk!docketVars
  <2>1. \A row \in Row : LET new == [row EXCEPT !.synced = TRUE] IN
          /\ new.status = row.status /\ new.claimer = row.claimer
          /\ new.startedAt = row.startedAt
    BY DEF Row
  <2>2. \A c \in Certs : /\ cert'[c].status = cert[c].status
                         /\ cert'[c].claimer = cert[c].claimer
                         /\ cert'[c].startedAt = cert[c].startedAt
    BY <1>0, <1>t, <1>5, <2>1 DEF Mark, TypeOK
  <2>3. now' = now
    BY <1>5 DEF Mark
  <2> QED
    BY <2>2, <2>3, DocketVars DEF Statuses, Holders, HolderOf, Fresh
<1>6. ASSUME Tick PROVE Desk!DocketNext
  <2> DEFINE S == {c \in Certs : Fresh(cert[c], now) /\ ~Fresh(cert[c], now + 1)}
  <2>1. now' = now + 1 /\ UNCHANGED cert /\ now \in Nat /\ \A c \in Certs : cert[c] \in Row
    BY <1>t, <1>6 DEF Tick, TypeOK
  <2>2. ASSUME NEW c \in Certs
        PROVE HolderOf(c)' = IF c \in S THEN NoUser ELSE HolderOf(c)
    <3>1. Fresh(cert[c], now + 1) => Fresh(cert[c], now)
      BY <2>1, FreshBefore
    <3> QED
      BY <2>1, <3>1 DEF HolderOf
  <2>3. Holders' = [c \in Certs |-> HolderOf(c)']
    BY DEF Holders
  <2> HIDE DEF S
  <2>4. Holders' = [c \in Certs |-> IF c \in S THEN NoUser ELSE Holders[c]]
    BY <2>2, <2>3 DEF Holders
  <2>5. Statuses' = Statuses
    BY <2>1 DEF Statuses
  <2>6. Desk!Lapse(S)
    BY <2>4, <2>5 DEF Desk!Lapse, Holders, Statuses
  <2>7. S \in SUBSET Certs
    BY DEF S
  <2> QED
    BY <2>6, <2>7 DEF Desk!DocketNext
<1> QED
  BY <1>1, <1>2, <1>3, <1>4, <1>5, <1>6
  DEF Next, Arrive, Continue, GoesOn, Ends, ClaimScan, ReleaseRead, VerdictRead, ClaimRead,
      Credit, SyncAccepted, SyncFailed, Abort, vars

(* However its handlers interleave, the desk does what the docket promises:  *)
(* a pending ship is held by at most one reviewer, a reviewer holds at most  *)
(* one ship, and only those who may decide, release or lose a claim do; the  *)
(* one way out is the write of a handler that is late.                       *)
THEOREM DeskImplementsDocket == Spec => ImplementsDocket
<1>1. Init => Desk!DocketInit
  BY DEF Init, NewRow, Desk!DocketInit, HolderOf, Fresh
<1> QED
  BY <1>1, DeskInvariant, DocketStep, PTL DEF Spec, ImplementsDocket

------------------------------------------------------------------------------
(* The desk and the reviews                                                  *)

ReviewRow == [cert : Certs, status : ReviewStatus]
JobRow == [pc : {"idle", "look", "fetch", "create"}, cert : Certs]
PatchRow == [pc : {"idle", "write", "reopen"}, id : Nat,
             close : {"undo", "done", "returned"}]

(* The table is a sequence: n rows, numbered from 1.                         *)
Rows == \E n \in Nat : review \in [1 .. n -> ReviewRow]

Slots ==
  /\ job \in [Jobs -> JobRow]
  /\ patch \in [Handlers -> PatchRow]
  /\ patches \in 0 .. MaxPatches
  /\ dropped \subseteq Certs

(* A PATCH in progress is about a row that exists.                           *)
Targets == \A h \in Handlers : patch[h].pc # "idle" => patch[h].id \in DOMAIN review

PipeTypes == TypeOK /\ Rows /\ Slots /\ Targets
PipeInv == PipeTypes /\ ApprovedIsCovered

USE PipelineAssumption, JobsAssumption

------------------------------------------------------------------------------
(* What the library says of 1 .. n, as the model uses it.                    *)
LEMMA Count == ASSUME NEW n \in Nat PROVE Cardinality(1 .. n) = n
BY FS_Interval

LEMMA NoJobType == NoJob \in JobRow
<1>1. (CHOOSE c \in Certs : TRUE) \in Certs
  BY CertsAssumption
<1> QED
  BY <1>1 DEF NoJob, JobRow

LEMMA PipeTypeInit == PipeInit => PipeTypes
<1> SUFFICES ASSUME PipeInit PROVE PipeTypes
  OBVIOUS
<1>1. TypeOK
  BY TypeInit DEF PipeInit
<1>2. Rows
  <2>1. review \in [1 .. 0 -> ReviewRow]
    BY DEF PipeInit
  <2> QED
    BY <2>1 DEF Rows
<1>3. Slots
  BY NoJobType DEF PipeInit, Slots, NoPatch, PatchRow
<1>4. Targets
  BY DEF PipeInit, Targets, NoPatch
<1> QED
  BY <1>1, <1>2, <1>3, <1>4 DEF PipeTypes

(* Every step of the pipeline is a step of the desk or leaves it alone, but  *)
(* for the reopening of a returned ship.                                     *)
LEMMA DeskPart ==
  ASSUME PipeTypes, [PipeNext]_allVars
  PROVE  [Next]_vars \/ \E h \in Handlers : Reopen(h)
<1>1. ASSUME DeskStep PROVE Next
  BY <1>1 DEF DeskStep, DeskResumes, DeskDies, Next, Continue
<1> QED
  BY <1>1 DEF PipeNext, JobStep, JobLook, JobRecheck, JobCreate, JobLost,
              PatchStep, PatchRead, PatchWrite, PatchAbort, allVars

(* Completing, returning or undoing a review leaves a review.                *)
LEMMA PatchedRow ==
  ASSUME NEW row \in ReviewRow, NEW s \in ReviewStatus
  PROVE  [row EXCEPT !.status = s] \in ReviewRow
BY DEF ReviewRow

LEMMA PipeTypeStep == PipeTypes /\ [PipeNext]_allVars => PipeTypes'
<1> SUFFICES ASSUME PipeTypes, [PipeNext]_allVars PROVE PipeTypes'
  OBVIOUS
<1>0. TypeOK /\ Rows /\ Slots /\ Targets
  BY DEF PipeTypes
<1>j. \A j \in Jobs : job[j] \in JobRow
  BY <1>0 DEF Slots
<1>h. \A h \in Handlers : patch[h] \in PatchRow
  BY <1>0 DEF Slots
<1>n. PICK n \in Nat : review \in [1 .. n -> ReviewRow]
  BY <1>0 DEF Rows
<1>w. NoPatch \in PatchRow /\ NoPatch.pc = "idle"
  BY DEF NoPatch, PatchRow
<1>1. TypeOK'
  <2>1. CASE [Next]_vars
    BY <1>0, <2>1, TypeStep
  <2>2. ASSUME NEW h \in Handlers, Reopen(h) PROVE TypeOK'
    <3>1. review[patch[h].id].cert \in Certs
      BY <1>0, <1>n, <2>2 DEF Reopen, Targets, ReviewRow
    <3>2. \A row \in Row : [row EXCEPT !.status = "pending"] \in Row
      BY DEF Row, Status
    <3>3. cert' \in [Certs -> Row]
      BY <1>0, <2>2, <3>1, <3>2 DEF Reopen, TypeOK
    <3>4. missed' \in [Requests -> SUBSET Missable]
      BY <1>0, <2>2 DEF Reopen, TypeOK, Missable
    <3> QED
      BY <1>0, <2>2, <3>3, <3>4 DEF Reopen, TypeOK
  <2> QED
    BY <2>1, <2>2, DeskPart
<1>2. ASSUME NEW r \in Requests, DeskResumes(r) PROVE Rows' /\ Slots' /\ Targets'
  <2>1. req[r].cert \in Certs
    BY <1>0 DEF TypeOK, Request
  <2>2. job' \in [Jobs -> JobRow]
    BY <1>0, <1>2, <2>1 DEF DeskResumes, Slots, JobRow
  <2> QED
    BY <1>0, <1>2, <2>2 DEF DeskResumes, Rows, Slots, Targets
<1>3. ASSUME NEW r \in Requests, DeskDies(r) PROVE Rows' /\ Slots' /\ Targets'
  <2>1. req[r].cert \in Certs
    BY <1>0 DEF TypeOK, Request
  <2>2. dropped' \subseteq Certs
    BY <1>0, <1>3, <2>1 DEF DeskDies, Slots
  <2> QED
    BY <1>0, <1>3, <2>2 DEF DeskDies, Rows, Slots, Targets
<1>4. ASSUME NEW j \in Jobs, JobLook(j) \/ JobRecheck(j) PROVE Rows' /\ Slots' /\ Targets'
  <2>1. job' \in [Jobs -> JobRow]
    BY <1>0, <1>j, <1>4, NoJobType DEF JobLook, JobRecheck, Slots, JobRow
  <2> QED
    BY <1>0, <1>4, <2>1 DEF JobLook, JobRecheck, Rows, Slots, Targets
<1>5. ASSUME NEW j \in Jobs, JobCreate(j) PROVE Rows' /\ Slots' /\ Targets'
  <2>1. Cardinality(DOMAIN review) = n
    BY <1>n, Count
  <2>2. [cert |-> job[j].cert, status |-> "pending"] \in ReviewRow
    BY <1>j DEF JobRow, ReviewRow, ReviewStatus
  <2>3. review' \in [1 .. n + 1 -> ReviewRow]
    BY <1>5, <1>n, <2>1, <2>2 DEF JobCreate
  <2>4. n + 1 \in Nat /\ DOMAIN review \subseteq DOMAIN review'
    BY <1>n, <2>3
  <2>5. job' \in [Jobs -> JobRow]
    BY <1>0, <1>5, NoJobType DEF JobCreate, Slots
  <2>6. Rows'
    BY <2>3, <2>4 DEF Rows
  <2>7. Targets'
    BY <1>0, <1>5, <2>4 DEF JobCreate, Targets
  <2> QED
    BY <1>0, <1>5, <2>5, <2>6, <2>7 DEF JobCreate, Slots
<1>6. ASSUME NEW j \in Jobs, JobLost(j) PROVE Rows' /\ Slots' /\ Targets'
  <2>1. job[j].cert \in Certs
    BY <1>j DEF JobRow
  <2>2. job' \in [Jobs -> JobRow]
    BY <1>0, <1>6, NoJobType DEF JobLost, Slots
  <2> QED
    BY <1>0, <1>6, <2>1, <2>2 DEF JobLost, Rows, Slots, Targets
<1>7. ASSUME NEW h \in Handlers, NEW i \in DOMAIN review,
             NEW close \in {"undo", "done", "returned"}, PatchRead(h, i, close)
      PROVE  Rows' /\ Slots' /\ Targets'
  <2>1. i \in Nat
    BY <1>n
  <2>2. patch' \in [Handlers -> PatchRow]
    BY <1>0, <1>7, <2>1 DEF PatchRead, Slots, PatchRow
  <2>3. patches' \in 0 .. MaxPatches
    BY <1>0, <1>7 DEF PatchRead, Slots
  <2>4. Targets'
    BY <1>0, <1>7 DEF PatchRead, Targets, Slots
  <2> QED
    BY <1>0, <1>7, <2>2, <2>3, <2>4 DEF PatchRead, Rows, Slots
<1>8. ASSUME NEW h \in Handlers, PatchWrite(h) PROVE Rows' /\ Slots' /\ Targets'
  <2> DEFINE s == IF patch[h].close = "undo" THEN "pending" ELSE patch[h].close
  <2>1. s \in ReviewStatus
    BY <1>h DEF PatchRow, ReviewStatus
  <2>2. patch[h].id \in 1 .. n
    BY <1>0, <1>8, <1>n DEF PatchWrite, Targets
  <2>3. review' = [review EXCEPT ![patch[h].id] = [review[patch[h].id] EXCEPT !.status = s]]
    BY <1>8 DEF PatchWrite
  <2>4. [review[patch[h].id] EXCEPT !.status = s] \in ReviewRow
    BY <1>n, <2>1, <2>2, PatchedRow
  <2>5. review' \in [1 .. n -> ReviewRow]
    BY <1>n, <2>3, <2>4
  <2>6. DOMAIN review' = DOMAIN review
    BY <1>n, <2>5
  <2>7. patch' \in [Handlers -> PatchRow]
    BY <1>0, <1>h, <1>8, <1>w DEF PatchWrite, Slots, PatchRow
  <2>8. Targets'
    BY <1>0, <1>8, <1>w, <2>6 DEF PatchWrite, Targets, Slots
  <2> QED
    BY <1>0, <1>8, <2>5, <2>7, <2>8 DEF PatchWrite, Rows, Slots
<1>9. ASSUME NEW h \in Handlers, Reopen(h) PROVE Rows' /\ Slots' /\ Targets'
  <2>1. patch' \in [Handlers -> PatchRow]
    BY <1>0, <1>9, <1>w DEF Reopen, Slots
  <2>2. Targets'
    BY <1>0, <1>9, <1>w DEF Reopen, Targets, Slots
  <2> QED
    BY <1>0, <1>9, <2>1, <2>2 DEF Reopen, Rows, Slots
<1>10. ASSUME NEW h \in Handlers, PatchAbort(h) PROVE Rows' /\ Slots' /\ Targets'
  <2>1. patch[h].id \in 1 .. n
    BY <1>0, <1>10, <1>n DEF PatchAbort, Targets
  <2>2. review[patch[h].id].cert \in Certs
    BY <1>n, <2>1 DEF ReviewRow
  <2>3. patch' \in [Handlers -> PatchRow]
    BY <1>0, <1>10, <1>w DEF PatchAbort, Slots
  <2>4. dropped' \subseteq Certs
    BY <1>0, <1>10, <2>2 DEF PatchAbort, Slots
  <2>5. Targets'
    BY <1>0, <1>10, <1>w DEF PatchAbort, Targets, Slots
  <2> QED
    BY <1>0, <1>10, <2>3, <2>4, <2>5 DEF PatchAbort, Rows, Slots
<1>11. ASSUME UNCHANGED pipeVars PROVE Rows' /\ Slots' /\ Targets'
  BY <1>0, <1>11 DEF pipeVars, Rows, Slots, Targets
<1> QED
  BY <1>1, <1>2, <1>3, <1>4, <1>5, <1>6, <1>7, <1>8, <1>9, <1>10, <1>11
  DEF PipeTypes, PipeNext, DeskStep, JobStep, PatchStep, allVars

(* The tables and slots keep their types, whatever fails in between.         *)
THEOREM PipelineTypes == PipeSpec => []PipeTypeOK
<1>1. PipeTypes => PipeTypeOK
  <2> SUFFICES ASSUME PipeTypes PROVE PipeTypeOK
    OBVIOUS
  <2>1. PICK n \in Nat : review \in [1 .. n -> ReviewRow]
    BY DEF PipeTypes, Rows
  <2>2. Cardinality(DOMAIN review) = n
    BY <2>1, Count
  <2> QED
    BY <2>1, <2>2 DEF PipeTypes, PipeTypeOK, Slots, ReviewRow, JobRow, PatchRow
<1> QED
  BY <1>1, PipeTypeInit, PipeTypeStep, PTL DEF PipeSpec

------------------------------------------------------------------------------
(* Coverage of one ship, by the four hands it can be in.                     *)
Working(r, c) ==
  /\ req[r].pc \in {"credit", "sync", "mark"}
  /\ req[r].verdict = "approved"
  /\ req[r].cert = c

Creating(j, c) == job[j].pc # "idle" /\ job[j].cert = c

Reopening(h, c) == patch[h].pc = "reopen" /\ review[patch[h].id].cert = c

Covered(c) == Live(c) \/ InProgress(c) \/ c \in dropped

LEMMA CoveredBy ==
  ASSUME NEW c \in Certs
  PROVE  Covered(c) <=> \/ Live(c)
                        \/ \E r \in Requests : Working(r, c)
                        \/ \E j \in Jobs : Creating(j, c)
                        \/ \E h \in Handlers : Reopening(h, c)
                        \/ c \in dropped
BY DEF Covered, InProgress, Working, Creating, Reopening

(* An approval in progress stays in progress until its handler ends or dies. *)
LEMMA WorkGoesOn ==
  ASSUME TypeOK, NEW r \in Requests, GoesOn(r) \/ Arrive(r), NEW x \in Requests,
         NEW c \in Certs, Working(x, c)
  PROVE  Working(x, c)'
<1>1. CASE x # r
  BY <1>1, OneRequest DEF Working
<1>2. CASE x = r
  <2>1. Credit(r) \/ SyncAccepted(r)
    BY <1>2 DEF Working, GoesOn, Arrive, ClaimRead, ClaimWrite, ReleaseWrite,
                VerdictWrite, ClaimScan, ReleaseRead, VerdictRead, Begin
  <2>2. req' = [req EXCEPT ![r].pc = "sync"] \/ req' = [req EXCEPT ![r].pc = "mark"]
    BY <2>1 DEF Credit, SyncAccepted, Goto
  <2>3. req[r] \in Request
    BY DEF TypeOK
  <2> QED
    BY <1>2, <2>2, <2>3 DEF Working, TypeOK, Request
<1> QED
  BY <1>1, <1>2

(* A ship becomes approved through a verdict that is then in progress.       *)
LEMMA ApprovalStarts ==
  ASSUME TypeOK, NEW r \in Requests,
         GoesOn(r) \/ Ends(r) \/ Abort(r) \/ Arrive(r),
         NEW c \in Certs, cert'[c].status = "approved"
  PROVE  cert[c].status = "approved" \/ (GoesOn(r) /\ Working(r, c)')
<1>0. cert \in [Certs -> Row] /\ req \in [Requests -> Request] /\ req[r] \in Request
      /\ req[r].cert \in Certs
  BY DEF TypeOK, Request
<1>1. CASE cert' = cert
  BY <1>1
<1>2. CASE ClaimWrite(r) \/ ReleaseWrite(r)
  <2>1. \A row \in Row : \A u, t : Claimed(row, u, t).status = row.status
    BY DEF Claimed, Row
  <2> QED
    BY <1>0, <1>2, <2>1 DEF ClaimWrite, ReleaseWrite
<1>3. CASE VerdictWrite(r)
  <2> DEFINE q == req[r]
  <2>1. cert' = [cert EXCEPT ![q.cert] = Decided(cert[q.cert], q)]
    BY <1>3 DEF VerdictWrite
  <2>2. CASE c # q.cert \/ q.verdict = "keep"
    BY <1>0, <2>1, <2>2 DEF Decided, Row
  <2>3. CASE c = q.cert /\ q.verdict # "keep"
    <3>1. cert'[c] = Decided(cert[c], q)
      BY <1>0, <2>1, <2>3
    <3>2. Decided(cert[c], q).status = q.verdict
      BY <1>0, <2>3 DEF Decided, Row
    <3>3. q.verdict = "approved"
      BY <3>1, <3>2
    <3>4. req' = [req EXCEPT ![r].pc = "credit"]
      BY <1>3, <3>3 DEF VerdictWrite, Goto
    <3>5. Working(r, c)'
      BY <1>0, <2>3, <3>3, <3>4 DEF Working, Request
    <3> QED
      BY <1>3, <3>5 DEF GoesOn
  <2> QED
    BY <2>2, <2>3
<1>4. CASE Mark(r)
  <2>1. \A row \in Row : [row EXCEPT !.synced = TRUE].status = row.status
    BY DEF Row
  <2> QED
    BY <1>0, <1>4, <2>1 DEF Mark
<1> QED
  BY <1>1, <1>2, <1>3, <1>4
  DEF GoesOn, Ends, Arrive, ClaimRead, ClaimScan, ReleaseRead, VerdictRead, Credit,
      SyncAccepted, SyncFailed, Abort

(* What a step must do for each hand a ship may be in.                       *)
LEMMA Handed ==
  ASSUME NEW c \in Certs, Covered(c),
         Live(c) => Covered(c)',
         \A r \in Requests : Working(r, c) => Covered(c)',
         \A j \in Jobs : Creating(j, c) => Covered(c)',
         \A h \in Handlers : Reopening(h, c) => Covered(c)',
         c \in dropped => Covered(c)'
  PROVE  Covered(c)'
BY CoveredBy

LEMMA CoveredNext ==
  ASSUME NEW c \in Certs,
         \/ Live(c)'
         \/ \E r \in Requests : Working(r, c)'
         \/ \E j \in Jobs : Creating(j, c)'
         \/ \E h \in Handlers : Reopening(h, c)'
         \/ c \in dropped'
  PROVE  Covered(c)'
BY DEF Covered, InProgress, Working, Creating, Reopening

(* The desk hands an approval on to a callback, or counts it as dropped.     *)
LEMMA CoverDesk ==
  ASSUME PipeTypes, DeskStep, NEW c \in Certs, cert'[c].status = "approved",
         cert[c].status = "approved" => Covered(c)
  PROVE  Covered(c)'
<1>0. TypeOK /\ Slots /\ req \in [Requests -> Request]
  BY DEF PipeTypes, TypeOK
<1>1. UNCHANGED <<review, patch>> /\ dropped \subseteq dropped'
  BY DEF DeskStep, DeskResumes, DeskDies, pipeVars
<1>2. Live(c) => Covered(c)'
  BY <1>1, CoveredNext DEF Live, ReviewsOf
<1>3. \A h \in Handlers : Reopening(h, c) => Covered(c)'
  BY <1>1, CoveredNext DEF Reopening
<1>4. c \in dropped => Covered(c)'
  BY <1>1, CoveredNext
<1>5. \A j \in Jobs : Creating(j, c) => Covered(c)'
  <2> SUFFICES ASSUME NEW j \in Jobs, Creating(j, c) PROVE Creating(j, c)'
    BY CoveredNext
  <2>1. job'[j] = job[j]
    BY <1>0 DEF DeskStep, DeskResumes, DeskDies, pipeVars, Creating, Slots
  <2> QED
    BY <2>1 DEF Creating
<1>6. ASSUME NEW r \in Requests, DeskResumes(r) PROVE Covered(c)'
  <2>1. CASE cert[c].status # "approved"
    BY <1>0, <1>6, <2>1, ApprovalStarts, CoveredNext DEF DeskResumes
  <2>2. CASE cert[c].status = "approved"
    <3>1. ASSUME NEW x \in Requests, Working(x, c) PROVE Covered(c)'
      <4>1. CASE GoesOn(r)
        BY <1>0, <3>1, <4>1, WorkGoesOn, CoveredNext
      <4>2. CASE Ends(r) /\ x # r
        BY <1>0, <3>1, <4>2, OneRequest, CoveredNext DEF Working
      <4>3. CASE Ends(r) /\ x = r /\ ~GoesOn(r)
        <5>1. PICK j \in Jobs : job' = [job EXCEPT ![j] = [pc |-> "look", cert |-> c]]
          BY <1>6, <3>1, <4>3 DEF DeskResumes, Working
        <5>2. Creating(j, c)'
          BY <1>0, <5>1 DEF Creating, Slots
        <5> QED
          BY <5>2, CoveredNext
      <4> QED
        BY <1>6, <4>1, <4>2, <4>3 DEF DeskResumes
    <3> QED
      BY <1>2, <1>3, <1>4, <1>5, <2>2, <3>1, Handed
  <2> QED
    BY <2>1, <2>2
<1>7. ASSUME NEW r \in Requests, DeskDies(r) PROVE Covered(c)'
  <2>1. cert[c].status = "approved"
    BY <1>7 DEF DeskDies, Abort
  <2>2. ASSUME NEW x \in Requests, Working(x, c) PROVE Covered(c)'
    <3>1. CASE x # r
      BY <1>0, <1>7, <2>2, <3>1, OneRequest, CoveredNext DEF DeskDies, Working
    <3>2. CASE x = r
      BY <1>7, <2>2, <3>2, CoveredNext DEF DeskDies, Working
    <3> QED
      BY <3>1, <3>2
  <2> QED
    BY <1>2, <1>3, <1>4, <1>5, <2>1, <2>2, Handed
<1>8. ASSUME NEW r \in Requests, Arrive(r) PROVE Covered(c)'
  <2>1. cert' = cert
    BY <1>8 DEF Arrive, ClaimScan, ReleaseRead, VerdictRead
  <2>2. \A x \in Requests : Working(x, c) => Covered(c)'
    BY <1>0, <1>8, WorkGoesOn, CoveredNext
  <2> QED
    BY <1>2, <1>3, <1>4, <1>5, <2>1, <2>2, Handed
<1>9. CASE Tick
  <2>1. cert' = cert /\ req' = req
    BY <1>9 DEF Tick
  <2>2. \A x \in Requests : Working(x, c) => Covered(c)'
    BY <2>1, CoveredNext DEF Working
  <2> QED
    BY <1>2, <1>3, <1>4, <1>5, <2>1, <2>2, Handed
<1> QED
  BY <1>6, <1>7, <1>8, <1>9 DEF DeskStep

(* A callback ends with a review of the ship, live or made, or is dropped.   *)
LEMMA CoverJob ==
  ASSUME PipeTypes, NEW j \in Jobs, JobStep(j) \/ JobLost(j),
         NEW c \in Certs, cert'[c].status = "approved",
         cert[c].status = "approved" => Covered(c)
  PROVE  Covered(c)'
<1>0. Slots /\ Rows
  BY DEF PipeTypes
<1>1. cert' = cert /\ req' = req /\ patch' = patch /\ dropped \subseteq dropped'
  BY DEF JobStep, JobLook, JobRecheck, JobCreate, JobLost, vars
<1>2. Covered(c)
  BY <1>1
<1>n. PICK n \in Nat : review \in [1 .. n -> ReviewRow]
  BY <1>0 DEF Rows
<1>3. \A i \in DOMAIN review : i \in DOMAIN review' /\ review'[i] = review[i]
  <2>1. Cardinality(DOMAIN review) = n
    BY <1>n, Count
  <2> QED
    BY <1>n, <2>1 DEF JobStep, JobLook, JobRecheck, JobCreate, JobLost
<1>4. Live(c) => Covered(c)'
  BY <1>3, CoveredNext DEF Live, ReviewsOf
<1>5. \A r \in Requests : Working(r, c) => Covered(c)'
  BY <1>1, CoveredNext DEF Working
<1>6. \A h \in Handlers : Reopening(h, c) => Covered(c)'
  <2> SUFFICES ASSUME NEW h \in Handlers, Reopening(h, c) PROVE Reopening(h, c)'
    BY CoveredNext
  <2>1. patch[h].id \in DOMAIN review
    BY DEF PipeTypes, Targets, Reopening
  <2> QED
    BY <1>1, <1>3, <2>1 DEF Reopening
<1>7. c \in dropped => Covered(c)'
  BY <1>1, CoveredNext
<1>8. \A k \in Jobs : Creating(k, c) => Covered(c)'
  <2> SUFFICES ASSUME NEW k \in Jobs, Creating(k, c) PROVE Covered(c)'
    OBVIOUS
  <2>1. CASE k # j
    <3>1. job'[k] = job[k]
      BY <1>0, <2>1 DEF JobStep, JobLook, JobRecheck, JobCreate, JobLost, Slots
    <3> QED
      BY <3>1, CoveredNext DEF Creating
  <2>2. CASE k = j /\ JobLook(j) /\ Blocked(job[j].cert)
    BY <1>4, <2>2 DEF Blocked, Creating, Live
  <2>3. CASE k = j /\ JobLook(j) /\ ~Blocked(job[j].cert)
    <3>1. job'[j] = [job[j] EXCEPT !.pc = "fetch"] /\ job[j] \in JobRow
      BY <1>0, <2>3 DEF JobLook, Slots
    <3> QED
      BY <2>3, <3>1, CoveredNext DEF Creating, JobRow
  <2>4. CASE k = j /\ JobRecheck(j)
    <3>1. cert[job[j].cert].status = "approved"
      BY <1>1, <2>4 DEF Creating
    <3>2. job'[j] = [job[j] EXCEPT !.pc = "create"] /\ job[j] \in JobRow
      BY <1>0, <2>4, <3>1 DEF JobRecheck, Slots
    <3> QED
      BY <2>4, <3>2, CoveredNext DEF Creating, JobRow
  <2>5. CASE k = j /\ JobCreate(j)
    <3>1. Cardinality(DOMAIN review) = n
      BY <1>n, Count
    <3>2. n + 1 \in DOMAIN review'
          /\ review'[n + 1] = [cert |-> c, status |-> "pending"]
      BY <1>n, <2>5, <3>1 DEF JobCreate, Creating
    <3>3. Live(c)'
      BY <3>2 DEF Live, ReviewsOf
    <3> QED
      BY <3>3, CoveredNext
  <2>6. CASE k = j /\ JobLost(j)
    BY <2>6, CoveredNext DEF JobLost, Creating
  <2> QED
    BY <2>1, <2>2, <2>3, <2>4, <2>5, <2>6 DEF JobStep
<1> QED
  BY <1>2, <1>4, <1>5, <1>6, <1>7, <1>8, Handed

(* A review that is returned leaves its ship to the handler that reopens it. *)
LEMMA CoverPatch ==
  ASSUME PipeTypes, NEW h \in Handlers,
         \/ \E i \in DOMAIN review, close \in {"undo", "done", "returned"} :
              PatchRead(h, i, close)
         \/ PatchStep(h)
         \/ PatchAbort(h),
         NEW c \in Certs, cert'[c].status = "approved",
         cert[c].status = "approved" => Covered(c)
  PROVE  Covered(c)'
<1>0. TypeOK /\ Slots /\ Rows /\ Targets /\ cert \in [Certs -> Row]
  BY DEF PipeTypes, TypeOK
<1>n. PICK n \in Nat : review \in [1 .. n -> ReviewRow]
  BY <1>0 DEF Rows
<1>1. req' = req /\ job' = job /\ dropped \subseteq dropped'
  BY DEF PatchRead, PatchStep, PatchWrite, Reopen, PatchAbort, vars
<1>2. cert[c].status = "approved" /\ ~(Reopen(h) /\ review[patch[h].id].cert = c)
  <2>1. CASE cert' = cert
    BY <2>1, <1>0 DEF Reopen, Row
  <2>2. CASE Reopen(h)
    BY <1>0, <2>2 DEF Reopen, Row
  <2> QED
    BY <2>1, <2>2 DEF PatchRead, PatchStep, PatchWrite, PatchAbort, vars
<1>3. \A r \in Requests : Working(r, c) => Covered(c)'
  BY <1>1, CoveredNext DEF Working
<1>4. \A j \in Jobs : Creating(j, c) => Covered(c)'
  BY <1>1, CoveredNext DEF Creating
<1>5. c \in dropped => Covered(c)'
  BY <1>1, CoveredNext
<1>6. DOMAIN review' = DOMAIN review /\ \A i \in DOMAIN review : review'[i].cert = review[i].cert
  <2>1. CASE review' = review
    BY <2>1
  <2>2. CASE PatchWrite(h)
    BY <1>n, <2>2 DEF PatchWrite, ReviewRow
  <2> QED
    BY <2>1, <2>2 DEF PatchRead, PatchStep, Reopen, PatchAbort
<1>7. \A g \in Handlers : Reopening(g, c) => Covered(c)'
  <2> SUFFICES ASSUME NEW g \in Handlers, Reopening(g, c) PROVE Covered(c)'
    OBVIOUS
  <2>0. patch[g].id \in DOMAIN review
    BY <1>0 DEF Targets, Reopening
  <2>1. CASE g # h
    <3>1. patch'[g] = patch[g]
      BY <1>0, <2>1 DEF PatchRead, PatchStep, PatchWrite, Reopen, PatchAbort, Slots
    <3> QED
      BY <1>6, <2>0, <3>1, CoveredNext DEF Reopening
  <2>2. CASE g = h
    <3>1. PatchAbort(h)
      BY <1>2, <2>2 DEF Reopening, PatchRead, PatchStep, PatchWrite
    <3> QED
      BY <2>2, <3>1, CoveredNext DEF PatchAbort, Reopening
  <2> QED
    BY <2>1, <2>2
<1>8. Live(c) => Covered(c)'
  <2> SUFFICES ASSUME NEW i \in ReviewsOf(c), review[i].status # "returned"
               PROVE  Covered(c)'
    BY DEF Live
  <2>0. i \in DOMAIN review /\ review[i].cert = c
    BY DEF ReviewsOf
  <2>1. CASE review'[i].status # "returned"
    BY <1>6, <2>0, <2>1, CoveredNext DEF Live, ReviewsOf
  <2>2. CASE review'[i].status = "returned"
    <3>1. PatchWrite(h)
      BY <2>2 DEF PatchRead, PatchStep, Reopen, PatchAbort
    <3>2. patch[h] \in PatchRow /\ patch[h].pc = "write"
      BY <1>0, <3>1 DEF Slots, PatchWrite
    <3>3. i = patch[h].id /\ patch[h].close = "returned"
      BY <1>n, <2>0, <2>2, <3>1, <3>2 DEF PatchWrite, PatchRow, ReviewRow
    <3>4. patch' = [patch EXCEPT ![h].pc = "reopen"]
      BY <3>1, <3>3 DEF PatchWrite
    <3>5. patch'[h].pc = "reopen" /\ patch'[h].id = i
      BY <1>0, <3>2, <3>3, <3>4 DEF Slots, PatchRow
    <3>6. Reopening(h, c)'
      BY <1>6, <2>0, <3>5 DEF Reopening
    <3> QED
      BY <3>6, CoveredNext
  <2> QED
    BY <2>1, <2>2
<1> QED
  BY <1>2, <1>3, <1>4, <1>5, <1>7, <1>8, Handed

------------------------------------------------------------------------------
LEMMA PipeInvStep == PipeInv /\ [PipeNext]_allVars => PipeInv'
<1> SUFFICES ASSUME PipeInv, [PipeNext]_allVars PROVE PipeInv'
  OBVIOUS
<1>1. PipeTypes'
  BY PipeTypeStep DEF PipeInv
<1>2. PipeTypes /\ \A c \in Certs : cert[c].status = "approved" => Covered(c)
  BY DEF PipeInv, ApprovedIsCovered, Covered
<1>3. ASSUME NEW c \in Certs, cert'[c].status = "approved" PROVE Covered(c)'
  <2>1. CASE DeskStep
    BY <1>2, <1>3, <2>1, CoverDesk
  <2>2. ASSUME NEW j \in Jobs, JobStep(j) \/ JobLost(j) PROVE Covered(c)'
    BY <1>2, <1>3, <2>2, CoverJob
  <2>3. ASSUME NEW h \in Handlers,
               \/ \E i \in DOMAIN review, close \in {"undo", "done", "returned"} :
                    PatchRead(h, i, close)
               \/ PatchStep(h)
               \/ PatchAbort(h)
        PROVE  Covered(c)'
    BY <1>2, <1>3, <2>3, CoverPatch
  <2>4. CASE UNCHANGED allVars
    BY <1>2, <1>3, <2>4
    DEF allVars, vars, pipeVars, Covered, Live, ReviewsOf, InProgress
  <2> QED
    BY <2>1, <2>2, <2>3, <2>4 DEF PipeNext
<1> QED
  BY <1>1, <1>3 DEF PipeInv, ApprovedIsCovered, Covered

(* No approved ship is forgotten: it has a live review, or somebody is at    *)
(* work on it, or a handler or callback for it died.                         *)
THEOREM NoApprovalForgotten == PipeSpec => []ApprovedIsCovered
<1>1. PipeInit => PipeInv
  <2>1. PipeInit => ApprovedIsCovered
    BY DEF PipeInit, Init, NewRow, ApprovedIsCovered
  <2> QED
    BY <2>1, PipeTypeInit DEF PipeInv
<1>2. PipeInv => ApprovedIsCovered
  BY DEF PipeInv
<1> QED
  BY <1>1, <1>2, PipeInvStep, PTL DEF PipeSpec

------------------------------------------------------------------------------
(* Reviews and the approvals they were paid for.                             *)
Callbacks == {j \in Jobs : job[j].pc # "idle"}

(* Approvals that are paid and have not left their callback.                 *)
PaidOnes == {r \in Requests : req[r].pc \in {"sync", "mark"} /\ req[r].verdict = "approved"}

Count3 == Cardinality(DOMAIN review) + Cardinality(Callbacks) + Cardinality(PaidOnes)

(* A decision in progress is worth something.                                *)
Worth ==
  \A r \in Requests :
    /\ req[r].pc = "decide" /\ IsDecision(req[r].verdict) => req[r].pay >= 1
    /\ req[r].pc = "credit" => req[r].pay >= 1

PaidInv == PipeTypes /\ Worth /\ Count3 <= Total(lifetime, Users)

LEMMA Sizes ==
  PipeTypes => /\ IsFiniteSet(Callbacks) /\ IsFiniteSet(PaidOnes)
               /\ Cardinality(Callbacks) \in Nat /\ Cardinality(PaidOnes) \in Nat
               /\ \E n \in Nat : DOMAIN review = 1 .. n /\ Cardinality(DOMAIN review) = n
               /\ Total(lifetime, Users) \in Int
<1> SUFFICES ASSUME PipeTypes
             PROVE /\ IsFiniteSet(Callbacks) /\ IsFiniteSet(PaidOnes)
                   /\ Cardinality(Callbacks) \in Nat /\ Cardinality(PaidOnes) \in Nat
                   /\ \E n \in Nat : DOMAIN review = 1 .. n /\ Cardinality(DOMAIN review) = n
                   /\ Total(lifetime, Users) \in Int
  OBVIOUS
<1>1. IsFiniteSet(Callbacks) /\ IsFiniteSet(PaidOnes)
  BY FiniteAssumption, FS_Subset DEF Callbacks, PaidOnes
<1>2. PICK n \in Nat : DOMAIN review = 1 .. n
  BY DEF PipeTypes, Rows
<1>3. Total(lifetime, Users) \in Int
  BY CookieSums DEF PipeTypes
<1> QED
  BY <1>1, <1>2, <1>3, Count, FS_CardinalityType

(* A request that arrives reads first, and a decision it brings has a price. *)
LEMMA Arrives ==
  ASSUME TypeOK, NEW r \in Requests, Arrive(r)
  PROVE  /\ req'[r].pc \in {"claimRead", "releaseWrite", "decide"}
         /\ req'[r].pc = "decide" /\ IsDecision(req'[r].verdict) => req'[r].pay >= 1
<1>0. Idle(r) \in Request /\ req \in [Requests -> Request]
  BY IdleType DEF TypeOK
<1>1. PICK c \in Certs : \/ ClaimScan(r, c) \/ ReleaseRead(r, c)
                         \/ \E v \in Sent, p \in Users : VerdictRead(r, c, v, p)
  BY DEF Arrive
<1>2. CASE ClaimScan(r, c)
  <2>1. req'[r] = [Idle(r) EXCEPT !.pc = "claimRead", !.cert = c, !.at = now]
    BY <1>0, <1>2 DEF ClaimScan, Begin
  <2>2. req'[r].pc = "claimRead"
    BY <1>0, <2>1 DEF Request
  <2> QED
    BY <2>2
<1>3. CASE ReleaseRead(r, c)
  <2>1. req'[r] = [Idle(r) EXCEPT !.pc = "releaseWrite", !.cert = c]
    BY <1>0, <1>3 DEF ReleaseRead, Begin
  <2>2. req'[r].pc = "releaseWrite"
    BY <1>0, <2>1 DEF Request
  <2> QED
    BY <2>2
<1>4. ASSUME NEW v \in Sent, NEW p \in Users, VerdictRead(r, c, v, p)
      PROVE  /\ req'[r].pc = "decide"
             /\ IsDecision(req'[r].verdict) => req'[r].pay >= 1
  <2>1. PICK m \in IF IsDecision(v) THEN Pays ELSE {0} :
          Begin(r, [pc |-> "decide", cert |-> c, at |-> now, verdict |-> v,
                    payee |-> p, pay |-> m, stamp |-> cert[c].startedAt = 0])
    BY <1>4 DEF VerdictRead
  <2>2. req'[r].pc = "decide" /\ req'[r].verdict = v /\ req'[r].pay = m
    BY <1>0, <2>1 DEF Begin
  <2>3. IsDecision(v) => m \in Nat /\ m # 0
    BY <2>1, PaysAssumption
  <2> QED
    BY <2>2, <2>3
<1> QED
  BY <1>1, <1>2, <1>3, <1>4

LEMMA WorthStep == PipeTypes /\ Worth /\ [PipeNext]_allVars => Worth'
<1> SUFFICES ASSUME PipeTypes, Worth, [PipeNext]_allVars, NEW x \in Requests
             PROVE  /\ req'[x].pc = "decide" /\ IsDecision(req'[x].verdict) => req'[x].pay >= 1
                    /\ req'[x].pc = "credit" => req'[x].pay >= 1
  BY DEF Worth
<1> DEFINE Good(q) == /\ q.pc = "decide" /\ IsDecision(q.verdict) => q.pay >= 1
                      /\ q.pc = "credit" => q.pay >= 1
<1>0. /\ \A r \in Requests : req[r] \in Request /\ Idle(r) \in Request /\ Idle(r).pc = "idle"
      /\ req \in [Requests -> Request]
  BY IdleType DEF PipeTypes, TypeOK, Idle
<1>1. Good(req[x])
  BY DEF Worth
<1>2. ASSUME UNCHANGED req PROVE Good(req'[x])
  BY <1>1, <1>2
<1>3. ASSUME NEW r \in Requests, Answer(r) PROVE Good(req'[x])
  BY <1>0, <1>1, <1>3 DEF Answer
<1>4. ASSUME NEW r \in Requests, NEW pc, Goto(r, pc), pc \notin {"decide", "credit"}
      PROVE Good(req'[x])
  BY <1>0, <1>1, <1>4 DEF Goto, Request
<1>5. ASSUME NEW r \in Requests, Arrive(r) PROVE Good(req'[x])
  <2>1. CASE x # r
    <3>1. req'[x] = req[x]
      BY <1>5, <2>1, OneRequest DEF PipeTypes
    <3> QED
      BY <1>1, <3>1
  <2>2. CASE x = r
    <3>1. TypeOK
      BY DEF PipeTypes
    <3> QED
      BY <1>5, <2>2, <3>1, Arrives
  <2> QED
    BY <2>1, <2>2
<1>6. ASSUME NEW r \in Requests, VerdictWrite(r) PROVE Good(req'[x])
  <2>1. CASE Answer(r) \/ Goto(r, "sync")
    BY <1>3, <1>4, <2>1
  <2>2. CASE IsDecision(req[r].verdict) /\ Goto(r, "credit")
    <3>1. req[r].pay >= 1
      BY <1>6, <2>2 DEF Worth, VerdictWrite
    <3>2. CASE x # r
      BY <1>1, <2>2, <3>2 DEF Goto
    <3>3. CASE x = r
      <4>1. req'[x].pc = "credit" /\ req'[x].pay = req[r].pay
        BY <1>0, <2>2, <3>3 DEF Goto, Request
      <4> QED
        BY <3>1, <4>1
    <3> QED
      BY <3>2, <3>3
  <2> QED
    BY <1>6, <2>1, <2>2 DEF VerdictWrite
<1>7. ASSUME NEW r \in Requests,
             \/ ClaimRead(r) \/ ClaimWrite(r) \/ ReleaseWrite(r) \/ Credit(r)
             \/ SyncAccepted(r) \/ Ends(r) \/ Abort(r)
      PROVE Good(req'[x])
  BY <1>3, <1>4, <1>7 DEF ClaimRead, ClaimWrite, ReleaseWrite, Credit, SyncAccepted,
                          Ends, SyncFailed, Mark, Abort
<1>8. CASE [Next]_vars
  BY <1>2, <1>5, <1>6, <1>7, <1>8 DEF Next, Continue, GoesOn, Tick, vars
<1>9. CASE \E h \in Handlers : Reopen(h)
  BY <1>2, <1>9 DEF Reopen
<1> QED
  BY <1>8, <1>9, DeskPart

(* One slot gained or given up.                                              *)
LEMMA Gain ==
  ASSUME NEW S, IsFiniteSet(S), NEW x, NEW T, T \subseteq S \cup {x}
  PROVE  /\ IsFiniteSet(T) /\ Cardinality(T) \in Nat /\ Cardinality(S) \in Nat
         /\ Cardinality(T) <= Cardinality(S) + 1
         /\ x \notin T => Cardinality(T) <= Cardinality(S)
         /\ x \notin T /\ x \in S => Cardinality(T) + 1 <= Cardinality(S)
<1>1. /\ IsFiniteSet(S \cup {x})
      /\ Cardinality(S \cup {x}) = IF x \in S THEN Cardinality(S) ELSE Cardinality(S) + 1
  BY FS_AddElement
<1>2. IsFiniteSet(T) /\ Cardinality(T) <= Cardinality(S \cup {x})
  BY <1>1, FS_Subset
<1>3. Cardinality(T) \in Nat /\ Cardinality(S) \in Nat
  BY <1>2, FS_CardinalityType
<1>4. x \notin T => Cardinality(T) <= Cardinality(S)
  <2> SUFFICES ASSUME x \notin T PROVE Cardinality(T) <= Cardinality(S)
    OBVIOUS
  <2>1. T \subseteq S
    OBVIOUS
  <2> QED
    BY <2>1, FS_Subset
<1>5. x \notin T /\ x \in S => Cardinality(T) + 1 <= Cardinality(S)
  <2> SUFFICES ASSUME x \notin T, x \in S PROVE Cardinality(T) + 1 <= Cardinality(S)
    OBVIOUS
  <2>1. T \subseteq S \ {x}
    OBVIOUS
  <2>2. IsFiniteSet(S \ {x}) /\ Cardinality(S \ {x}) = Cardinality(S) - 1
    BY FS_RemoveElement
  <2>3. Cardinality(T) <= Cardinality(S \ {x})
    BY <2>1, <2>2, FS_Subset
  <2> QED
    BY <1>3, <2>2, <2>3
<1> QED
  BY <1>1, <1>2, <1>3, <1>4, <1>5

LEMMA PaidStep == PaidInv /\ [PipeNext]_allVars => PaidInv'
<1> SUFFICES ASSUME PaidInv, [PipeNext]_allVars PROVE PaidInv'
  OBVIOUS
<1> USE DEF PaidInv
<1>0. PipeTypes' /\ Worth'
  BY PipeTypeStep, WorthStep
<1> DEFINE D == Cardinality(DOMAIN review)
           B == Cardinality(Callbacks)
           A == Cardinality(PaidOnes)
           L == Total(lifetime, Users)
<1>1. /\ IsFiniteSet(Callbacks) /\ IsFiniteSet(PaidOnes)
      /\ {D, B, A, D', B', A'} \subseteq Nat /\ L \in Int /\ L' \in Int
      /\ D + B + A <= L
  <2>1. (PipeTypes =>
           /\ IsFiniteSet(Callbacks) /\ IsFiniteSet(PaidOnes)
           /\ Cardinality(Callbacks) \in Nat /\ Cardinality(PaidOnes) \in Nat
           /\ \E n \in Nat : DOMAIN review = 1 .. n /\ Cardinality(DOMAIN review) = n
           /\ Total(lifetime, Users) \in Int)'
    BY Sizes, PTL
  <2> QED
    BY <1>0, <2>1, Sizes DEF Count3
<1>2. SUFFICES D' + B' + A' <= L'
  BY <1>0 DEF Count3
<1>3. /\ \A r \in Requests : req[r] \in Request /\ Idle(r).pc = "idle"
      /\ req \in [Requests -> Request]
      /\ \A j \in Jobs : job[j] \in JobRow
      /\ job \in [Jobs -> JobRow] /\ NoJob.pc = "idle"
  BY DEF PipeTypes, TypeOK, Slots, Idle, NoJob
<1>4. ASSUME UNCHANGED <<review, lifetime>>, B' <= B, A' <= A PROVE D' + B' + A' <= L'
  <2>1. D' = D /\ L' = L
    BY <1>4
  <2> HIDE DEF D, B, A, L
  <2> QED
    BY <1>1, <1>4, <2>1
<1>5. ASSUME UNCHANGED req PROVE A' = A
  BY <1>5 DEF PaidOnes
<1>6. ASSUME UNCHANGED job PROVE B' = B
  BY <1>6 DEF Callbacks
<1>7. ASSUME NEW r \in Requests, Answer(r)
      PROVE /\ A' <= A
            /\ req[r].pc \in {"sync", "mark"} /\ req[r].verdict = "approved" => A' + 1 <= A
  <2>1. /\ PaidOnes' \subseteq PaidOnes \cup {r} /\ r \notin PaidOnes'
    BY <1>3, <1>7 DEF PaidOnes, Answer
  <2>2. req[r].pc \in {"sync", "mark"} /\ req[r].verdict = "approved" => r \in PaidOnes
    BY DEF PaidOnes
  <2> QED
    BY <1>1, <2>1, <2>2, Gain
<1>8. ASSUME NEW r \in Requests, NEW pc, Goto(r, pc)
      PROVE /\ A' <= A + 1
            /\ pc \notin {"sync", "mark"} \/ req[r].verdict # "approved"
               \/ req[r].pc \in {"sync", "mark"} => A' <= A
  <2>1. /\ \A s \in Requests \ {r} : req'[s] = req[s]
        /\ req'[r].pc = pc /\ req'[r].verdict = req[r].verdict
    BY <1>3, <1>8 DEF Goto, Request
  <2>2. PaidOnes' \subseteq PaidOnes \cup {r}
    BY <2>1 DEF PaidOnes
  <2>3. pc \notin {"sync", "mark"} \/ req[r].verdict # "approved" => r \notin PaidOnes'
    BY <2>1 DEF PaidOnes
  <2>4. req[r].pc \in {"sync", "mark"} /\ req[r].verdict = "approved" =>
          PaidOnes' \subseteq PaidOnes
    BY <2>2 DEF PaidOnes
  <2>5. PaidOnes' \subseteq PaidOnes => A' <= A
    BY <1>1, FS_Subset
  <2>6. r \notin PaidOnes' => A' <= A
    BY <1>1, <2>2, Gain
  <2>7. A' <= A + 1
    BY <1>1, <2>2, Gain
  <2> QED
    BY <2>3, <2>4, <2>5, <2>6, <2>7
<1>9. ASSUME NEW r \in Requests, Arrive(r) PROVE A' <= A
  <2>1. \A s \in Requests \ {r} : req'[s] = req[s]
    BY <1>9, OneRequest DEF PipeTypes
  <2>2. req'[r].pc \in {"claimRead", "releaseWrite", "decide"}
    BY <1>9, Arrives DEF PipeTypes
  <2>3. PaidOnes' \subseteq PaidOnes
    BY <2>1, <2>2 DEF PaidOnes
  <2> QED
    BY <1>1, <2>3, FS_Subset
<1>10. ASSUME NEW j \in Jobs, job' = [job EXCEPT ![j] = NoJob]
       PROVE B' <= B /\ (job[j].pc # "idle" => B' + 1 <= B)
  <2>1. Callbacks' \subseteq Callbacks \cup {j} /\ j \notin Callbacks'
    BY <1>3, <1>10 DEF Callbacks
  <2>2. job[j].pc # "idle" => j \in Callbacks
    BY DEF Callbacks
  <2> QED
    BY <1>1, <2>1, <2>2, Gain
<1>11. ASSUME NEW r \in Requests, DeskResumes(r) PROVE D' + B' + A' <= L'
  <2>1. CASE GoesOn(r) /\ UNCHANGED job
    <3>1. CASE Credit(r)
      <4>1. A' <= A + 1
        BY <1>8, <3>1 DEF Credit
      <4>2. PICK p \in Users : p = req[r].payee
        BY <1>3 DEF Request
      <4>3. /\ lifetime' = [lifetime EXCEPT ![p] = @ + req[r].pay]
            /\ req[r].pay \in Nat /\ req[r].pay >= 1
        BY <1>3, <3>1, <4>2 DEF Credit, Worth, Request
      <4>4. /\ lifetime'[p] = lifetime[p] + req[r].pay
            /\ \A u \in Users \ {p} : lifetime[u] = lifetime'[u]
            /\ \A u \in Users : lifetime[u] \in Int /\ lifetime'[u] \in Int
        BY <4>3 DEF PipeTypes, TypeOK
      <4>5. L' = L + (lifetime'[p] - lifetime[p])
        BY <4>4, FiniteAssumption, TotalChange
      <4>6. lifetime[p] \in Int
        BY <4>4
      <4>7. D' = D /\ B' = B
        BY <1>6, <1>11, <2>1 DEF DeskResumes
      <4> HIDE DEF D, B, A, L
      <4> QED
        BY <1>1, <4>1, <4>3, <4>4, <4>5, <4>6, <4>7
    <3>2. CASE ClaimRead(r) \/ ClaimWrite(r) \/ ReleaseWrite(r)
      <4>1. A' <= A /\ lifetime' = lifetime
        BY <1>7, <1>8, <3>2 DEF ClaimRead, ClaimWrite, ReleaseWrite
      <4> QED
        BY <1>1, <1>4, <1>6, <1>11, <2>1, <4>1 DEF DeskResumes
    <3>3. CASE VerdictWrite(r)
      <4>1. A' <= A /\ lifetime' = lifetime
        BY <1>7, <1>8, <3>3 DEF VerdictWrite
      <4> QED
        BY <1>1, <1>4, <1>6, <1>11, <2>1, <4>1 DEF DeskResumes
    <3>4. CASE SyncAccepted(r)
      <4>1. A' <= A /\ lifetime' = lifetime
        BY <1>8, <3>4 DEF SyncAccepted
      <4> QED
        BY <1>1, <1>4, <1>6, <1>11, <2>1, <4>1 DEF DeskResumes
    <3> QED
      BY <2>1, <3>1, <3>2, <3>3, <3>4 DEF GoesOn
  <2>2. CASE Ends(r) /\ UNCHANGED job
    <3>1. A' <= A /\ lifetime' = lifetime
      BY <1>7, <2>2 DEF Ends, SyncFailed, Mark
    <3> QED
      BY <1>1, <1>4, <1>6, <1>11, <2>2, <3>1 DEF DeskResumes
  <2>3. CASE /\ Ends(r) /\ req[r].verdict = "approved"
             /\ \E j \in Jobs :
                  /\ job[j].pc = "idle"
                  /\ job' = [job EXCEPT ![j] = [pc |-> "look", cert |-> req[r].cert]]
    <3>1. A' + 1 <= A /\ lifetime' = lifetime
      BY <1>7, <2>3 DEF Ends, SyncFailed, Mark
    <3>2. PICK j \in Jobs : job' = [job EXCEPT ![j] = [pc |-> "look", cert |-> req[r].cert]]
      BY <2>3
    <3>3. Callbacks' \subseteq Callbacks \cup {j}
      BY <1>3, <3>2 DEF Callbacks
    <3>4. B' <= B + 1
      BY <1>1, <3>3, Gain
    <3>5. D' = D /\ L' = L
      BY <1>11, <3>1 DEF DeskResumes
    <3> HIDE DEF D, B, A, L
    <3> QED
      BY <1>1, <3>1, <3>4, <3>5
  <2> QED
    BY <1>11, <2>1, <2>2, <2>3 DEF DeskResumes
<1>12. ASSUME NEW r \in Requests, DeskDies(r) PROVE D' + B' + A' <= L'
  <2>1. A' <= A /\ UNCHANGED <<review, lifetime, job>>
    BY <1>7, <1>12 DEF DeskDies, Abort
  <2> QED
    BY <1>1, <1>4, <1>6, <2>1
<1>13. ASSUME NEW r \in Requests, Arrive(r), UNCHANGED pipeVars PROVE D' + B' + A' <= L'
  <2>1. UNCHANGED <<review, lifetime, job>>
    BY <1>13 DEF pipeVars, Arrive, ClaimScan, ReleaseRead, VerdictRead
  <2> QED
    BY <1>1, <1>4, <1>6, <1>9, <1>13, <2>1
<1>14. ASSUME UNCHANGED <<review, lifetime, job, req>> PROVE D' + B' + A' <= L'
  BY <1>1, <1>4, <1>5, <1>6, <1>14
<1>15. ASSUME NEW j \in Jobs, JobLook(j) \/ JobRecheck(j) \/ JobLost(j)
       PROVE D' + B' + A' <= L'
  <2>1. UNCHANGED <<review, lifetime, req>>
    BY <1>15 DEF JobLook, JobRecheck, JobLost, vars
  <2>2. B' <= B
    <3>1. CASE job' = [job EXCEPT ![j] = NoJob]
      BY <1>10, <3>1
    <3>2. ASSUME NEW pc, job' = [job EXCEPT ![j].pc = pc], job[j].pc # "idle" PROVE B' <= B
      <4>1. Callbacks' \subseteq Callbacks
        BY <1>3, <3>2 DEF Callbacks
      <4> QED
        BY <1>1, <4>1, FS_Subset
    <3> QED
      BY <1>15, <3>1, <3>2 DEF JobLook, JobRecheck, JobLost
  <2> QED
    BY <1>1, <1>4, <1>5, <2>1, <2>2
<1>16. ASSUME NEW j \in Jobs, JobCreate(j) PROVE D' + B' + A' <= L'
  <2>1. PICK n \in Nat : DOMAIN review = 1 .. n /\ D = n
    BY Sizes
  <2>2. DOMAIN review' = 1 .. n + 1
    BY <1>16, <2>1 DEF JobCreate
  <2>3. D' = n + 1
    BY <2>2, Count
  <2>4. B' + 1 <= B
    BY <1>10, <1>16 DEF JobCreate
  <2>5. A' = A /\ L' = L
    BY <1>5, <1>16 DEF JobCreate, vars
  <2> HIDE DEF D, B, A, L
  <2> QED
    BY <1>1, <2>1, <2>3, <2>4, <2>5
<1>17. ASSUME NEW h \in Handlers, PatchWrite(h) PROVE D' + B' + A' <= L'
  <2>1. DOMAIN review' = DOMAIN review
    BY <1>17 DEF PatchWrite, PipeTypes, Rows
  <2>2. D' = D /\ B' = B /\ A' = A /\ L' = L
    BY <1>5, <1>6, <1>17, <2>1 DEF PatchWrite, vars
  <2> HIDE DEF D, B, A, L
  <2> QED
    BY <1>1, <2>2
<1>18. ASSUME NEW h \in Handlers,
              \/ \E i \in DOMAIN review, close \in {"undo", "done", "returned"} :
                   PatchRead(h, i, close)
              \/ Reopen(h) \/ PatchAbort(h)
       PROVE D' + B' + A' <= L'
  BY <1>14, <1>18 DEF PatchRead, Reopen, PatchAbort, vars
<1>19. ASSUME Tick, UNCHANGED pipeVars PROVE D' + B' + A' <= L'
  BY <1>14, <1>19 DEF Tick, pipeVars
<1>20. ASSUME UNCHANGED allVars PROVE D' + B' + A' <= L'
  BY <1>14, <1>20 DEF allVars, vars, pipeVars
<1>21. ASSUME DeskStep PROVE D' + B' + A' <= L'
  BY <1>11, <1>12, <1>13, <1>19, <1>21 DEF DeskStep
<1> QED
  BY <1>15, <1>16, <1>17, <1>18, <1>20, <1>21 DEF PipeNext, JobStep, PatchStep

(* Whatever races or fails, a ship goes to YSWS no more often than its       *)
(* approvals were paid for.                                                  *)
THEOREM ReviewsPaid == PipeSpec => []ReviewsArePaidFor
<1>1. PipeInit => PaidInv
  <2> SUFFICES ASSUME PipeInit PROVE PaidInv
    OBVIOUS
  <2>1. Callbacks = {} /\ PaidOnes = {} /\ DOMAIN review = {}
    BY DEF PipeInit, Init, Idle, NoJob, Callbacks, PaidOnes
  <2>2. Count3 = 0
    BY <2>1, FS_EmptySet DEF Count3
  <2>3. \A u \in Users : lifetime[u] = 0
    BY DEF PipeInit, Init
  <2>4. Total(lifetime, Users) = 0
    BY <2>3, FiniteAssumption, TotalZero
  <2>5. Worth
    BY DEF PipeInit, Init, Idle, Worth
  <2> QED
    BY <2>2, <2>4, <2>5, PipeTypeInit DEF PaidInv
<1>2. PaidInv => ReviewsArePaidFor
  <2> SUFFICES ASSUME PaidInv PROVE ReviewsArePaidFor
    OBVIOUS
  <2> DEFINE D == Cardinality(DOMAIN review)
             B == Cardinality(Callbacks)
             A == Cardinality(PaidOnes)
             L == Total(lifetime, Users)
  <2>1. {D, B, A} \subseteq Nat /\ L \in Int /\ D + B + A <= L
    BY Sizes DEF PaidInv, Count3
  <2>2. D + B <= L => ReviewsArePaidFor
    BY DEF ReviewsArePaidFor, Callbacks
  <2> HIDE DEF D, B, A, L
  <2> QED
    BY <2>1, <2>2
<1> QED
  BY <1>1, <1>2, PaidStep, PTL DEF PipeSpec
=============================================================================
