---------------------------- MODULE Certification ----------------------------
(***************************************************************************)
(* The ship certification desk of sw-dash: the ship_certs table, the        *)
(* 30 minute claims, the verdict handler with its cookie credit and its     *)
(* push to Flavortown.                                                      *)
(*                                                                          *)
(* A handler is an async function: between two awaits of the database or    *)
(* of fetch() any other handler may run.  Each request therefore carries    *)
(* its own program counter and the locals it keeps across awaits, and every *)
(* action below runs one handler from an await to the next.  Nothing in     *)
(* the code holds a lock or a transaction over two of these steps.          *)
(***************************************************************************)
EXTENDS Naturals, FiniteSets, Sums

CONSTANTS
  Users,         \* reviewers (users.id)
  Megawrights,   \* reviewers whose role is 'megawright'
  Overriders,    \* reviewers with the certs_override permission
  Certs,         \* rows of ship_certs
  Requests,      \* slots for HTTP requests
  Owner,         \* Owner[r]: the session user a request runs for
  NoUser,        \* SQL NULL in claimerId and reviewerId
  Sent,          \* the verdicts reviewers send ("keep": none)
  Pays,          \* the amounts calc() may come to
  ClaimTimeout,  \* CLAIM_TIMEOUT, in ticks
  Concurrency,   \* bound: requests in progress together
  MaxTime,       \* bound: the last value of the clock
  MaxRequests    \* bound: how many requests may start

ASSUME RolesAssumption == Megawrights \subseteq Overriders /\ Overriders \subseteq Users
ASSUME OwnerAssumption == Owner \in [Requests -> Users]
ASSUME NoUserAssumption == NoUser \notin Users
ASSUME CertsAssumption == Certs # {}
ASSUME FiniteAssumption == IsFiniteSet(Certs) /\ IsFiniteSet(Users) /\ IsFiniteSet(Requests)
ASSUME SentAssumption == Sent \subseteq {"pending", "approved", "rejected", "keep"}
ASSUME PaysAssumption == Pays \subseteq Nat \ {0}
ASSUME TimeAssumption == {ClaimTimeout, MaxTime, MaxRequests, Concurrency} \subseteq Nat

VARIABLES
  cert,      \* [Certs -> Row]
  lifetime,  \* [Users -> Nat]: users.cookiesEarned, paid with cookieBalance
  lost,      \* cookies written to a row whose credit never ran
  ft,        \* [Certs -> ...]: the last verdict Flavortown accepted
  req,       \* [Requests -> Request]
  now,       \* the clock, from 1
  started,   \* how many requests have started
  missed,    \* history: [Requests -> SUBSET Missable]: what others wrote since it looked
  doubled    \* history: users who claimed a ship after a scan that missed their own claim

vars == <<cert, lifetime, lost, ft, req, now, started, missed, doubled>>

------------------------------------------------------------------------------
(* Types.  startedAt = 0 stands for a NULL reviewStartedAt.                  *)

Status == {"pending", "approved", "rejected"}
Verdicts == Status \cup {"keep"}     \* "keep": a PATCH without a verdict
Time == 0 .. MaxTime

Row == [status : Status, claimer : Users \cup {NoUser}, startedAt : Nat,
        reviewer : Users \cup {NoUser}, earned : Nat, synced : BOOLEAN]

Steps == {"idle", "claimRead", "claimWrite", "releaseWrite",
          "decide", "credit", "sync", "mark"}

(* pc, and what the handler remembers: the ship, the instant it began, the   *)
(* verdict, whom it credits, how much, and whether it found no start time.   *)
Request == [pc : Steps, cert : Certs, at : Nat, verdict : Verdicts,
            payee : Users, pay : Nat, stamp : BOOLEAN]

(* What a handler may have missed: a claim or a verdict on its ship, a new    *)
(* reviewer on it, or another claim of its own user.                         *)
Missable == {"claim", "verdict", "keep", "own"}

TypeOK ==
  /\ cert \in [Certs -> Row]
  /\ lifetime \in [Users -> Nat]
  /\ lost \in Nat
  /\ ft \in [Certs -> Status \cup {"never"}]
  /\ req \in [Requests -> Request]
  /\ \A r \in Requests : req[r].pc \in {"credit", "sync", "mark"} =>
       req[r].verdict # "keep"
  /\ now \in Nat
  /\ started \in Nat
  /\ missed \in [Requests -> SUBSET Missable]
  /\ doubled \subseteq Users

(* A claim counts while reviewStartedAt lies within the timeout before t.    *)
Fresh(row, t) ==
  /\ row.claimer # NoUser
  /\ row.startedAt # 0
  /\ row.startedAt + ClaimTimeout > t

Holds(u, c) ==
  cert[c].status = "pending" /\ cert[c].claimer = u /\ Fresh(cert[c], now)

IsDecision(v) == v \in {"approved", "rejected"}

------------------------------------------------------------------------------
NewRow == [status |-> "pending", claimer |-> NoUser, startedAt |-> 0,
           reviewer |-> NoUser, earned |-> 0, synced |-> FALSE]

Idle(r) == [pc |-> "idle", cert |-> CHOOSE c \in Certs : TRUE, at |-> 0,
            verdict |-> "keep", payee |-> Owner[r], pay |-> 0, stamp |-> FALSE]

Init ==
  /\ cert = [c \in Certs |-> NewRow]
  /\ lifetime = [u \in Users |-> 0]
  /\ lost = 0
  /\ ft = [c \in Certs |-> "never"]
  /\ req = [r \in Requests |-> Idle(r)]
  /\ now = 1
  /\ started = 0
  /\ missed = [r \in Requests |-> {}]
  /\ doubled = {}

(* A request arrives: its handler runs up to the await named by q.pc.       *)
Begin(r, q) ==
  /\ req[r].pc = "idle"
  /\ started < MaxRequests
  /\ Cardinality({x \in Requests : req[x].pc # "idle"}) < Concurrency
  /\ started' = started + 1
  /\ req' = [req EXCEPT ![r] = q]

Goto(r, pc) == req' = [req EXCEPT ![r].pc = pc]
Answer(r) == req' = [req EXCEPT ![r] = Idle(r)]

Forgets(r) == missed' = [missed EXCEPT ![r] = {}] /\ UNCHANGED doubled

(* r writes to ship c: handlers under way with it do not look at it again.   *)
Writes(r, c, what) ==
  missed' = [s \in Requests |->
    IF s = r THEN {}
    ELSE IF req[s].pc # "idle" /\ req[s].cert = c THEN missed[s] \cup {what}
    ELSE missed[s]]

(* Claims of the same user that are past their scan miss this one, too.      *)
ClaimsFor(r, u) ==
  missed' = [s \in Requests |->
    IF s = r THEN {}
    ELSE missed[s]
         \cup {w \in {"claim"} : req[s].pc # "idle" /\ req[s].cert = req[r].cert}
         \cup {w \in {"own"} : req[s].pc \in {"claimRead", "claimWrite"} /\ Owner[s] = u}]

------------------------------------------------------------------------------
(* POST /ship_certifications/:id/claim                                       *)

(* Fault: the scan for another claim is left out.                            *)
ClaimScanSkipped(r, c) ==
  /\ Begin(r, [Idle(r) EXCEPT !.pc = "claimRead", !.cert = c, !.at = now])
  /\ UNCHANGED <<cert, lifetime, lost, ft, now, missed, doubled>>

(* The handler takes the time and looks for another live claim of the user. *)
ClaimScan(r, c) ==
  /\ \A d \in Certs \ {c} : ~Holds(Owner[r], d)
  /\ Begin(r, [Idle(r) EXCEPT !.pc = "claimRead", !.cert = c, !.at = now])
  /\ UNCHANGED <<cert, lifetime, lost, ft, now, missed, doubled>>

(* It reads the ship: only a pending ship without a live claim goes on.     *)
ClaimRead(r) ==
  /\ req[r].pc = "claimRead"
  /\ LET row == cert[req[r].cert] IN
       \/ /\ row.status = "pending"
          /\ ~Fresh(row, req[r].at)
          /\ Goto(r, "claimWrite")
          /\ missed' = [missed EXCEPT ![r] = @ \cap {"own"}] /\ UNCHANGED doubled
       \/ /\ row.status # "pending" \/ Fresh(row, req[r].at)
          /\ Answer(r) /\ Forgets(r)
  /\ UNCHANGED <<cert, lifetime, lost, ft, now, started>>

Claimed(row, u, t) == [row EXCEPT !.startedAt = t, !.claimer = u]

(* The update is keyed by the id alone.                                     *)
ClaimWrite(r) ==
  /\ req[r].pc = "claimWrite"
  /\ cert' = [cert EXCEPT ![req[r].cert] = Claimed(@, Owner[r], req[r].at)]
  /\ Answer(r) /\ ClaimsFor(r, Owner[r])
  /\ doubled' = doubled \cup {u \in {Owner[r]} : "own" \in missed[r]}
  /\ UNCHANGED <<lifetime, lost, ft, now, started>>

(* DELETE /ship_certifications/:id/claim                                     *)
ReleaseRead(r, c) ==
  /\ cert[c].claimer = Owner[r] \/ Owner[r] \in Overriders
  /\ Begin(r, [Idle(r) EXCEPT !.pc = "releaseWrite", !.cert = c])
  /\ UNCHANGED <<cert, lifetime, lost, ft, now, missed, doubled>>

ReleaseWrite(r) ==
  /\ req[r].pc = "releaseWrite"
  /\ cert' = [cert EXCEPT ![req[r].cert] = Claimed(@, NoUser, 0)]
  /\ Answer(r) /\ Forgets(r)
  /\ UNCHANGED <<lifetime, lost, ft, now, started>>

------------------------------------------------------------------------------
(* PATCH /ship_certifications/:id                                            *)

(* Fault: nobody asks whose claim the ship is under.                         *)
MayDecideAnyPending(u, row, v) ==
  v = "keep" \/ row.status = "pending" \/ u \in Overriders

(* The guards on a verdict v that the handler evaluates on the row it read. *)
MayDecide(u, row, v) ==
  \/ v = "keep"
  \/ /\ row.status = "pending"
     /\ Fresh(row, now) => row.claimer = u \/ u \in Megawrights
  \/ row.status # "pending" /\ u \in Overriders

(* p = u unless the body names a certifier, which takes certs_override.     *)
VerdictRead(r, c, v, p) ==
  /\ MayDecide(Owner[r], cert[c], v)
  /\ p # Owner[r] \/ v = "keep" => Owner[r] \in Overriders
  /\ \E n \in IF IsDecision(v) THEN Pays ELSE {0} :
       Begin(r, [pc |-> "decide", cert |-> c, at |-> now, verdict |-> v,
                 payee |-> p, pay |-> n, stamp |-> cert[c].startedAt = 0])
  /\ UNCHANGED <<cert, lifetime, lost, ft, now, missed, doubled>>

(* The row the update leaves: it does not look at the row again.            *)
Decided(row, q) ==
  IF q.verdict = "keep"
  THEN [row EXCEPT !.reviewer = q.payee]
  ELSE [row EXCEPT !.status = q.verdict,
                   !.claimer = NoUser,
                   !.reviewer = q.payee,
                   !.startedAt = IF q.stamp THEN q.at ELSE @,
                   !.earned = IF IsDecision(q.verdict) THEN q.pay ELSE @]

(* Fault: the earnings go on the row but the credit is skipped.              *)
VerdictWriteUnpaid(r) ==
  /\ req[r].pc = "decide"
  /\ cert' = [cert EXCEPT ![req[r].cert] = Decided(@, req[r])]
  /\ IF req[r].verdict = "keep" THEN Answer(r) ELSE Goto(r, "sync")
  /\ Writes(r, req[r].cert, IF req[r].verdict = "keep" THEN "keep" ELSE "verdict")
  /\ UNCHANGED <<lifetime, lost, ft, now, started, doubled>>

VerdictWrite(r) ==
  /\ req[r].pc = "decide"
  /\ cert' = [cert EXCEPT ![req[r].cert] = Decided(@, req[r])]
  /\ \/ req[r].verdict = "keep" /\ Answer(r)
     \/ req[r].verdict = "pending" /\ Goto(r, "sync")
     \/ IsDecision(req[r].verdict) /\ Goto(r, "credit")
  /\ Writes(r, req[r].cert, IF req[r].verdict = "keep" THEN "keep" ELSE "verdict")
  /\ UNCHANGED <<lifetime, lost, ft, now, started, doubled>>

(* Fault: the session user is paid, not the certifier the body names.        *)
CreditSelf(r) ==
  /\ req[r].pc = "credit"
  /\ lifetime' = [lifetime EXCEPT ![Owner[r]] = @ + req[r].pay]
  /\ Goto(r, "sync")
  /\ UNCHANGED <<cert, lost, ft, now, started, missed, doubled>>

(* The cookies are a second, separate update.                               *)
Credit(r) ==
  /\ req[r].pc = "credit"
  /\ lifetime' = [lifetime EXCEPT ![req[r].payee] = @ + req[r].pay]
  /\ Goto(r, "sync")
  /\ UNCHANGED <<cert, lost, ft, now, started, missed, doubled>>

(* Flavortown is told the request's own verdict, whatever the row says now. *)
SyncAccepted(r) ==
  /\ req[r].pc = "sync"
  /\ ft' = [ft EXCEPT ![req[r].cert] = req[r].verdict]
  /\ Goto(r, "mark")
  /\ UNCHANGED <<cert, lifetime, lost, now, started, missed, doubled>>

(* The call, or the update after it, fails; the handler logs it and goes    *)
(* on.  Flavortown may have acted all the same.                             *)
SyncFailed(r) ==
  /\ req[r].pc \in {"sync", "mark"}
  /\ \/ UNCHANGED ft
     \/ req[r].pc = "sync" /\ ft' = [ft EXCEPT ![req[r].cert] = req[r].verdict]
  /\ Answer(r) /\ Forgets(r)
  /\ UNCHANGED <<cert, lifetime, lost, now, started>>

Mark(r) ==
  /\ req[r].pc = "mark"
  /\ cert' = [cert EXCEPT ![req[r].cert] = [@ EXCEPT !.synced = TRUE]]
  /\ Answer(r) /\ Forgets(r)
  /\ UNCHANGED <<lifetime, lost, ft, now, started>>

------------------------------------------------------------------------------
(* An await throws, or the process dies: what was written stays written.    *)
Abort(r) ==
  /\ req[r].pc # "idle"
  /\ lost' = IF req[r].pc = "credit" THEN lost + req[r].pay ELSE lost
  /\ Answer(r) /\ Forgets(r)
  /\ UNCHANGED <<cert, lifetime, ft, now, started>>

Tick ==
  /\ now < MaxTime
  /\ now' = now + 1
  /\ UNCHANGED <<cert, lifetime, lost, ft, req, started, missed, doubled>>

Arrive(r) ==
  \E c \in Certs :
    \/ ClaimScan(r, c)
    \/ ReleaseRead(r, c)
    \/ \E v \in Sent, p \in Users : VerdictRead(r, c, v, p)

(* The handler goes on to its next await, or comes to its end.               *)
GoesOn(r) ==
  \/ ClaimRead(r)
  \/ ClaimWrite(r)
  \/ ReleaseWrite(r)
  \/ VerdictWrite(r)
  \/ Credit(r)
  \/ SyncAccepted(r)

Ends(r) == SyncFailed(r) \/ Mark(r)

Continue(r) == GoesOn(r) \/ Ends(r)

Next ==
  \/ \E r \in Requests : Arrive(r) \/ Continue(r) \/ Abort(r)
  \/ Tick

Spec == Init /\ [][Next]_vars

------------------------------------------------------------------------------
(* Properties                                                                *)

(* A reviewer never holds two live claims, until a claim of his is written    *)
(* that missed another: the handler scans for one two awaits before its      *)
(* write and looks no more (claim/route.ts:77-95, 141-144).                    *)
OneClaimPerUser ==
  \A u \in Users \ doubled : \A c, d \in Certs : Holds(u, c) /\ Holds(u, d) => c = d

Owes(r) == IF req[r].pc = "credit" THEN req[r].pay ELSE 0

(* The cookies the ship rows show as earned are covered: paid to somebody,  *)
(* about to be paid by a handler in progress, or lost by one that failed    *)
(* between its two updates ([id]/route.ts:307-336).                         *)
CookiesBackRows ==
  Total([c \in Certs |-> cert[c].earned], Certs)
    <= lost + Total(lifetime, Users) + Total([r \in Requests |-> Owes(r)], Requests)

(* A decided ship is decided again only with certs_override ("nah, u cant   *)
(* override decisions", [id]/route.ts:208-212).                             *)
OnlyOverridersRedecide ==
  [][\A r \in Requests :
       VerdictWrite(r) /\ cert[req[r].cert].status # "pending" =>
         Owner[r] \in Overriders]_vars

(* What a handler pays, to whom, and what it tells Flavortown is what the   *)
(* row shows at that moment, but for what others wrote on the ship after     *)
(* this handler's own write: it uses the request's values and does not look  *)
(* at the row again ([id]/route.ts:327-336, 440-449).                         *)
EffectsMatchRow ==
  [][\A r \in Requests : LET row == cert[req[r].cert] IN
       /\ Credit(r) /\ {"verdict", "keep"} \cap missed[r] = {} =>
            lifetime' = [lifetime EXCEPT ![row.reviewer] = @ + row.earned]
       /\ SyncAccepted(r) /\ "verdict" \notin missed[r] => row.status = ft'[req[r].cert]]_vars

(* The desk implements Docket: the claim a ship is under is the live one.   *)
HolderOf(c) ==
  IF cert[c].status = "pending" /\ Fresh(cert[c], now)
  THEN cert[c].claimer ELSE NoUser

Desk == INSTANCE Docket WITH
  status <- [c \in Certs |-> cert[c].status],
  holder <- [c \in Certs |-> HolderOf(c)]

(* A handler is late if what it read, and is about to rely on, is no longer   *)
(* so: a claim missed another claim of its user or of its ship, a release or *)
(* a verdict missed a claim, a verdict missed another one.                    *)
Late(r) ==
  \/ req[r].pc = "claimWrite" /\ {"own", "claim"} \cap missed[r] # {}
  \/ req[r].pc = "releaseWrite" /\ "claim" \in missed[r] /\ Owner[r] \notin Overriders
  \/ /\ req[r].pc = "decide"
     /\ \/ "claim" \in missed[r] /\ Owner[r] \notin Megawrights
        \/ "verdict" \in missed[r] /\ Owner[r] \notin Overriders

LateWrite(r) == Late(r) /\ (ClaimWrite(r) \/ ReleaseWrite(r) \/ VerdictWrite(r))

(* Every step of the desk, however its handlers interleave, is one of the    *)
(* docket or invisible to it, but for the write of a handler that is late.   *)
ImplementsDocket ==
  /\ Desk!DocketInit
  /\ [][Desk!DocketNext \/ \E r \in Requests : LateWrite(r)]_(Desk!docketVars)

(* ... and each handler that is not late acts in its own user's name: a       *)
(* claim, a release or a verdict is one the session user may make when it is *)
(* written, or it changes nothing (claim/route.ts:97-145, 185-199,            *)
(* [id]/route.ts:208-230).                                                    *)
ActsForItsUser ==
  [][\A r \in Requests : LET c == req[r].cert
                             u == Owner[r]
                             idle == UNCHANGED Desk!docketVars IN
       ~Late(r) =>
         /\ ClaimWrite(r) => Desk!Take(u, c) \/ idle
         /\ ReleaseWrite(r) => Desk!GiveBack(u, c) \/ idle
         /\ VerdictWrite(r) /\ req[r].verdict # "keep" =>
              Desk!Decide(u, c, req[r].verdict)]_vars
=============================================================================
