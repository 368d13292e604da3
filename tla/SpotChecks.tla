----------------------------- MODULE SpotChecks -----------------------------
(***************************************************************************)
(* Spot checks of decided ships (spot_checks/actions/route.ts): a rejection  *)
(* opens a case and may take the ship off its reviewer's leaderboard; cases  *)
(* are resolved, opened again or declared false positives                    *)
(* (spot_checks/case/[caseId]/route.ts), which puts the ship back.           *)
(***************************************************************************)
EXTENDS Naturals, FiniteSets

CONSTANTS
  Certs,
  CaseIds,   \* the ids that may be drawn
  Checkers   \* slots for requests on cases

VARIABLES
  spot,     \* [Certs -> ...]: spotChecked, spotPassed, spotRemoved
  cases,    \* the rows of spot_checks
  checker   \* [Checkers -> ...]: PATCH or PUT in progress

spotVars == <<spot, cases, checker>>

Case == [id : CaseIds, cert : Certs, decision : {"rejected", "approved"},
         status : {"unresolved", "resolved", "false_positive"},
         lbRemoved : BOOLEAN, fpReason : BOOLEAN]
AtDesk == [pc |-> "idle"]

SpotTypeOK ==
  /\ spot \in [Certs -> [checked : BOOLEAN, passed : BOOLEAN, removed : BOOLEAN]]
  /\ cases \subseteq Case
  /\ \A c, d \in cases : c.id = d.id => c = d
  /\ checker \in [Checkers -> {AtDesk} \cup
       [pc : {"toggle"}, id : CaseIds, to : {"unresolved", "resolved"}] \cup
       [pc : {"fp"}, id : CaseIds]]

SpotInit ==
  /\ spot = [c \in Certs |-> [checked |-> FALSE, passed |-> FALSE, removed |-> FALSE]]
  /\ cases = {}
  /\ checker = [h \in Checkers |-> AtDesk]

NewCase(id, cert, decision, keepLb) ==
  [id |-> id, cert |-> cert, decision |-> decision,
   status |-> IF decision = "rejected" THEN "unresolved" ELSE "resolved",
   lbRemoved |-> decision = "rejected" /\ ~keepLb, fpReason |-> FALSE]

(* One transaction; it fails if the id drawn is taken.                      *)
Decide(id, cert, decision, keepLb) ==
  /\ \A c \in cases : c.id # id
  /\ cases' = cases \cup {NewCase(id, cert, decision, keepLb)}
  /\ spot' = [spot EXCEPT ![cert] = [checked |-> TRUE, passed |-> decision # "rejected",
                                     removed |-> decision = "rejected" /\ ~keepLb]]
  /\ UNCHANGED checker

(* PATCH: whatever is not resolved becomes resolved, false positives too.    *)
ToggleRead(h, c) ==
  /\ checker[h].pc = "idle"
  /\ checker' = [checker EXCEPT ![h] =
       [pc |-> "toggle", id |-> c.id,
        to |-> IF c.status = "resolved" THEN "unresolved" ELSE "resolved"]]
  /\ UNCHANGED <<spot, cases>>

(* The case gets a status, and a reason why it is a false positive if one is *)
(* given.                                                                    *)
WithStatus(id, status, reason) ==
  {IF c.id = id THEN [c EXCEPT !.status = status, !.fpReason = @ \/ reason] ELSE c : c \in cases}

ToggleWrite(h) ==
  /\ checker[h].pc = "toggle"
  /\ cases' = WithStatus(checker[h].id, checker[h].to, FALSE)
  /\ checker' = [checker EXCEPT ![h] = AtDesk]
  /\ UNCHANGED spot

(* PUT: a false positive, of a case that took the ship off.                 *)
FalsePositiveRead(h, c) ==
  /\ checker[h].pc = "idle" /\ c.lbRemoved
  /\ checker' = [checker EXCEPT ![h] = [pc |-> "fp", id |-> c.id]]
  /\ UNCHANGED <<spot, cases>>

Declared(id) == WithStatus(id, "false_positive", TRUE)

(* Fault: the ship stays off the leaderboard.                                *)
FalsePositiveKeeps(h) ==
  /\ checker[h].pc = "fp"
  /\ cases' = Declared(checker[h].id)
  /\ checker' = [checker EXCEPT ![h] = AtDesk]
  /\ UNCHANGED spot

FalsePositiveWrite(h) ==
  /\ checker[h].pc = "fp"
  /\ cases' = Declared(checker[h].id)
  /\ spot' = [cert \in Certs |->
       IF \E c \in cases : c.id = checker[h].id /\ c.cert = cert
         THEN [spot[cert] EXCEPT !.removed = FALSE] ELSE spot[cert]]
  /\ checker' = [checker EXCEPT ![h] = AtDesk]

CaseFails(h) ==
  /\ checker[h].pc # "idle"
  /\ checker' = [checker EXCEPT ![h] = AtDesk]
  /\ UNCHANGED <<spot, cases>>

SpotNext ==
  \/ \E id \in CaseIds, cert \in Certs, keepLb \in BOOLEAN,
        decision \in {"rejected", "approved"} : Decide(id, cert, decision, keepLb)
  \/ \E h \in Checkers :
       \/ \E c \in cases : ToggleRead(h, c) \/ FalsePositiveRead(h, c)
       \/ ToggleWrite(h) \/ FalsePositiveWrite(h) \/ CaseFails(h)

SpotSpec == SpotInit /\ [][SpotNext]_spotVars

------------------------------------------------------------------------------
(* Properties                                                                *)

Standing(cert) == {c \in cases : c.cert = cert /\ c.lbRemoved /\ ~c.fpReason}

(* A ship is off the leaderboard only while a case says why and was not      *)
(* declared a false positive; and while it has but one case, that case says  *)
(* truly whether it is off, in whatever order cases are toggled and declared *)
(* (case/[caseId]/route.ts:51-125, certs.ts:128).                            *)
RemovedHasCase ==
  \A cert \in Certs :
    /\ spot[cert].removed => Standing(cert) # {}
    /\ (\A c, d \in cases : c.cert = cert /\ d.cert = cert => c = d) /\ Standing(cert) # {} =>
         spot[cert].removed
=============================================================================
