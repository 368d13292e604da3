---------------------------- MODULE ReviewerProofs ----------------------------
(*****************************************************************************)
(* Proofs about the machines of the dashboard that keep what reviewers did   *)
(* and show it.  Spot checks, for any ships, case ids and number of          *)
(* requests; streaks, for any quota, calendar and number of verdicts in      *)
(* progress; the row of a YSWS review, for any devlogs and sequence of       *)
(* requests; and the pages that show notes, ship certs, payouts, reviews and *)
(* lists, one by one and together.                                           *)
(*****************************************************************************)
EXTENDS MCParts, SumsProofs, SequenceTheorems

------------------------------------------------------------------------------
(* The cases.                                                                *)
SpotInv == SpotTypeOK /\ RemovedHasCase

------------------------------------------------------------------------------
LEMMA SpotTypeInit == SpotInit => SpotTypeOK
<1> SUFFICES ASSUME SpotInit PROVE SpotTypeOK
  OBVIOUS
<1>1. spot \in [Certs -> [checked : BOOLEAN, passed : BOOLEAN, removed : BOOLEAN]]
  BY DEF SpotInit
<1> QED
  BY <1>1 DEF SpotInit, SpotTypeOK

(* A case gets its new status; nothing else of it changes but the reason.    *)
Restated(c, id, st, reason) ==
  IF c.id = id THEN [c EXCEPT !.status = st, !.fpReason = @ \/ reason] ELSE c

LEMMA RestatedCase ==
  ASSUME NEW c \in Case, NEW id \in CaseIds, NEW reason \in BOOLEAN,
         NEW st \in {"unresolved", "resolved", "false_positive"}
  PROVE  LET d == Restated(c, id, st, reason) IN
         /\ d \in Case /\ d.id = c.id /\ d.cert = c.cert /\ (d.lbRemoved <=> c.lbRemoved)
         /\ (d.fpReason <=> c.fpReason \/ (c.id = id /\ reason))
BY DEF Restated, Case

LEMMA RestatedCases ==
  ASSUME SpotTypeOK, NEW id \in CaseIds, NEW reason \in BOOLEAN,
         NEW st \in {"unresolved", "resolved", "false_positive"},
         cases' = WithStatus(id, st, reason)
  PROVE  /\ cases' = {Restated(c, id, st, reason) : c \in cases}
         /\ cases' \subseteq Case
         /\ \A c, d \in cases' : c.id = d.id => c = d
         /\ \A d \in cases' : \E c \in cases :
              /\ d = Restated(c, id, st, reason)
              /\ d.id = c.id /\ d.cert = c.cert /\ (d.lbRemoved <=> c.lbRemoved)
              /\ (d.fpReason <=> c.fpReason \/ (c.id = id /\ reason))
         /\ \A c \in cases : \E d \in cases' :
              /\ d = Restated(c, id, st, reason)
              /\ d.id = c.id /\ d.cert = c.cert /\ (d.lbRemoved <=> c.lbRemoved)
              /\ (d.fpReason <=> c.fpReason \/ (c.id = id /\ reason))
<1>1. cases' = {Restated(c, id, st, reason) : c \in cases}
  BY DEF WithStatus, Restated
<1>2. \A c \in cases : LET d == Restated(c, id, st, reason) IN
         /\ d \in Case /\ d.id = c.id /\ d.cert = c.cert /\ (d.lbRemoved <=> c.lbRemoved)
         /\ (d.fpReason <=> c.fpReason \/ (c.id = id /\ reason))
  BY RestatedCase DEF SpotTypeOK
<1> QED
  BY <1>1, <1>2 DEF SpotTypeOK

LEMMA NoneIsLost ==
  ASSUME SpotTypeOK, NEW id \in CaseIds, cases' = WithStatus(id, "false_positive", TRUE)
  PROVE  \A c \in cases : \E d \in cases' : d.id = c.id /\ d.cert = c.cert
<1> SUFFICES ASSUME NEW c \in cases PROVE \E d \in cases' : d.id = c.id /\ d.cert = c.cert
  OBVIOUS
<1>1. LET d == Restated(c, id, "false_positive", TRUE) IN
        d \in cases' /\ d.id = c.id /\ d.cert = c.cert
  BY DEF Restated, WithStatus, SpotTypeOK, Case
<1> QED
  BY <1>1

(* A new status without a reason leaves the standing cases standing, and one *)
(* with a reason takes the case it is given to.                              *)
LEMMA StandingRestated ==
  ASSUME SpotTypeOK, NEW id \in CaseIds, NEW reason \in BOOLEAN,
         NEW st \in {"unresolved", "resolved", "false_positive"},
         cases' = WithStatus(id, st, reason), NEW cert
  PROVE  /\ (~reason \/ \A c \in cases : c.cert = cert => c.id # id) =>
              (Standing(cert)' # {} <=> Standing(cert) # {})
         /\ (\A c, d \in cases' : c.cert = cert /\ d.cert = cert => c = d) =>
              (\A c, d \in cases : c.cert = cert /\ d.cert = cert => c = d)
         /\ reason => \A d \in Standing(cert)' : d.id # id
<1>1. /\ \A d \in cases' : \E c \in cases :
              /\ d = Restated(c, id, st, reason)
              /\ d.id = c.id /\ d.cert = c.cert /\ (d.lbRemoved <=> c.lbRemoved)
              /\ (d.fpReason <=> c.fpReason \/ (c.id = id /\ reason))
      /\ \A c \in cases : \E d \in cases' :
              /\ d = Restated(c, id, st, reason)
              /\ d.id = c.id /\ d.cert = c.cert /\ (d.lbRemoved <=> c.lbRemoved)
              /\ (d.fpReason <=> c.fpReason \/ (c.id = id /\ reason))
  BY RestatedCases
<1>2. (~reason \/ \A c \in cases : c.cert = cert => c.id # id) =>
        (Standing(cert)' # {} <=> Standing(cert) # {})
  BY <1>1 DEF Standing
<1>3. (\A c, d \in cases' : c.cert = cert /\ d.cert = cert => c = d) =>
        (\A c, d \in cases : c.cert = cert /\ d.cert = cert => c = d)
  <2> SUFFICES ASSUME \A c, d \in cases' : c.cert = cert /\ d.cert = cert => c = d,
                      NEW c \in cases, NEW d \in cases, c.cert = cert, d.cert = cert
               PROVE  c = d
    OBVIOUS
  <2>1. PICK e \in cases' : e.id = c.id /\ e.cert = cert
    BY <1>1
  <2>2. PICK f \in cases' : f.id = d.id /\ f.cert = cert
    BY <1>1
  <2>3. e = f
    BY <2>1, <2>2
  <2> QED
    BY <2>1, <2>2, <2>3 DEF SpotTypeOK
<1>4. reason => \A d \in Standing(cert)' : d.id # id
  BY <1>1 DEF Standing
<1> QED
  BY <1>2, <1>3, <1>4

LEMMA NewCaseType ==
  ASSUME NEW id \in CaseIds, NEW cert \in Certs, NEW keepLb \in BOOLEAN,
         NEW decision \in {"rejected", "approved"}
  PROVE  LET c == NewCase(id, cert, decision, keepLb) IN
         /\ c \in Case /\ c.id = id /\ c.cert = cert /\ ~c.fpReason
         /\ (c.lbRemoved <=> decision = "rejected" /\ ~keepLb)
BY DEF NewCase, Case

LEMMA DecideKeeps ==
  ASSUME SpotInv, NEW id \in CaseIds, NEW cert \in Certs, NEW keepLb \in BOOLEAN,
         NEW decision \in {"rejected", "approved"}, Decide(id, cert, decision, keepLb)
  PROVE  SpotInv'
<1> DEFINE new == NewCase(id, cert, decision, keepLb)
           off == decision = "rejected" /\ ~keepLb
<1>0. SpotTypeOK /\ RemovedHasCase
  BY DEF SpotInv
<1>1. /\ new \in Case /\ new.id = id /\ new.cert = cert /\ ~new.fpReason
      /\ (new.lbRemoved <=> off)
  BY NewCaseType
<1>2. /\ cases' = cases \cup {new} /\ checker' = checker
      /\ \A c \in cases : c.id # id
      /\ spot' = [spot EXCEPT ![cert] = [checked |-> TRUE, passed |-> decision # "rejected",
                                         removed |-> off]]
  BY DEF Decide
<1> HIDE DEF new
<1>3. spot' \in [Certs -> [checked : BOOLEAN, passed : BOOLEAN, removed : BOOLEAN]]
  BY <1>0, <1>2 DEF SpotTypeOK
<1>4. cases' \subseteq Case /\ \A c, d \in cases' : c.id = d.id => c = d
  BY <1>0, <1>1, <1>2 DEF SpotTypeOK
<1>5. SpotTypeOK'
  BY <1>0, <1>2, <1>3, <1>4 DEF SpotTypeOK
<1>6. (spot'[cert].removed <=> off) /\ \A q \in Certs : q # cert => spot'[q] = spot[q]
  BY <1>0, <1>2 DEF SpotTypeOK
<1>7. ASSUME NEW q \in Certs, q # cert
      PROVE  /\ spot'[q].removed => Standing(q)' # {}
             /\ (\A c, d \in cases' : c.cert = q /\ d.cert = q => c = d) /\ Standing(q)' # {} =>
                  spot'[q].removed
  <2>1. Standing(q)' = Standing(q)
    BY <1>1, <1>2, <1>7 DEF Standing
  <2>2. \A c \in cases : c \in cases'
    BY <1>2
  <2> QED
    BY <1>0, <1>6, <1>7, <2>1, <2>2 DEF RemovedHasCase
<1>8. /\ spot'[cert].removed => Standing(cert)' # {}
      /\ (\A c, d \in cases' : c.cert = cert /\ d.cert = cert => c = d) /\ Standing(cert)' # {} =>
           spot'[cert].removed
  <2>1. off => new \in Standing(cert)'
    BY <1>1, <1>2 DEF Standing
  <2>2. (\A c, d \in cases' : c.cert = cert /\ d.cert = cert => c = d) =>
          Standing(cert)' \subseteq {new}
    BY <1>1, <1>2 DEF Standing
  <2>3. new \in Standing(cert)' => off
    BY <1>1 DEF Standing
  <2> QED
    BY <1>6, <2>1, <2>2, <2>3
<1> QED
  BY <1>5, <1>7, <1>8 DEF SpotInv, RemovedHasCase

LEMMA SpotStep == SpotInv /\ [SpotNext]_spotVars => SpotInv'
<1> SUFFICES ASSUME SpotInv, [SpotNext]_spotVars PROVE SpotInv'
  OBVIOUS
<1>0. SpotTypeOK /\ RemovedHasCase
  BY DEF SpotInv
<1>1. ASSUME NEW h \in Checkers, ToggleWrite(h) PROVE SpotInv'
  <2>1. checker[h].id \in CaseIds /\ checker[h].to \in {"unresolved", "resolved"}
    BY <1>0, <1>1 DEF ToggleWrite, SpotTypeOK, AtDesk
  <2>2. cases' = WithStatus(checker[h].id, checker[h].to, FALSE) /\ spot' = spot
    BY <1>1 DEF ToggleWrite
  <2>3. cases' \subseteq Case /\ \A c, d \in cases' : c.id = d.id => c = d
    BY <1>0, <2>1, <2>2, RestatedCases
  <2>4. SpotTypeOK'
    BY <1>0, <1>1, <2>2, <2>3 DEF ToggleWrite, SpotTypeOK
  <2>5. ASSUME NEW cert \in Certs
        PROVE  /\ spot'[cert].removed => Standing(cert)' # {}
               /\ (\A c, d \in cases' : c.cert = cert /\ d.cert = cert => c = d) /\ Standing(cert)' # {} =>
                    spot'[cert].removed
    <3>1. /\ Standing(cert)' # {} <=> Standing(cert) # {}
          /\ (\A c, d \in cases' : c.cert = cert /\ d.cert = cert => c = d) =>
               (\A c, d \in cases : c.cert = cert /\ d.cert = cert => c = d)
      BY <1>0, <2>1, <2>2, StandingRestated
    <3> QED
      BY <1>0, <2>2, <3>1 DEF RemovedHasCase
  <2> QED
    BY <2>4, <2>5 DEF SpotInv, RemovedHasCase
<1>2. ASSUME NEW h \in Checkers, FalsePositiveWrite(h) PROVE SpotInv'
  <2> DEFINE id == checker[h].id
             ItsCase(cert) == \E c \in cases : c.id = id /\ c.cert = cert
  <2>1. id \in CaseIds
    BY <1>0, <1>2 DEF FalsePositiveWrite, SpotTypeOK, AtDesk
  <2>2. /\ cases' = WithStatus(id, "false_positive", TRUE)
        /\ spot' = [cert \in Certs |-> IF ItsCase(cert) THEN [spot[cert] EXCEPT !.removed = FALSE]
                                       ELSE spot[cert]]
    BY <1>2 DEF FalsePositiveWrite, Declared
  <2>2a. cases' = WithStatus(id, "false_positive", TRUE)
    BY <2>2
  <2>3. cases' \subseteq Case /\ \A c, d \in cases' : c.id = d.id => c = d
    BY <1>0, <2>1, <2>2a, RestatedCases
  <2>4. spot' \in [Certs -> [checked : BOOLEAN, passed : BOOLEAN, removed : BOOLEAN]]
    <3> HIDE DEF ItsCase
    <3>1. \A cert \in Certs : [spot[cert] EXCEPT !.removed = FALSE] \in
             [checked : BOOLEAN, passed : BOOLEAN, removed : BOOLEAN]
      BY <1>0 DEF SpotTypeOK
    <3> QED
      BY <1>0, <2>2, <3>1 DEF SpotTypeOK
  <2>5. SpotTypeOK'
    BY <1>0, <1>2, <2>3, <2>4 DEF FalsePositiveWrite, SpotTypeOK
  <2>6. ASSUME NEW cert \in Certs
        PROVE  /\ spot'[cert].removed => Standing(cert)' # {}
               /\ (\A c, d \in cases' : c.cert = cert /\ d.cert = cert => c = d) /\ Standing(cert)' # {} =>
                    spot'[cert].removed
    <3>1. /\ (\A c \in cases : c.cert = cert => c.id # id) =>
               (Standing(cert)' # {} <=> Standing(cert) # {})
          /\ (\A c, d \in cases' : c.cert = cert /\ d.cert = cert => c = d) =>
               (\A c, d \in cases : c.cert = cert /\ d.cert = cert => c = d)
          /\ \A d \in Standing(cert)' : d.id # id
      BY <1>0, <2>1, <2>2, StandingRestated
    <3>2. CASE ItsCase(cert)
      <4>1. spot'[cert].removed = FALSE
        BY <1>0, <2>2, <3>2 DEF SpotTypeOK
      <4>2. \E d \in cases' : d.id = id /\ d.cert = cert
        <5>1. PICK c \in cases : c.id = id /\ c.cert = cert
          BY <3>2
        <5>2. \A e \in cases : \E d \in cases' : d.id = e.id /\ d.cert = e.cert
          BY <1>0, <2>1, <2>2a, NoneIsLost
        <5> QED
          BY <5>1, <5>2
      <4>3. (\A c, d \in cases' : c.cert = cert /\ d.cert = cert => c = d) => Standing(cert)' = {}
        BY <3>1, <4>2 DEF Standing
      <4> QED
        BY <4>1, <4>3
    <3>3. CASE ~ItsCase(cert)
      <4>1. spot'[cert] = spot[cert]
        BY <2>2, <3>3
      <4> QED
        BY <1>0, <3>1, <3>3, <4>1 DEF RemovedHasCase
    <3> QED
      BY <3>2, <3>3
  <2> QED
    BY <2>5, <2>6 DEF SpotInv, RemovedHasCase
<1>3. ASSUME NEW h \in Checkers, NEW c \in cases, ToggleRead(h, c) PROVE SpotInv'
  <2>1. c.id \in CaseIds
    BY <1>0 DEF SpotTypeOK, Case
  <2>2. SpotTypeOK'
    BY <1>0, <1>3, <2>1 DEF ToggleRead, SpotTypeOK
  <2> QED
    BY <1>0, <1>3, <2>2 DEF ToggleRead, SpotInv, RemovedHasCase, Standing
<1>4. ASSUME NEW h \in Checkers, NEW c \in cases, FalsePositiveRead(h, c) PROVE SpotInv'
  <2>1. c.id \in CaseIds
    BY <1>0 DEF SpotTypeOK, Case
  <2>2. SpotTypeOK'
    BY <1>0, <1>4, <2>1 DEF FalsePositiveRead, SpotTypeOK
  <2> QED
    BY <1>0, <1>4, <2>2 DEF FalsePositiveRead, SpotInv, RemovedHasCase, Standing
<1>5. ASSUME NEW h \in Checkers, CaseFails(h) PROVE SpotInv'
  <2>1. SpotTypeOK'
    BY <1>0, <1>5 DEF CaseFails, SpotTypeOK
  <2> QED
    BY <1>0, <1>5, <2>1 DEF CaseFails, SpotInv, RemovedHasCase, Standing
<1>6. ASSUME UNCHANGED spotVars PROVE SpotInv'
  BY <1>0, <1>6 DEF spotVars, SpotInv, SpotTypeOK, RemovedHasCase, Standing
<1> QED
  BY <1>1, <1>2, <1>3, <1>4, <1>5, <1>6, DecideKeeps DEF SpotNext

(* Ships, cases and requests keep their types, and no two cases share an id.  *)
THEOREM SpotTypes == SpotSpec => []SpotTypeOK
<1>1. SpotInit => SpotInv
  BY SpotTypeInit DEF SpotInit, SpotInv, RemovedHasCase, Standing
<1>2. SpotInv => SpotTypeOK
  BY DEF SpotInv
<1> QED
  BY <1>1, <1>2, SpotStep, PTL DEF SpotSpec

(* For any ships, ids drawn, cases and requests on cases: a ship is off the  *)
(* leaderboard only while a case says why, and a ship's one case says truly   *)
(* whether it is off (actions/route.ts:53-114, case/[caseId]/route.ts).       *)
THEOREM OffTheBoardForCause == SpotSpec => []RemovedHasCase
<1>1. SpotInit => SpotInv
  BY SpotTypeInit DEF SpotInit, SpotInv, RemovedHasCase, Standing
<1>2. SpotInv => RemovedHasCase
  BY DEF SpotInv
<1> QED
  BY <1>1, <1>2, SpotStep, PTL DEF SpotSpec

------------------------------------------------------------------------------
(* Streaks                                                                   *)

USE StreakAssumption

AtWork(h) == verdict[h].pc \in {"count", "read", "write"}

(* Nothing is completed tomorrow, and every day with the quota is on record.  *)
Calendar ==
  /\ \A d \in Days : d > today => reviews[d] = 0
  /\ \A d \in Days : reviews[d] >= Quota => d \in reached

(* A handler that noted its day knows of no later review; once it counted    *)
(* enough, its day is on record; the streak it read was earned.              *)
VerdictsHold ==
  ~straddled => \A h \in Verdicts :
    /\ AtWork(h) => /\ verdict[h].day \in Days
                    /\ \A d \in Days : d > verdict[h].day => reviews[d] = 0
    /\ verdict[h].pc \in {"read", "write"} => verdict[h].day \in reached
    /\ verdict[h].pc = "write" =>
         \A i \in 0 .. verdict[h].streak - 1 : verdict[h].last - i \in reached

StreakInv == StreakTypeOK /\ Calendar /\ VerdictsHold /\ StreakIsEarned

------------------------------------------------------------------------------
LEMMA DaysAreNat == Days \subseteq Nat /\ Days \subseteq Int
BY DEF Days

LEMMA RestType == AtRest \in Progress
BY DEF AtRest, Progress

LEMMA StreakTypeInit == StreakInit => StreakTypeOK
<1> SUFFICES ASSUME StreakInit PROVE StreakTypeOK
  OBVIOUS
<1>1. today \in Days
  BY DEF StreakInit, Days
<1>2. straddled \in BOOLEAN
  BY DEF StreakInit
<1> QED
  BY <1>1, <1>2, RestType DEF StreakInit, StreakTypeOK

LEMMA StreakTypeStep == StreakTypeOK /\ [StreakNext]_streakVars => StreakTypeOK'
<1> SUFFICES ASSUME StreakTypeOK, [StreakNext]_streakVars PROVE StreakTypeOK'
  OBVIOUS
<1> USE DaysAreNat, RestType DEF StreakTypeOK
<1>1. ASSUME NEW h \in Verdicts, NEW d \in Days, Complete(h, d) PROVE StreakTypeOK'
  <2>1. verdict' \in [Verdicts -> Progress]
    BY <1>1 DEF Complete, Progress
  <2>2. straddled' \in BOOLEAN
    BY <1>1 DEF Complete
  <2>3. reviews' \in [Days -> Nat] /\ reached' \subseteq Days
    BY <1>1 DEF Complete
  <2> QED
    BY <1>1, <2>1, <2>2, <2>3 DEF Complete
<1>2. ASSUME NEW h \in Verdicts, NoteDay(h) PROVE StreakTypeOK'
  <2>1. verdict' \in [Verdicts -> Progress]
    BY <1>2 DEF NoteDay, Progress
  <2> QED
    BY <1>2, <2>1 DEF NoteDay
<1>3. ASSUME NEW h \in Verdicts, CountDay(h) PROVE StreakTypeOK'
  <2>1. verdict' \in [Verdicts -> Progress]
    BY <1>3 DEF CountDay, Progress
  <2> QED
    BY <1>3, <2>1 DEF CountDay
<1>4. ASSUME NEW h \in Verdicts, ReadStreak(h) PROVE StreakTypeOK'
  <2>1. verdict' \in [Verdicts -> Progress]
    <3>1. [verdict[h] EXCEPT !.pc = "write", !.streak = streak, !.last = last] \in Progress
      BY DEF Progress
    <3>2. verdict' = [verdict EXCEPT ![h] =
             [verdict[h] EXCEPT !.pc = "write", !.streak = streak, !.last = last]]
      BY <1>4 DEF ReadStreak
    <3> QED
      BY <3>1, <3>2
  <2> QED
    BY <1>4, <2>1 DEF ReadStreak
<1>5. ASSUME NEW h \in Verdicts, WriteStreak(h) PROVE StreakTypeOK'
  <2>1. verdict[h] \in Progress
    OBVIOUS
  <2>2. streak' \in Nat /\ last' \in Nat
    BY <1>5, <2>1 DEF WriteStreak, NextStreak, Progress
  <2> QED
    BY <1>5, <2>2 DEF WriteStreak
<1>6. ASSUME NEW h \in Verdicts, Fails(h) PROVE StreakTypeOK'
  BY <1>6 DEF Fails
<1>7. ASSUME NEW d \in Days, TakenOver(d) PROVE StreakTypeOK'
  <2>1. reviews' \in [Days -> Nat]
    BY <1>7 DEF TakenOver
  <2> QED
    BY <1>7, <2>1 DEF TakenOver
<1>8. ASSUME Midnight PROVE StreakTypeOK'
  BY <1>8 DEF Midnight, Days
<1>9. ASSUME UNCHANGED streakVars PROVE StreakTypeOK'
  BY <1>9 DEF streakVars
<1> QED
  BY <1>1, <1>2, <1>3, <1>4, <1>5, <1>6, <1>7, <1>8, <1>9 DEF StreakNext

(* The streak a handler writes extends the one it read, or starts again.     *)
LEMMA WrittenIsEarned ==
  ASSUME StreakTypeOK, VerdictsHold, StreakIsEarned, ~straddled,
         NEW h \in Verdicts, WriteStreak(h)
  PROVE  \A i \in 0 .. streak' - 1 : last' - i \in reached
<1> DEFINE v == verdict[h]
<1>1. v \in Progress /\ streak \in Nat /\ last \in Nat
  BY DEF StreakTypeOK
<1>2. v.pc = "write" /\ v.day \in Nat /\ v.streak \in Nat /\ v.last \in Nat
  BY <1>1 DEF WriteStreak, Progress
<1>3. v.day \in reached /\ \A i \in 0 .. v.streak - 1 : v.last - i \in reached
  BY <1>2 DEF VerdictsHold
<1>4. CASE v.last >= v.day
  BY <1>2, <1>4 DEF WriteStreak, StreakIsEarned
<1>5. CASE v.last < v.day
  <2>1. last' = v.day /\ streak' = NextStreak(v)
    BY <1>5 DEF WriteStreak
  <2>2. CASE v.last = v.day - 1
    <3>1. streak' = v.streak + 1
      BY <2>1, <2>2 DEF NextStreak
    <3> SUFFICES ASSUME NEW i \in 0 .. v.streak PROVE v.day - i \in reached
      BY <1>2, <2>1, <3>1
    <3>2. CASE i = 0
      BY <1>2, <1>3, <3>2
    <3>3. CASE i # 0
      <4>1. i - 1 \in 0 .. v.streak - 1 /\ v.day - i = v.last - (i - 1)
        BY <1>2, <2>2, <3>3
      <4> QED
        BY <1>3, <4>1
    <3> QED
      BY <3>2, <3>3
  <2>3. CASE v.last # v.day - 1
    <3>1. streak' = 1
      BY <2>1, <2>3 DEF NextStreak
    <3> SUFFICES ASSUME NEW i \in 0 .. 0 PROVE v.day - i \in reached
      BY <2>1, <3>1
    <3> QED
      BY <1>2, <1>3
  <2> QED
    BY <2>2, <2>3
<1> QED
  BY <1>2, <1>4, <1>5

LEMMA StreakStep == StreakInv /\ [StreakNext]_streakVars => StreakInv'
<1> SUFFICES ASSUME StreakInv, [StreakNext]_streakVars
             PROVE  Calendar' /\ VerdictsHold' /\ StreakIsEarned'
  BY StreakTypeStep DEF StreakInv
<1> USE DaysAreNat DEF StreakInv
<1>0. /\ \A h \in Verdicts : verdict[h] \in Progress
      /\ verdict \in [Verdicts -> Progress]
      /\ \A d \in Days : reviews[d] \in Nat
      /\ today \in Days
  BY DEF StreakTypeOK
<1>1. ASSUME NEW h \in Verdicts, NEW d \in Days, Complete(h, d)
      PROVE  Calendar' /\ VerdictsHold' /\ StreakIsEarned'
  <2>1. /\ d <= today /\ reviews' = [reviews EXCEPT ![d] = @ + 1]
        /\ reached \subseteq reached' /\ today' = today /\ streak' = streak /\ last' = last
        /\ verdict' = [verdict EXCEPT ![h].pc = "note"]
    BY <1>0, <1>1 DEF Complete
  <2>2. ~straddled' => ~straddled /\ \A g \in Verdicts : AtWork(g) => ~(verdict[g].day < d)
    BY <1>1 DEF Complete, AtWork
  <2>3. Calendar'
    <3>1. \A e \in Days : e > today' => reviews'[e] = 0
      BY <1>0, <2>1 DEF Calendar, StreakTypeOK
    <3>2. \A e \in Days : reviews'[e] >= Quota => e \in reached'
      BY <1>0, <1>1 DEF Calendar, Complete, StreakTypeOK
    <3> QED
      BY <3>1, <3>2 DEF Calendar
  <2>4. VerdictsHold'
    <3> SUFFICES ASSUME ~straddled', NEW g \in Verdicts, AtWork(g)'
                 PROVE  /\ verdict'[g].day \in Days
                        /\ \A e \in Days : e > verdict'[g].day => reviews'[e] = 0
                        /\ verdict'[g].pc \in {"read", "write"} => verdict'[g].day \in reached'
                        /\ verdict'[g].pc = "write" =>
                             \A i \in 0 .. verdict'[g].streak - 1 : verdict'[g].last - i \in reached'
      BY DEF VerdictsHold, AtWork
    <3>1. g # h /\ verdict'[g] = verdict[g]
      BY <1>0, <2>1 DEF AtWork
    <3>2. AtWork(g) /\ verdict[g].day \in Days
      BY <2>2, <3>1 DEF AtWork, VerdictsHold
    <3>3. \A e \in Days : e > verdict[g].day => reviews'[e] = 0
      BY <1>0, <2>1, <2>2, <3>2 DEF VerdictsHold, StreakTypeOK
    <3> QED
      BY <2>1, <2>2, <3>1, <3>2, <3>3 DEF VerdictsHold
  <2>5. StreakIsEarned'
    BY <2>1, <2>2 DEF StreakIsEarned
  <2> QED
    BY <2>3, <2>4, <2>5
<1>2. ASSUME NEW h \in Verdicts, NoteDay(h)
      PROVE  Calendar' /\ VerdictsHold' /\ StreakIsEarned'
  <2>1. verdict' = [verdict EXCEPT ![h].pc = "count", ![h].day = today]
    BY <1>2 DEF NoteDay
  <2>2. \A g \in Verdicts : g # h => verdict'[g] = verdict[g]
    BY <1>0, <2>1
  <2>3. verdict'[h].pc = "count" /\ verdict'[h].day = today
    BY <1>0, <2>1 DEF Progress
  <2>4. VerdictsHold'
    BY <1>0, <1>2, <2>2, <2>3 DEF NoteDay, VerdictsHold, AtWork, Calendar
  <2> QED
    BY <1>2, <2>4 DEF NoteDay, Calendar, StreakIsEarned
<1>3. ASSUME NEW h \in Verdicts, CountDay(h)
      PROVE  Calendar' /\ VerdictsHold' /\ StreakIsEarned'
  <2>1. \A g \in Verdicts : g # h => verdict'[g] = verdict[g]
    BY <1>0, <1>3 DEF CountDay
  <2>2. CASE EnoughSince(verdict[h].day)
    <3>1. verdict'[h] = [verdict[h] EXCEPT !.pc = "read"]
      BY <1>0, <1>3, <2>2 DEF CountDay
    <3>2. verdict'[h].pc = "read" /\ verdict'[h].day = verdict[h].day /\ AtWork(h)
      BY <1>0, <1>3, <3>1 DEF Progress, CountDay, AtWork
    <3>3. ~straddled => reviews[verdict[h].day] >= Quota
      <4>1. ~straddled => ~\E d \in Days : d > verdict[h].day /\ reviews[d] > 0
        BY <1>0, <3>2 DEF VerdictsHold
      <4> QED
        BY <2>2, <4>1 DEF EnoughSince
    <3>4. ~straddled => verdict[h].day \in reached
      BY <3>2, <3>3 DEF Calendar, VerdictsHold
    <3>5. VerdictsHold'
      BY <1>3, <2>1, <3>2, <3>4 DEF CountDay, VerdictsHold, AtWork
    <3> QED
      BY <1>3, <3>5 DEF CountDay, Calendar, StreakIsEarned
  <2>3. CASE ~EnoughSince(verdict[h].day)
    <3>1. verdict'[h].pc = "idle"
      BY <1>0, <1>3, <2>3 DEF CountDay, AtRest
    <3>2. VerdictsHold'
      BY <1>3, <2>1, <3>1 DEF CountDay, VerdictsHold, AtWork
    <3> QED
      BY <1>3, <3>2 DEF CountDay, Calendar, StreakIsEarned
  <2> QED
    BY <2>2, <2>3
<1>4. ASSUME NEW h \in Verdicts, ReadStreak(h)
      PROVE  Calendar' /\ VerdictsHold' /\ StreakIsEarned'
  <2>1. \A g \in Verdicts : g # h => verdict'[g] = verdict[g]
    BY <1>0, <1>4 DEF ReadStreak
  <2>2. /\ verdict'[h].pc = "write" /\ verdict'[h].day = verdict[h].day
        /\ verdict'[h].streak = streak /\ verdict'[h].last = last /\ verdict[h].pc = "read"
    BY <1>0, <1>4 DEF ReadStreak, Progress
  <2>3. VerdictsHold'
    <3> SUFFICES ASSUME ~straddled', NEW g \in Verdicts
                 PROVE  /\ AtWork(g)' => /\ verdict'[g].day \in Days
                                         /\ \A d \in Days : d > verdict'[g].day => reviews'[d] = 0
                        /\ verdict'[g].pc \in {"read", "write"} => verdict'[g].day \in reached'
                        /\ verdict'[g].pc = "write" =>
                             \A i \in 0 .. verdict'[g].streak - 1 : verdict'[g].last - i \in reached'
      BY DEF VerdictsHold, AtWork
    <3>1. ~straddled /\ reviews' = reviews /\ reached' = reached
      BY <1>4 DEF ReadStreak
    <3>2. CASE g = h
      BY <2>2, <3>1, <3>2 DEF VerdictsHold, AtWork, StreakIsEarned
    <3>3. CASE g # h
      BY <2>1, <3>1, <3>3 DEF VerdictsHold, AtWork
    <3> QED
      BY <3>2, <3>3
  <2> QED
    BY <1>4, <2>3 DEF ReadStreak, Calendar, StreakIsEarned
<1>5. ASSUME NEW h \in Verdicts, WriteStreak(h)
      PROVE  Calendar' /\ VerdictsHold' /\ StreakIsEarned'
  <2>1. \A g \in Verdicts : g # h => verdict'[g] = verdict[g]
    BY <1>0, <1>5 DEF WriteStreak
  <2>2. verdict'[h].pc = "idle"
    BY <1>0, <1>5 DEF WriteStreak, AtRest
  <2>3. VerdictsHold'
    BY <1>5, <2>1, <2>2 DEF WriteStreak, VerdictsHold, AtWork
  <2>4. StreakIsEarned'
    BY <1>5, WrittenIsEarned DEF WriteStreak, StreakIsEarned
  <2> QED
    BY <1>5, <2>3, <2>4 DEF WriteStreak, Calendar
<1>6. ASSUME NEW h \in Verdicts, Fails(h)
      PROVE  Calendar' /\ VerdictsHold' /\ StreakIsEarned'
  <2>1. \A g \in Verdicts : verdict'[g] = verdict[g] \/ verdict'[g].pc = "idle"
    BY <1>0, <1>6 DEF Fails, AtRest
  <2> QED
    BY <1>6, <2>1 DEF Fails, Calendar, VerdictsHold, AtWork, StreakIsEarned
<1>7. ASSUME NEW d \in Days, TakenOver(d)
      PROVE  Calendar' /\ VerdictsHold' /\ StreakIsEarned'
  <2>1. \A e \in Days : reviews'[e] <= reviews[e] /\ reviews'[e] \in Nat
    BY <1>0, <1>7 DEF TakenOver, StreakTypeOK
  <2>2. Calendar'
    BY <1>0, <1>7, <2>1 DEF TakenOver, Calendar
  <2>3. VerdictsHold'
    BY <1>0, <1>7, <2>1 DEF TakenOver, VerdictsHold, AtWork
  <2> QED
    BY <1>7, <2>2, <2>3 DEF TakenOver, StreakIsEarned
<1>8. ASSUME Midnight PROVE Calendar' /\ VerdictsHold' /\ StreakIsEarned'
  BY <1>0, <1>8 DEF Midnight, Calendar, VerdictsHold, AtWork, StreakIsEarned
<1>9. ASSUME UNCHANGED streakVars PROVE Calendar' /\ VerdictsHold' /\ StreakIsEarned'
  BY <1>9 DEF streakVars, Calendar, VerdictsHold, AtWork, StreakIsEarned
<1> QED
  BY <1>1, <1>2, <1>3, <1>4, <1>5, <1>6, <1>7, <1>8, <1>9 DEF StreakNext

(* VerdictsHold, days and counts keep their types (route.ts:338-429).            *)
THEOREM StreakTypes == StreakSpec => []StreakTypeOK
BY StreakTypeInit, StreakTypeStep, PTL DEF StreakSpec

(* For any quota, calendar and overlap of verdicts: a streak is no longer    *)
(* than the days in a row on which the quota was done, unless a handler that *)
(* noted one day counted reviews of the next (route.ts:338-429).             *)
THEOREM StreaksAreEarned == StreakSpec => []StreakIsEarned
<1>1. StreakInit => StreakInv
  <2> SUFFICES ASSUME StreakInit PROVE Calendar /\ VerdictsHold /\ StreakIsEarned
    BY StreakTypeInit DEF StreakInv
  <2>1. Calendar
    BY DaysAreNat DEF StreakInit, Calendar
  <2>2. VerdictsHold
    BY DEF StreakInit, VerdictsHold, AtWork, AtRest
  <2>3. StreakIsEarned
    BY DEF StreakInit, StreakIsEarned
  <2> QED
    BY <2>1, <2>2, <2>3
<1>2. StreakInv => StreakIsEarned
  BY DEF StreakInv
<1> QED
  BY <1>1, <1>2, StreakStep, PTL DEF StreakSpec

HIDE StreakAssumption

------------------------------------------------------------------------------
(* The row of a review                                                       *)

(* What a request read is still so unless others changed it, and covers the  *)
(* devlogs or none of them unless they were reloaded since.                  *)
ColumnHolds ==
  /\ AllOrNone
  /\ DOMAIN decisions \subseteq posted
  /\ \A h \in Handlers : handler[h].pc \in {"close", "refresh"} =>
       /\ DOMAIN handler[h].seen \subseteq posted
       /\ \A d \in Devlogs : d \in missed[h] \/ Entry(handler[h].seen, d) = Entry(decisions, d)
  /\ \A h \in Handlers : handler[h].pc = "close" /\ ~torn =>
       h \in behind \/ DOMAIN handler[h].seen \in {devlogs, {}}

RowInv == TypeOK /\ ColumnHolds

LEMMA IdleType ==
  /\ Idle.pc = "idle" /\ Idle.close = "done" /\ Idle.seen \in Decisions /\ Idle.sent \in Decisions
  /\ Idle \in [pc : {"idle", "close", "undo", "refresh"}, close : {"done", "returned"},
               seen : Decisions, sent : Decisions]
<1>1. <<>> \in [{} -> Verdict] /\ {} \in SUBSET Devlogs
  OBVIOUS
<1>2. <<>> \in Decisions
  BY <1>1 DEF Decisions
<1> QED
  BY <1>2 DEF Idle

(* A request is done: it is idle, and the others missed what it changed.     *)
LEMMA DoneForm ==
  ASSUME TypeOK, NEW h \in Handlers, Done(h)
  PROVE  /\ handler' = [handler EXCEPT ![h] = Idle]
         /\ missed' \in [Handlers -> SUBSET Devlogs]
         /\ \A g \in Handlers : handler'[g].pc # "idle" =>
              /\ g # h /\ handler'[g] = handler[g] /\ missed[g] \subseteq missed'[g]
              /\ \A d \in Devlogs : d \in missed'[g] \/ Entry(decisions, d) = Entry(decisions', d)
<1>1. handler' = [handler EXCEPT ![h] = Idle]
  BY DEF Done
<1>2. missed' \in [Handlers -> SUBSET Devlogs]
  BY DEF Done, TypeOK
<1>3. ASSUME NEW g \in Handlers, handler'[g].pc # "idle"
      PROVE  /\ g # h /\ handler'[g] = handler[g] /\ missed[g] \subseteq missed'[g]
             /\ \A d \in Devlogs : d \in missed'[g] \/ Entry(decisions, d) = Entry(decisions', d)
  <2>1. handler'[h] = Idle
    BY <1>1 DEF TypeOK
  <2>2. g # h /\ handler'[g] = handler[g]
    BY <1>1, <1>3, <2>1, IdleType DEF TypeOK
  <2>3. missed'[g] = missed[g] \cup {d \in Devlogs : Entry(decisions, d) # Entry(decisions', d)}
    BY <1>3, <2>2 DEF Done
  <2> QED
    BY <2>2, <2>3
<1> QED
  BY <1>1, <1>2, <1>3

LEMMA DecisionsAre ==
  ASSUME NEW S \in SUBSET Devlogs, NEW f \in [S -> Verdict]
  PROVE  f \in Decisions
BY DEF Decisions

LEMMA DecisionsType ==
  ASSUME NEW f \in Decisions
  PROVE  DOMAIN f \in SUBSET Devlogs /\ f \in [DOMAIN f -> Verdict]
BY DEF Decisions

LEMMA RowInit == Init => RowInv
<1> SUFFICES ASSUME Init PROVE RowInv
  OBVIOUS
<1>1. decisions \in [devlogs -> Verdict] /\ DOMAIN decisions = devlogs
  BY DEF Init, Verdict
<1>2. decisions \in Decisions
  BY <1>1, DecisionsAre DEF Init
<1>3. <<>> \in Decisions
  BY IdleType DEF Idle
<1>4. TypeOK
  <2>1. handler \in [Handlers -> [pc : {"idle", "close", "undo", "refresh"}, close : {"done", "returned"},
                                 seen : Decisions, sent : Decisions]]
    BY IdleType DEF Init
  <2>2. missed \in [Handlers -> SUBSET Devlogs] /\ behind \subseteq Handlers /\ torn \in BOOLEAN
    BY DEF Init
  <2>3. local \in [Handlers -> Decisions] /\ patches \in 0 .. MaxPatches
    BY <1>3, PatchesAssumption DEF Init
  <2>4. posted \subseteq Devlogs /\ devlogs \subseteq posted /\ status \in {"pending", "done", "returned"}
    BY DEF Init
  <2> QED
    BY <1>2, <2>1, <2>2, <2>3, <2>4 DEF TypeOK
<1>5. ColumnHolds
  BY <1>1, IdleType DEF Init, ColumnHolds, AllOrNone
<1> QED
  BY <1>4, <1>5 DEF RowInv

LEMMA RowTypeStep == TypeOK /\ [Next]_vars => TypeOK'
<1> SUFFICES ASSUME TypeOK, [Next]_vars PROVE TypeOK'
  OBVIOUS
<1> DEFINE Answering == [pc : {"idle", "close", "undo", "refresh"}, close : {"done", "returned"},
                       seen : Decisions, sent : Decisions]
<1>0. Idle \in Answering /\ \A h \in Handlers : handler[h] \in Answering /\ local[h] \in Decisions
  BY IdleType DEF TypeOK
<1>a. ASSUME NEW h \in Handlers, NEW q \in Answering, Begin(h, q) PROVE TypeOK'
  BY <1>a, PatchesAssumption DEF Begin, TypeOK, history
<1>1. ASSUME NEW d \in Devlogs, Post(d) PROVE TypeOK'
  BY <1>1 DEF Post, TypeOK, history
<1>2. ASSUME NEW h \in Handlers, OpenPage(h) PROVE TypeOK'
  <2> DEFINE f == [d \in devlogs |-> IF d \in DOMAIN decisions THEN decisions[d] ELSE "pending"]
  <2>1. decisions \in [DOMAIN decisions -> Verdict]
    BY DecisionsType DEF TypeOK
  <2>2. f \in [devlogs -> Verdict]
    BY <2>1 DEF Verdict
  <2>3. f \in Decisions
    BY <2>2, DecisionsAre DEF TypeOK
  <2> HIDE DEF f
  <2>4. local' \in [Handlers -> Decisions]
    BY <1>2, <2>3 DEF OpenPage, TypeOK, f
  <2> QED
    BY <1>2, <2>4 DEF OpenPage, TypeOK, history
<1>3. ASSUME NEW h \in Handlers, NEW D, NEW v \in {"approved", "rejected"}, Choose(h, D, v)
      PROVE  TypeOK'
  <2> DEFINE f == [d \in DOMAIN local[h] |-> IF d \in D THEN v ELSE local[h][d]]
  <2>1. local[h] \in [DOMAIN local[h] -> Verdict] /\ DOMAIN local[h] \in SUBSET Devlogs
    BY <1>0, DecisionsType
  <2>2. f \in [DOMAIN local[h] -> Verdict]
    BY <2>1 DEF Verdict
  <2>3. f \in Decisions
    BY <2>1, <2>2, DecisionsAre
  <2>4. local' = [local EXCEPT ![h] = f]
    BY <1>3 DEF Choose
  <2> HIDE DEF f
  <2>5. local' \in [Handlers -> Decisions]
    BY <2>3, <2>4 DEF TypeOK
  <2> QED
    BY <1>3, <2>5 DEF Choose, TypeOK, history
<1>4. ASSUME NEW h \in Handlers, NEW close \in {"done", "returned"}, CloseRead(h, close)
      PROVE  TypeOK'
  <2> DEFINE q == [pc |-> "close", close |-> close, seen |-> decisions, sent |-> local[h]]
  <2>1. q \in Answering
    BY <1>0 DEF TypeOK
  <2> QED
    BY <1>4, <1>a, <2>1 DEF CloseRead
<1>5. ASSUME NEW h \in Handlers, UndoRead(h) PROVE TypeOK'
  <2> DEFINE q == [Idle EXCEPT !.pc = "undo"]
  <2>1. q \in Answering
    BY <1>0
  <2> QED
    BY <1>5, <1>a, <2>1 DEF UndoRead
<1>6. ASSUME NEW h \in Handlers, RefreshRead(h) PROVE TypeOK'
  <2> DEFINE q == [Idle EXCEPT !.pc = "refresh", !.seen = decisions]
  <2>1. q \in Answering
    BY <1>0 DEF TypeOK
  <2> QED
    BY <1>6, <1>a, <2>1 DEF RefreshRead
<1>7. ASSUME NEW h \in Handlers, CloseWrite(h) PROVE TypeOK'
  <2> DEFINE seen == handler[h].seen
             asked == handler[h].sent
  <2>1. /\ seen \in [DOMAIN seen -> Verdict] /\ DOMAIN seen \in SUBSET Devlogs
        /\ asked \in [DOMAIN asked -> Verdict] /\ handler[h].close \in {"done", "returned"}
    BY <1>0, DecisionsType
  <2>2. Merge(seen, asked) \in [DOMAIN seen -> Verdict]
    BY <2>1 DEF Merge
  <2>3. Merge(seen, asked) \in Decisions
    BY <2>1, <2>2, DecisionsAre
  <2>4. handler' \in [Handlers -> Answering] /\ missed' \in [Handlers -> SUBSET Devlogs]
    BY <1>0, <1>7, DoneForm DEF CloseWrite, TypeOK
  <2> QED
    BY <1>7, <2>1, <2>3, <2>4 DEF CloseWrite, TypeOK
<1>8. ASSUME NEW h \in Handlers, UndoWrite(h) PROVE TypeOK'
  <2>1. <<>> \in Decisions
    BY IdleType DEF Idle
  <2>2. handler' \in [Handlers -> Answering] /\ missed' \in [Handlers -> SUBSET Devlogs]
    BY <1>0, <1>8, DoneForm DEF UndoWrite, TypeOK
  <2> QED
    BY <1>8, <2>1, <2>2 DEF UndoWrite, TypeOK
<1>9. ASSUME NEW h \in Handlers, NEW found \in Found, RefreshWrite(h, found) PROVE TypeOK'
  <2> DEFINE seen == handler[h].seen
  <2>1. seen \in [DOMAIN seen -> Verdict]
    BY <1>0, DecisionsType
  <2>2. found \subseteq posted /\ found \in SUBSET Devlogs
    BY DEF Found, TypeOK
  <2>3. Reloaded(seen, found) \in [found -> Verdict]
    BY <2>1 DEF Reloaded, Verdict
  <2>4. Reloaded(seen, found) \in Decisions
    BY <2>2, <2>3, DecisionsAre
  <2>5. handler' \in [Handlers -> Answering] /\ missed' \in [Handlers -> SUBSET Devlogs]
    BY <1>0, <1>9, DoneForm DEF RefreshWrite, TypeOK
  <2>6. behind' \subseteq Handlers /\ torn' \in BOOLEAN
    BY <1>9 DEF RefreshWrite, Overtakes
  <2> QED
    BY <1>9, <2>2, <2>4, <2>5, <2>6 DEF RefreshWrite, TypeOK
<1>10. ASSUME NEW h \in Handlers, Fail(h) PROVE TypeOK'
  BY <1>0, <1>10 DEF Fail, TypeOK, history
<1>11. CASE UNCHANGED vars
  BY <1>11 DEF vars, TypeOK
<1> QED
  BY <1>1, <1>2, <1>3, <1>4, <1>5, <1>6, <1>7, <1>8, <1>9, <1>10, <1>11 DEF Next

(* A request that ends leaves what the others read as it was.                *)
LEMMA RowDone ==
  ASSUME RowInv, NEW h \in Handlers, Done(h), posted' = posted
  PROVE  \A g \in Handlers : handler'[g].pc # "idle" =>
           /\ handler'[g] = handler[g] /\ g # h
           /\ handler'[g].pc \in {"close", "refresh"} =>
                /\ DOMAIN handler'[g].seen \subseteq posted'
                /\ \A d \in Devlogs : d \in missed'[g] \/ Entry(handler'[g].seen, d) = Entry(decisions', d)
<1> SUFFICES ASSUME NEW g \in Handlers, handler'[g].pc # "idle"
             PROVE  /\ handler'[g] = handler[g] /\ g # h
                    /\ handler'[g].pc \in {"close", "refresh"} =>
                         /\ DOMAIN handler'[g].seen \subseteq posted'
                         /\ \A d \in Devlogs :
                              d \in missed'[g] \/ Entry(handler'[g].seen, d) = Entry(decisions', d)
  OBVIOUS
<1>1. /\ g # h /\ handler'[g] = handler[g] /\ missed[g] \subseteq missed'[g]
      /\ \A d \in Devlogs : d \in missed'[g] \/ Entry(decisions, d) = Entry(decisions', d)
  BY DoneForm DEF RowInv
<1>2. handler[g].pc \in {"close", "refresh"} =>
        /\ DOMAIN handler[g].seen \subseteq posted
        /\ \A d \in Devlogs : d \in missed[g] \/ Entry(handler[g].seen, d) = Entry(decisions, d)
  BY DEF RowInv, ColumnHolds
<1> QED
  BY <1>1, <1>2

LEMMA RowStep == RowInv /\ [Next]_vars => RowInv'
<1> SUFFICES ASSUME RowInv, [Next]_vars PROVE ColumnHolds'
  BY RowTypeStep DEF RowInv
<1>0. /\ handler \in [Handlers -> [pc : {"idle", "close", "undo", "refresh"},
                                 close : {"done", "returned"}, seen : Decisions, sent : Decisions]]
      /\ Idle.pc = "idle" /\ Idle.seen = <<>>
  BY DEF RowInv, TypeOK, Idle
<1>b. ASSUME NEW h \in Handlers, NEW q, Begin(h, q),
             q.pc \in {"close", "refresh"} => q.seen = decisions
      PROVE  ColumnHolds'
  <2>1. /\ handler' = [handler EXCEPT ![h] = q] /\ UNCHANGED <<decisions, devlogs, posted, missed, behind, torn>>
    BY <1>b DEF Begin, history
  <2>2. handler'[h] = q /\ \A g \in Handlers : g # h => handler'[g] = handler[g]
    BY <1>0, <2>1
  <2>3. AllOrNone' /\ (DOMAIN decisions \subseteq posted)'
    BY <2>1 DEF RowInv, ColumnHolds, AllOrNone
  <2>4. ASSUME NEW g \in Handlers, handler'[g].pc \in {"close", "refresh"}
        PROVE  /\ DOMAIN handler'[g].seen \subseteq posted'
               /\ \A d \in Devlogs : d \in missed'[g] \/ Entry(handler'[g].seen, d) = Entry(decisions', d)
    <3>1. CASE g = h
      BY <1>b, <2>1, <2>2, <2>4, <3>1 DEF RowInv, ColumnHolds
    <3>2. CASE g # h
      <4>1. handler[g].pc \in {"close", "refresh"} /\ handler'[g].seen = handler[g].seen
        BY <2>2, <2>4, <3>2
      <4>2. /\ DOMAIN handler[g].seen \subseteq posted
            /\ \A d \in Devlogs : d \in missed[g] \/ Entry(handler[g].seen, d) = Entry(decisions, d)
        BY <4>1 DEF RowInv, ColumnHolds
      <4> QED
        BY <2>1, <4>1, <4>2
    <3> QED
      BY <3>1, <3>2
  <2>5. ASSUME NEW g \in Handlers, handler'[g].pc = "close", ~torn'
        PROVE  g \in behind' \/ DOMAIN handler'[g].seen \in {devlogs', {}}
    BY <1>b, <2>1, <2>2, <2>5 DEF RowInv, ColumnHolds, AllOrNone
  <2> QED
    BY <2>3, <2>4, <2>5 DEF ColumnHolds
<1>1. ASSUME UNCHANGED <<handler, decisions, devlogs, missed, behind, torn>>, posted \subseteq posted'
      PROVE  ColumnHolds'
  <2>1. AllOrNone' /\ (DOMAIN decisions \subseteq posted)'
    BY <1>1 DEF RowInv, ColumnHolds, AllOrNone
  <2>2. ASSUME NEW g \in Handlers, handler'[g].pc \in {"close", "refresh"}
        PROVE  /\ DOMAIN handler'[g].seen \subseteq posted'
               /\ \A d \in Devlogs : d \in missed'[g] \/ Entry(handler'[g].seen, d) = Entry(decisions', d)
    <3>1. /\ DOMAIN handler[g].seen \subseteq posted
          /\ \A d \in Devlogs : d \in missed[g] \/ Entry(handler[g].seen, d) = Entry(decisions, d)
      BY <1>1, <2>2 DEF RowInv, ColumnHolds
    <3> QED
      BY <1>1, <3>1
  <2>3. \A g \in Handlers : handler'[g].pc = "close" /\ ~torn' =>
          g \in behind' \/ DOMAIN handler'[g].seen \in {devlogs', {}}
    BY <1>1 DEF RowInv, ColumnHolds
  <2> QED
    BY <2>1, <2>2, <2>3 DEF ColumnHolds
<1>2. ASSUME NEW h \in Handlers, NEW close, CloseRead(h, close) PROVE ColumnHolds'
  BY <1>2, <1>b DEF CloseRead
<1>3. ASSUME NEW h \in Handlers, UndoRead(h) PROVE ColumnHolds'
  <2>1. [Idle EXCEPT !.pc = "undo"].pc = "undo"
    BY DEF Idle
  <2> QED
    BY <1>3, <1>b, <2>1 DEF UndoRead
<1>4. ASSUME NEW h \in Handlers, RefreshRead(h) PROVE ColumnHolds'
  <2>1. [Idle EXCEPT !.pc = "refresh", !.seen = decisions].seen = decisions
    BY DEF Idle
  <2> QED
    BY <1>4, <1>b, <2>1 DEF RefreshRead
<1>5. ASSUME NEW h \in Handlers, CloseWrite(h) PROVE ColumnHolds'
  <2>1. Done(h) /\ UNCHANGED <<posted, devlogs>> /\ handler[h].pc = "close"
        /\ behind' = behind \ {h} /\ torn' = (torn \/ h \in behind)
    BY <1>5 DEF CloseWrite
  <2>2. DOMAIN decisions' = DOMAIN handler[h].seen
    BY <1>5 DEF CloseWrite, Merge
  <2>3. DOMAIN handler[h].seen \subseteq posted /\ (torn \/ h \in behind \/ DOMAIN handler[h].seen \in {devlogs, {}})
    BY <2>1 DEF RowInv, ColumnHolds
  <2>4. AllOrNone' /\ (DOMAIN decisions \subseteq posted)'
    BY <2>1, <2>2, <2>3 DEF AllOrNone
  <2>5. ASSUME NEW g \in Handlers, handler'[g].pc = "close", ~torn'
        PROVE  g \in behind' \/ DOMAIN handler'[g].seen \in {devlogs', {}}
    <3>1. handler'[g] = handler[g] /\ g # h
      BY <2>1, <2>5, RowDone
    <3>2. g \in behind \/ DOMAIN handler[g].seen \in {devlogs, {}}
      BY <2>1, <2>5, <3>1 DEF RowInv, ColumnHolds
    <3> QED
      BY <2>1, <3>1, <3>2
  <2>6. \A g \in Handlers : handler'[g].pc \in {"close", "refresh"} => handler'[g].pc # "idle"
    OBVIOUS
  <2> QED
    BY <2>1, <2>4, <2>5, <2>6, RowDone DEF ColumnHolds
<1>6. ASSUME NEW h \in Handlers, UndoWrite(h) PROVE ColumnHolds'
  <2>1. Done(h) /\ UNCHANGED <<posted, devlogs, torn>> /\ behind' = behind \ {h} /\ DOMAIN decisions' = {}
    BY <1>6 DEF UndoWrite
  <2>2. AllOrNone' /\ (DOMAIN decisions \subseteq posted)'
    BY <2>1 DEF AllOrNone
  <2>3. ASSUME NEW g \in Handlers, handler'[g].pc = "close", ~torn'
        PROVE  g \in behind' \/ DOMAIN handler'[g].seen \in {devlogs', {}}
    <3>1. handler'[g] = handler[g] /\ g # h
      BY <2>1, <2>3, RowDone
    <3>2. g \in behind \/ DOMAIN handler[g].seen \in {devlogs, {}}
      BY <2>1, <2>3, <3>1 DEF RowInv, ColumnHolds
    <3> QED
      BY <2>1, <3>1, <3>2
  <2>4. \A g \in Handlers : handler'[g].pc \in {"close", "refresh"} => handler'[g].pc # "idle"
    OBVIOUS
  <2> QED
    BY <2>1, <2>2, <2>3, <2>4, RowDone DEF ColumnHolds
<1>7. ASSUME NEW h \in Handlers, NEW found \in Found, RefreshWrite(h, found) PROVE ColumnHolds'
  <2>1. Done(h) /\ posted' = posted /\ devlogs' = found /\ DOMAIN decisions' = found /\ ~torn'
        /\ behind' = {g \in Handlers \ {h} : handler[g].pc # "idle"}
    BY <1>7 DEF RefreshWrite, Reloaded, Overtakes
  <2>2. AllOrNone' /\ (DOMAIN decisions \subseteq posted)'
    BY <2>1 DEF AllOrNone, Found
  <2>3. ASSUME NEW g \in Handlers, handler'[g].pc = "close" PROVE g \in behind'
    <3>1. handler'[g] = handler[g] /\ g # h
      BY <2>1, <2>3, RowDone
    <3> QED
      BY <2>1, <2>3, <3>1
  <2>4. \A g \in Handlers : handler'[g].pc \in {"close", "refresh"} => handler'[g].pc # "idle"
    OBVIOUS
  <2> QED
    BY <2>1, <2>2, <2>3, <2>4, RowDone DEF ColumnHolds
<1>8. ASSUME NEW h \in Handlers, Fail(h) PROVE ColumnHolds'
  <2>1. /\ handler' = [handler EXCEPT ![h] = Idle] /\ UNCHANGED <<posted, devlogs, decisions, torn>>
        /\ missed' = [missed EXCEPT ![h] = {}] /\ behind' = behind \ {h}
    BY <1>8 DEF Fail
  <2>2. AllOrNone' /\ (DOMAIN decisions \subseteq posted)'
    BY <2>1 DEF RowInv, ColumnHolds, AllOrNone
  <2>3. \A g \in Handlers : handler'[g].pc # "idle" =>
          g # h /\ handler'[g] = handler[g] /\ missed'[g] = missed[g] /\ (g \in behind => g \in behind')
    BY <1>0, <2>1 DEF RowInv, TypeOK
  <2>4. ASSUME NEW g \in Handlers, handler'[g].pc \in {"close", "refresh"}
        PROVE  /\ DOMAIN handler'[g].seen \subseteq posted'
               /\ \A d \in Devlogs : d \in missed'[g] \/ Entry(handler'[g].seen, d) = Entry(decisions', d)
    <3>1. handler'[g] = handler[g] /\ missed'[g] = missed[g]
      BY <2>3, <2>4
    <3>2. /\ DOMAIN handler[g].seen \subseteq posted
          /\ \A d \in Devlogs : d \in missed[g] \/ Entry(handler[g].seen, d) = Entry(decisions, d)
      BY <2>4, <3>1 DEF RowInv, ColumnHolds
    <3> QED
      BY <2>1, <3>1, <3>2
  <2>5. ASSUME NEW g \in Handlers, handler'[g].pc = "close", ~torn'
        PROVE  g \in behind' \/ DOMAIN handler'[g].seen \in {devlogs', {}}
    <3>1. handler'[g] = handler[g] /\ (g \in behind => g \in behind')
      BY <2>3, <2>5
    <3>2. g \in behind \/ DOMAIN handler[g].seen \in {devlogs, {}}
      BY <2>1, <2>5, <3>1 DEF RowInv, ColumnHolds
    <3> QED
      BY <2>1, <3>1, <3>2
  <2> QED
    BY <2>2, <2>4, <2>5 DEF ColumnHolds
<1>9. ASSUME \/ \E d \in Devlogs \ posted : Post(d)
             \/ \E h \in Handlers : OpenPage(h) \/ \E D, v : Choose(h, D, v)
      PROVE  UNCHANGED <<handler, decisions, devlogs, missed, behind, torn>> /\ posted \subseteq posted'
  BY <1>9 DEF Post, OpenPage, Choose, vars, history
<1>10. CASE UNCHANGED vars
  BY <1>1, <1>10 DEF vars
<1> QED
  BY <1>1, <1>2, <1>3, <1>4, <1>5, <1>6, <1>7, <1>8, <1>9, <1>10 DEF Next

(* The row, the requests and the pages keep their types, whatever overlaps.  *)
THEOREM ReviewTypes == Spec => []TypeOK
<1>1. Init => TypeOK
  BY RowInit DEF RowInv
<1> QED
  BY <1>1, RowTypeStep, PTL DEF Spec

(* However completions, returns, undos, reloads and failures overlap, the    *)
(* decisions column covers all devlogs of a review or none, until one that   *)
(* read the row before a reload writes after it.                             *)
THEOREM ColumnCovers == Spec => []AllOrNone
<1>1. RowInv => AllOrNone
  BY DEF RowInv, ColumnHolds
<1> QED
  BY RowInit, RowStep, <1>1, PTL DEF Spec

(* However requests overlap, a reload that finds the devlogs keeps every     *)
(* decision made but those changed while it fetched them.                    *)
THEOREM ReloadsPreserve == Spec => RefreshPreserves
<1> DEFINE Survive(h) == RefreshWrite(h, posted) =>
             \A d \in DOMAIN decisions : decisions[d] # "pending" =>
               /\ d \in DOMAIN decisions'
               /\ decisions'[d] = decisions[d] \/ d \in missed[h]
<1>1. ASSUME RowInv, NEW h \in Handlers PROVE Survive(h)
  <2>1. SUFFICES ASSUME RefreshWrite(h, posted), NEW d \in DOMAIN decisions
                 PROVE  d \in DOMAIN decisions' /\ (decisions'[d] = decisions[d] \/ d \in missed[h])
    OBVIOUS
  <2>2. decisions' = Reloaded(handler[h].seen, posted) /\ handler[h].pc = "refresh"
    BY <2>1 DEF RefreshWrite
  <2>3. d \in posted /\ d \in Devlogs /\ decisions[d] \in Verdict
    BY <1>1, DecisionsType DEF RowInv, ColumnHolds, TypeOK
  <2>4. d \in missed[h] \/ Entry(handler[h].seen, d) = decisions[d]
    BY <1>1, <2>2, <2>3 DEF RowInv, ColumnHolds, Entry
  <2>5. d \in missed[h] \/ (d \in DOMAIN handler[h].seen /\ handler[h].seen[d] = decisions[d])
    BY <2>3, <2>4 DEF Entry, Verdict
  <2> QED
    BY <2>2, <2>3, <2>5 DEF Reloaded
<1>2. RowInv => [\A h \in Handlers : Survive(h)]_vars
  BY <1>1
<1> QED
  BY RowInit, RowStep, <1>2, PTL DEF Spec, RefreshPreserves

------------------------------------------------------------------------------
(* Notes and messages on a page                                              *)

LoadRecord == [pc : {"idle", "asked", "back"}, got : SUBSET Entries, at : Nat]
Shows(n, how) == <<n, how>> \in listed

(* What nobody wrote yet is nowhere; what is temporary is on its way.        *)
EntriesHold ==
  \A n \in Entries :
    /\ request[n].pc = "none" =>
         /\ n \notin stored /\ ~Shows(n, "real") /\ ~Shows(n, "temp")
         /\ \A m \in Entries : n \notin request[m].old
         /\ \A l \in Loads : n \notin load[l].got
    /\ Shows(n, "temp") => /\ n \in Mine /\ request[n].pc \in {"write", "written", "told"}
                           /\ page # "assignment" /\ (page = "ship" => ~Shows(n, "real"))
    /\ page = "ticket" => request[n].pc \notin {"drop", "dropped"}

(* A load that is as recent as the server has what the server has.           *)
VersionsHold ==
  /\ newest <= version /\ \A n \in Entries : request[n].at <= version
  /\ \A l \in Loads : load[l].pc = "back" =>
       load[l].at <= version /\ (load[l].at = version => load[l].got = stored)

(* A load that will show what the server has now is under way or to come.    *)
Coming ==
  \/ due > 0
  \/ \E l \in Loads : load[l].pc = "asked" \/ (load[l].pc = "back" /\ load[l].at = version)
  \/ \E n \in Entries : request[n].pc = "written" \/ (request[n].pc = "dropped" /\ page = "ship")

(* Of a page that is told of changes: such a load comes, or the page shows   *)
(* what the server has.                                                      *)
InStep ==
  /\ newest = version
  /\ \A n \in Mine : /\ Shows(n, "real") <=> n \in stored
                     /\ page = "ship" /\ Shows(n, "temp") => request[n].pc = "write"
HearingHolds == Hears /\ ~astray => Coming \/ InStep

(* Of one that is not: nobody lost a write, and its user wrote nothing       *)
(* before the notes were there.                                              *)
DeafHolds ==
  ~Hears /\ ~astray =>
    /\ \A n \in Mine : /\ n \in stored <=> request[n].pc \in {"written", "told", "kept", "drop"}
                       /\ Shows(n, "real") <=> request[n].pc \in {"kept", "drop", "dropped"}
    /\ Loading => \A n \in Mine : request[n].pc = "none"

NotesInv == NotesTypeOK /\ EntriesHold /\ VersionsHold /\ HearingHolds /\ DeafHolds

RequestRecord == [pc : RequestPc, old : SUBSET Entries, read : BOOLEAN, at : Nat]

(* What a step does to the requests.                                         *)
Moves(n, pc, old, at) ==
  /\ request' \in [Entries -> RequestRecord]
  /\ request'[n].pc = pc /\ request'[n].old = old /\ request'[n].at = at
  /\ \A m \in Entries : m # n => request'[m] = request[m]

LEMMA RequestMoved ==
  ASSUME NotesTypeOK, NEW n \in Entries, NEW r \in RequestRecord, request' = [request EXCEPT ![n] = r]
  PROVE  Moves(n, r.pc, r.old, r.at)
BY DEF NotesTypeOK, Moves, RequestRecord

LEMMA RequestTurned ==
  ASSUME NotesTypeOK, NEW n \in Entries, NEW pc \in RequestPc, request' = [request EXCEPT ![n].pc = pc]
  PROVE  Moves(n, pc, request[n].old, request[n].at)
<1> DEFINE r == [request[n] EXCEPT !.pc = pc]
<1>1. request[n] \in RequestRecord
  BY DEF NotesTypeOK, RequestRecord
<1>2. r \in RequestRecord /\ r.pc = pc /\ r.old = request[n].old /\ r.at = request[n].at
  BY <1>1 DEF RequestRecord
<1>3. request' = [request EXCEPT ![n] = r]
  OBVIOUS
<1> HIDE DEF r
<1> QED
  BY <1>2, <1>3, RequestMoved

LEMMA RequestReset ==
  ASSUME NotesTypeOK, NEW n \in Entries, NEW pc \in RequestPc, NEW at \in Nat,
         request' = [request EXCEPT ![n] = [@ EXCEPT !.pc = pc, !.old = {}, !.read = FALSE, !.at = at]]
  PROVE  Moves(n, pc, {}, at)
<1> DEFINE r == [request[n] EXCEPT !.pc = pc, !.old = {}, !.read = FALSE, !.at = at]
<1>1. request[n] \in RequestRecord
  BY DEF NotesTypeOK, RequestRecord
<1>2. r \in RequestRecord /\ r.pc = pc /\ r.old = {} /\ r.at = at
  BY <1>1 DEF RequestRecord
<1>3. request' = [request EXCEPT ![n] = r]
  OBVIOUS
<1> HIDE DEF r
<1> QED
  BY <1>2, <1>3, RequestMoved

LEMMA RequestsMove ==
  ASSUME NotesTypeOK, NEW n \in Entries
  PROVE  /\ Save(n) => Moves(n, "write", request[n].old, request[n].at)
         /\ SaveElsewhere(n) => Moves(n, "write", request[n].old, request[n].at)
         /\ ReadColumn(n) => Moves(n, request[n].pc, stored, request[n].at)
         /\ WriteEntry(n) => Moves(n, "written", {}, version + 1)
         /\ TellPages(n) => Moves(n, IF n \in Mine THEN "told" ELSE "kept", request[n].old, request[n].at)
         /\ Answer(n) => Moves(n, "kept", request[n].old, request[n].at)
         /\ RefuseEntry(n) => Moves(n, "gone", {}, request[n].at)
         /\ Delete(n) => Moves(n, "drop", request[n].old, request[n].at)
         /\ WriteDelete(n) => Moves(n, "dropped", {}, version + 1)
         /\ DeleteFails(n) => Moves(n, "kept", {}, request[n].at)
         /\ DeleteAnswer(n) => Moves(n, "gone", request[n].old, request[n].at)
<1>0. /\ "write" \in RequestPc /\ "written" \in RequestPc /\ "told" \in RequestPc /\ "kept" \in RequestPc
      /\ "gone" \in RequestPc /\ "drop" \in RequestPc /\ "dropped" \in RequestPc
      /\ version + 1 \in Nat /\ request[n].at \in Nat
  BY DEF RequestPc, NotesTypeOK
<1>01. request[n] \in RequestRecord
  BY DEF NotesTypeOK, RequestRecord
<1>02. ASSUME NEW pc \in RequestPc,
             request' = [request EXCEPT ![n] = [@ EXCEPT !.pc = pc, !.old = {}, !.read = FALSE]]
      PROVE  Moves(n, pc, {}, request[n].at)
  <2> DEFINE r == [request[n] EXCEPT !.pc = pc, !.old = {}, !.read = FALSE]
  <2>1. r \in RequestRecord /\ r.pc = pc /\ r.old = {} /\ r.at = request[n].at
    BY <1>01 DEF RequestRecord
  <2>2. request' = [request EXCEPT ![n] = r]
    BY <1>02
  <2> HIDE DEF r
  <2> QED
    BY <2>1, <2>2, RequestMoved
<1>1. ASSUME Save(n) PROVE Moves(n, "write", request[n].old, request[n].at)
  <2>1. request' = [request EXCEPT ![n].pc = "write"]
    BY <1>1 DEF Save
  <2> QED
    BY <1>0, <2>1, RequestTurned
<1>2. ASSUME SaveElsewhere(n) PROVE Moves(n, "write", request[n].old, request[n].at)
  <2>1. request' = [request EXCEPT ![n].pc = "write"]
    BY <1>2 DEF SaveElsewhere
  <2> QED
    BY <1>0, <2>1, RequestTurned
<1>3. ASSUME ReadColumn(n) PROVE Moves(n, request[n].pc, stored, request[n].at)
  <2> DEFINE r == [request[n] EXCEPT !.old = stored, !.read = TRUE]
  <2>0. stored \subseteq Entries
    BY DEF NotesTypeOK
  <2>1. r \in RequestRecord /\ r.pc = request[n].pc /\ r.old = stored /\ r.at = request[n].at
    BY <1>01, <2>0 DEF RequestRecord
  <2>2. request' = [request EXCEPT ![n] = r]
    BY <1>3 DEF ReadColumn, NotesTypeOK
  <2> HIDE DEF r
  <2> QED
    BY <2>1, <2>2, RequestMoved
<1>4. ASSUME WriteEntry(n) PROVE Moves(n, "written", {}, version + 1)
  <2>1. request' = [request EXCEPT ![n] = [@ EXCEPT !.pc = "written", !.old = {}, !.read = FALSE, !.at = version + 1]]
    BY <1>4 DEF WriteEntry, Store
  <2> QED
    BY <1>0, <2>1, RequestReset
<1>5. ASSUME TellPages(n) PROVE Moves(n, IF n \in Mine THEN "told" ELSE "kept", request[n].old, request[n].at)
  <2>1. request' = [request EXCEPT ![n].pc = IF n \in Mine THEN "told" ELSE "kept"]
    BY <1>5 DEF TellPages
  <2> QED
    BY <1>0, <2>1, RequestTurned
<1>6. ASSUME Answer(n) PROVE Moves(n, "kept", request[n].old, request[n].at)
  <2>1. request' = [request EXCEPT ![n].pc = "kept"]
    BY <1>6 DEF Answer
  <2> QED
    BY <1>0, <2>1, RequestTurned
<1>7. ASSUME RefuseEntry(n) PROVE Moves(n, "gone", {}, request[n].at)
  <2>1. request' = [request EXCEPT ![n] = [@ EXCEPT !.pc = "gone", !.old = {}, !.read = FALSE]]
    BY <1>7 DEF RefuseEntry
  <2> QED
    BY <1>0, <2>1, <1>02
<1>8. ASSUME Delete(n) PROVE Moves(n, "drop", request[n].old, request[n].at)
  <2>1. request' = [request EXCEPT ![n].pc = "drop"]
    BY <1>8 DEF Delete
  <2> QED
    BY <1>0, <2>1, RequestTurned
<1>9. ASSUME WriteDelete(n) PROVE Moves(n, "dropped", {}, version + 1)
  <2>1. request' = [request EXCEPT ![n] = [@ EXCEPT !.pc = "dropped", !.old = {}, !.read = FALSE, !.at = version + 1]]
    BY <1>9 DEF WriteDelete, Store
  <2> QED
    BY <1>0, <2>1, RequestReset
<1>10. ASSUME DeleteFails(n) PROVE Moves(n, "kept", {}, request[n].at)
  <2>1. request' = [request EXCEPT ![n] = [@ EXCEPT !.pc = "kept", !.old = {}, !.read = FALSE]]
    BY <1>10 DEF DeleteFails
  <2> QED
    BY <1>0, <2>1, <1>02
<1>11. ASSUME DeleteAnswer(n) PROVE Moves(n, "gone", request[n].old, request[n].at)
  <2>1. request' = [request EXCEPT ![n].pc = "gone"]
    BY <1>11 DEF DeleteAnswer
  <2> QED
    BY <1>0, <2>1, RequestTurned
<1> QED
  BY <1>1, <1>2, <1>3, <1>4, <1>5, <1>6, <1>7, <1>8, <1>9, <1>10, <1>11, Zenon

LEMMA NotesTypesNext ==
  ASSUME NotesTypeOK, [NotesNext]_noteVars
  PROVE  NotesTypeOK'
<1>1. ASSUME NEW n \in Entries, Save(n) PROVE NotesTypeOK'
  <2>1. Moves(n, "write", request[n].old, request[n].at)
    BY <1>1, RequestsMove
  <2> QED
    BY <2>1, <1>1 DEF Save, Moves, RequestRecord, NotesTypeOK, Entries, Later, Hears
<1>2. ASSUME NEW n \in Entries, SaveElsewhere(n) PROVE NotesTypeOK'
  <2>1. Moves(n, "write", request[n].old, request[n].at)
    BY <1>2, RequestsMove
  <2> QED
    BY <2>1, <1>2 DEF SaveElsewhere, Moves, RequestRecord, NotesTypeOK, Entries, Later, Hears
<1>3. ASSUME NEW n \in Entries, ReadColumn(n) PROVE NotesTypeOK'
  <2>1. Moves(n, request[n].pc, stored, request[n].at)
    BY <1>3, RequestsMove
  <2> QED
    BY <2>1, <1>3 DEF ReadColumn, Moves, RequestRecord, NotesTypeOK, Entries, Later, Hears
<1>4. ASSUME NEW n \in Entries, WriteEntry(n) PROVE NotesTypeOK'
  <2>1. Moves(n, "written", {}, version + 1)
    BY <1>4, RequestsMove
  <2> QED
    BY <2>1, <1>4 DEF WriteEntry, Store, Moves, RequestRecord, NotesTypeOK, Entries, Later, Hears
<1>5. ASSUME NEW n \in Entries, TellPages(n) PROVE NotesTypeOK'
  <2>1. Moves(n, IF n \in Mine THEN "told" ELSE "kept", request[n].old, request[n].at)
    BY <1>5, RequestsMove
  <2> QED
    BY <2>1, <1>5 DEF TellPages, Moves, RequestRecord, NotesTypeOK, Entries, Later, Hears
<1>6. ASSUME NEW n \in Entries, Answer(n) PROVE NotesTypeOK'
  <2>1. Moves(n, "kept", request[n].old, request[n].at)
    BY <1>6, RequestsMove
  <2> QED
    BY <2>1, <1>6 DEF Answer, Answered, Moves, RequestRecord, NotesTypeOK, Entries, Later, Hears
<1>7. ASSUME NEW n \in Entries, RefuseEntry(n) PROVE NotesTypeOK'
  <2>1. Moves(n, "gone", {}, request[n].at)
    BY <1>7, RequestsMove
  <2> QED
    BY <2>1, <1>7 DEF RefuseEntry, Moves, RequestRecord, NotesTypeOK, Entries, Later, Hears
<1>8. ASSUME NEW n \in Entries, Delete(n) PROVE NotesTypeOK'
  <2>1. Moves(n, "drop", request[n].old, request[n].at)
    BY <1>8, RequestsMove
  <2> QED
    BY <2>1, <1>8 DEF Delete, Moves, RequestRecord, NotesTypeOK, Entries, Later, Hears
<1>9. ASSUME NEW n \in Entries, WriteDelete(n) PROVE NotesTypeOK'
  <2>1. Moves(n, "dropped", {}, version + 1)
    BY <1>9, RequestsMove
  <2> QED
    BY <2>1, <1>9 DEF WriteDelete, Store, Moves, RequestRecord, NotesTypeOK, Entries, Later, Hears
<1>10. ASSUME NEW n \in Entries, DeleteFails(n) PROVE NotesTypeOK'
  <2>1. Moves(n, "kept", {}, request[n].at)
    BY <1>10, RequestsMove
  <2> QED
    BY <2>1, <1>10 DEF DeleteFails, Moves, RequestRecord, NotesTypeOK, Entries, Later, Hears
<1>11. ASSUME NEW n \in Entries, DeleteAnswer(n) PROVE NotesTypeOK'
  <2>1. Moves(n, "gone", request[n].old, request[n].at)
    BY <1>11, RequestsMove
  <2> QED
    BY <2>1, <1>11 DEF DeleteAnswer, Moves, RequestRecord, NotesTypeOK, Entries, Later, Hears
<1>12. ASSUME NEW l \in Loads, Ask(l) PROVE NotesTypeOK'
  BY <1>12 DEF Ask, NotesTypeOK, Entries, Later, Hears
<1>13. ASSUME NEW l \in Loads, ServeLoad(l) PROVE NotesTypeOK'
  BY <1>13 DEF ServeLoad, NoLoad, NotesTypeOK, Entries, Later, Hears
<1>14. ASSUME NEW l \in Loads, Apply(l) PROVE NotesTypeOK'
  BY <1>14 DEF Apply, Loaded, NoLoad, NotesTypeOK, Entries, Later, Hears
<1>15. CASE Unheard
  BY <1>15 DEF Unheard, NotesTypeOK, Entries, Later, Hears
<1>16. CASE UNCHANGED noteVars
  BY <1>16 DEF noteVars, NotesTypeOK, Entries, Later, Hears
<1> QED
  BY <1>1, <1>2, <1>3, <1>4, <1>5, <1>6, <1>7, <1>8, <1>9, <1>10, <1>11, <1>12, <1>13, <1>14, <1>15, <1>16 DEF NotesNext

LEMMA EntriesNext ==
  ASSUME NotesTypeOK, EntriesHold, [NotesNext]_noteVars
  PROVE  EntriesHold'
<1> USE EntriesAssumption
<1>1. ASSUME NEW n \in Entries, Save(n) PROVE EntriesHold'
  <2>1. Moves(n, "write", request[n].old, request[n].at)
    BY <1>1, RequestsMove
  <2> QED
    BY <2>1, <1>1 DEF Save, Moves, RequestRecord, NotesTypeOK, EntriesHold, Entries, Shows, Column
<1>2. ASSUME NEW n \in Entries, SaveElsewhere(n) PROVE EntriesHold'
  <2>1. Moves(n, "write", request[n].old, request[n].at)
    BY <1>2, RequestsMove
  <2> QED
    BY <2>1, <1>2 DEF SaveElsewhere, Moves, RequestRecord, NotesTypeOK, EntriesHold, Entries, Shows, Column
<1>3. ASSUME NEW n \in Entries, ReadColumn(n) PROVE EntriesHold'
  <2>1. Moves(n, request[n].pc, stored, request[n].at)
    BY <1>3, RequestsMove
  <2> QED
    BY <2>1, <1>3 DEF ReadColumn, Moves, RequestRecord, NotesTypeOK, EntriesHold, Entries, Shows, Column
<1>4. ASSUME NEW n \in Entries, WriteEntry(n) PROVE EntriesHold'
  <2>1. Moves(n, "written", {}, version + 1)
    BY <1>4, RequestsMove
  <2> QED
    BY <2>1, <1>4 DEF WriteEntry, Store, Moves, RequestRecord, NotesTypeOK, EntriesHold, Entries, Shows, Column
<1>5. ASSUME NEW n \in Entries, TellPages(n) PROVE EntriesHold'
  <2>1. Moves(n, IF n \in Mine THEN "told" ELSE "kept", request[n].old, request[n].at)
    BY <1>5, RequestsMove
  <2>2. /\ \A m \in Entries : request'[m].old = request[m].old
        /\ \A m \in Entries : m # n => request'[m].pc = request[m].pc
        /\ request'[n].pc = IF n \in Mine THEN "told" ELSE "kept"
        /\ request[n].pc = "written"
        /\ UNCHANGED <<page, stored, listed, load>>
    BY <2>1, <1>5 DEF TellPages, Moves
  <2>3. \A m \in Entries : request'[m].pc = "none" => request[m].pc = "none"
    BY <2>2
  <2>4. \A m \in Entries : m \in Mine /\ request[m].pc \in {"write", "written", "told"} =>
                                request'[m].pc \in {"write", "written", "told"}
    BY <2>2
  <2>5. \A m \in Entries : request'[m].pc \in {"drop", "dropped"} => request[m].pc \in {"drop", "dropped"}
    BY <2>2
  <2> QED
    BY <2>2, <2>3, <2>4, <2>5 DEF EntriesHold, Shows
<1>6. ASSUME NEW n \in Entries, Answer(n) PROVE EntriesHold'
  <2>1. Moves(n, "kept", request[n].old, request[n].at)
    BY <1>6, RequestsMove
  <2> QED
    BY <2>1, <1>6 DEF Answer, Answered, Moves, RequestRecord, NotesTypeOK, EntriesHold, Entries, Shows, Column
<1>7. ASSUME NEW n \in Entries, RefuseEntry(n) PROVE EntriesHold'
  <2>1. Moves(n, "gone", {}, request[n].at)
    BY <1>7, RequestsMove
  <2> QED
    BY <2>1, <1>7 DEF RefuseEntry, Moves, RequestRecord, NotesTypeOK, EntriesHold, Entries, Shows, Column
<1>8. ASSUME NEW n \in Entries, Delete(n) PROVE EntriesHold'
  <2>1. Moves(n, "drop", request[n].old, request[n].at)
    BY <1>8, RequestsMove
  <2> QED
    BY <2>1, <1>8 DEF Delete, Moves, RequestRecord, NotesTypeOK, EntriesHold, Entries, Shows, Column
<1>9. ASSUME NEW n \in Entries, WriteDelete(n) PROVE EntriesHold'
  <2>1. Moves(n, "dropped", {}, version + 1)
    BY <1>9, RequestsMove
  <2> QED
    BY <2>1, <1>9 DEF WriteDelete, Store, Moves, RequestRecord, NotesTypeOK, EntriesHold, Entries, Shows, Column
<1>10. ASSUME NEW n \in Entries, DeleteFails(n) PROVE EntriesHold'
  <2>1. Moves(n, "kept", {}, request[n].at)
    BY <1>10, RequestsMove
  <2> QED
    BY <2>1, <1>10 DEF DeleteFails, Moves, RequestRecord, NotesTypeOK, EntriesHold, Entries, Shows, Column
<1>11. ASSUME NEW n \in Entries, DeleteAnswer(n) PROVE EntriesHold'
  <2>1. Moves(n, "gone", request[n].old, request[n].at)
    BY <1>11, RequestsMove
  <2> QED
    BY <2>1, <1>11 DEF DeleteAnswer, Moves, RequestRecord, NotesTypeOK, EntriesHold, Entries, Shows, Column
<1>12. ASSUME NEW l \in Loads, Ask(l) PROVE EntriesHold'
  BY <1>12 DEF Ask, NotesTypeOK, EntriesHold, Entries, Shows, Column
<1>13. ASSUME NEW l \in Loads, ServeLoad(l) PROVE EntriesHold'
  BY <1>13 DEF ServeLoad, NoLoad, NotesTypeOK, EntriesHold, Entries, Shows, Column
<1>14. ASSUME NEW l \in Loads, Apply(l) PROVE EntriesHold'
  BY <1>14 DEF Apply, Loaded, NoLoad, NotesTypeOK, EntriesHold, Entries, Shows, Column
<1>15. CASE Unheard
  BY <1>15 DEF Unheard, NotesTypeOK, EntriesHold, Entries, Shows, Column
<1>16. CASE UNCHANGED noteVars
  BY <1>16 DEF noteVars, NotesTypeOK, EntriesHold, Entries, Shows, Column
<1> QED
  BY <1>1, <1>2, <1>3, <1>4, <1>5, <1>6, <1>7, <1>8, <1>9, <1>10, <1>11, <1>12, <1>13, <1>14, <1>15, <1>16 DEF NotesNext

LEMMA VersionsNext ==
  ASSUME NotesTypeOK, VersionsHold, [NotesNext]_noteVars
  PROVE  VersionsHold'
<1>1. ASSUME NEW n \in Entries, Save(n) PROVE VersionsHold'
  <2>1. Moves(n, "write", request[n].old, request[n].at)
    BY <1>1, RequestsMove
  <2> QED
    BY <2>1, <1>1 DEF Save, Moves, RequestRecord, NotesTypeOK, VersionsHold, Later
<1>2. ASSUME NEW n \in Entries, SaveElsewhere(n) PROVE VersionsHold'
  <2>1. Moves(n, "write", request[n].old, request[n].at)
    BY <1>2, RequestsMove
  <2> QED
    BY <2>1, <1>2 DEF SaveElsewhere, Moves, RequestRecord, NotesTypeOK, VersionsHold, Later
<1>3. ASSUME NEW n \in Entries, ReadColumn(n) PROVE VersionsHold'
  <2>1. Moves(n, request[n].pc, stored, request[n].at)
    BY <1>3, RequestsMove
  <2> QED
    BY <2>1, <1>3 DEF ReadColumn, Moves, RequestRecord, NotesTypeOK, VersionsHold, Later
<1>4. ASSUME NEW n \in Entries, WriteEntry(n) PROVE VersionsHold'
  <2>1. Moves(n, "written", {}, version + 1)
    BY <1>4, RequestsMove
  <2> QED
    BY <2>1, <1>4 DEF WriteEntry, Store, Moves, RequestRecord, NotesTypeOK, VersionsHold, Later
<1>5. ASSUME NEW n \in Entries, TellPages(n) PROVE VersionsHold'
  <2>1. Moves(n, IF n \in Mine THEN "told" ELSE "kept", request[n].old, request[n].at)
    BY <1>5, RequestsMove
  <2> QED
    BY <2>1, <1>5 DEF TellPages, Moves, RequestRecord, NotesTypeOK, VersionsHold, Later
<1>6. ASSUME NEW n \in Entries, Answer(n) PROVE VersionsHold'
  <2>1. Moves(n, "kept", request[n].old, request[n].at)
    BY <1>6, RequestsMove
  <2> QED
    BY <2>1, <1>6 DEF Answer, Answered, Moves, RequestRecord, NotesTypeOK, VersionsHold, Later
<1>7. ASSUME NEW n \in Entries, RefuseEntry(n) PROVE VersionsHold'
  <2>1. Moves(n, "gone", {}, request[n].at)
    BY <1>7, RequestsMove
  <2> QED
    BY <2>1, <1>7 DEF RefuseEntry, Moves, RequestRecord, NotesTypeOK, VersionsHold, Later
<1>8. ASSUME NEW n \in Entries, Delete(n) PROVE VersionsHold'
  <2>1. Moves(n, "drop", request[n].old, request[n].at)
    BY <1>8, RequestsMove
  <2> QED
    BY <2>1, <1>8 DEF Delete, Moves, RequestRecord, NotesTypeOK, VersionsHold, Later
<1>9. ASSUME NEW n \in Entries, WriteDelete(n) PROVE VersionsHold'
  <2>1. Moves(n, "dropped", {}, version + 1)
    BY <1>9, RequestsMove
  <2> QED
    BY <2>1, <1>9 DEF WriteDelete, Store, Moves, RequestRecord, NotesTypeOK, VersionsHold, Later
<1>10. ASSUME NEW n \in Entries, DeleteFails(n) PROVE VersionsHold'
  <2>1. Moves(n, "kept", {}, request[n].at)
    BY <1>10, RequestsMove
  <2> QED
    BY <2>1, <1>10 DEF DeleteFails, Moves, RequestRecord, NotesTypeOK, VersionsHold, Later
<1>11. ASSUME NEW n \in Entries, DeleteAnswer(n) PROVE VersionsHold'
  <2>1. Moves(n, "gone", request[n].old, request[n].at)
    BY <1>11, RequestsMove
  <2> QED
    BY <2>1, <1>11 DEF DeleteAnswer, Moves, RequestRecord, NotesTypeOK, VersionsHold, Later
<1>12. ASSUME NEW l \in Loads, Ask(l) PROVE VersionsHold'
  BY <1>12 DEF Ask, NotesTypeOK, VersionsHold, Later
<1>13. ASSUME NEW l \in Loads, ServeLoad(l) PROVE VersionsHold'
  BY <1>13 DEF ServeLoad, NoLoad, NotesTypeOK, VersionsHold, Later
<1>14. ASSUME NEW l \in Loads, Apply(l) PROVE VersionsHold'
  BY <1>14 DEF Apply, Loaded, NoLoad, NotesTypeOK, VersionsHold, Later
<1>15. CASE Unheard
  BY <1>15 DEF Unheard, NotesTypeOK, VersionsHold, Later
<1>16. CASE UNCHANGED noteVars
  BY <1>16 DEF noteVars, NotesTypeOK, VersionsHold, Later
<1> QED
  BY <1>1, <1>2, <1>3, <1>4, <1>5, <1>6, <1>7, <1>8, <1>9, <1>10, <1>11, <1>12, <1>13, <1>14, <1>15, <1>16 DEF NotesNext

LEMMA HearingNext ==
  ASSUME NotesTypeOK, EntriesHold, VersionsHold, HearingHolds, [NotesNext]_noteVars
  PROVE  HearingHolds'
<1> USE EntriesAssumption
<1>1. ASSUME NEW n \in Entries, Save(n) PROVE HearingHolds'
  <2>1. Moves(n, "write", request[n].old, request[n].at)
    BY <1>1, RequestsMove
  <2> QED
    BY <2>1, <1>1 DEF Save, Moves, RequestRecord, NotesTypeOK, EntriesHold, VersionsHold, HearingHolds, Hears, Coming, InStep, Entries, Shows, Column, Later
<1>2. ASSUME NEW n \in Entries, SaveElsewhere(n) PROVE HearingHolds'
  <2>1. Moves(n, "write", request[n].old, request[n].at)
    BY <1>2, RequestsMove
  <2> QED
    BY <2>1, <1>2 DEF SaveElsewhere, Moves, RequestRecord, NotesTypeOK, EntriesHold, VersionsHold, HearingHolds, Hears, Coming, InStep, Entries, Shows, Column, Later
<1>3. ASSUME NEW n \in Entries, ReadColumn(n) PROVE HearingHolds'
  <2>1. Moves(n, request[n].pc, stored, request[n].at)
    BY <1>3, RequestsMove
  <2> QED
    BY <2>1, <1>3 DEF ReadColumn, Moves, RequestRecord, NotesTypeOK, EntriesHold, VersionsHold, HearingHolds, Hears, Coming, InStep, Entries, Shows, Column, Later
<1>4. ASSUME NEW n \in Entries, WriteEntry(n) PROVE HearingHolds'
  <2>1. Moves(n, "written", {}, version + 1)
    BY <1>4, RequestsMove
  <2> QED
    BY <2>1, <1>4 DEF WriteEntry, Store, Moves, RequestRecord, NotesTypeOK, EntriesHold, VersionsHold, HearingHolds, Hears, Coming, InStep, Entries, Shows, Column, Later
<1>5. ASSUME NEW n \in Entries, TellPages(n) PROVE HearingHolds'
  <2>1. Moves(n, IF n \in Mine THEN "told" ELSE "kept", request[n].old, request[n].at)
    BY <1>5, RequestsMove
  <2> QED
    BY <2>1, <1>5 DEF TellPages, Moves, RequestRecord, NotesTypeOK, EntriesHold, VersionsHold, HearingHolds, Hears, Coming, InStep, Entries, Shows, Column, Later
<1>6. ASSUME NEW n \in Entries, Answer(n) PROVE HearingHolds'
  <2>1. Moves(n, "kept", request[n].old, request[n].at)
    BY <1>6, RequestsMove
  <2> QED
    BY <2>1, <1>6 DEF Answer, Answered, Moves, RequestRecord, NotesTypeOK, EntriesHold, VersionsHold, HearingHolds, Hears, Coming, InStep, Entries, Shows, Column, Later
<1>7. ASSUME NEW n \in Entries, RefuseEntry(n) PROVE HearingHolds'
  <2>1. Moves(n, "gone", {}, request[n].at)
    BY <1>7, RequestsMove
  <2> QED
    BY <2>1, <1>7 DEF RefuseEntry, Moves, RequestRecord, NotesTypeOK, EntriesHold, VersionsHold, HearingHolds, Hears, Coming, InStep, Entries, Shows, Column, Later
<1>8. ASSUME NEW n \in Entries, Delete(n) PROVE HearingHolds'
  <2>1. Moves(n, "drop", request[n].old, request[n].at)
    BY <1>8, RequestsMove
  <2> QED
    BY <2>1, <1>8 DEF Delete, Moves, RequestRecord, NotesTypeOK, EntriesHold, VersionsHold, HearingHolds, Hears, Coming, InStep, Entries, Shows, Column, Later
<1>9. ASSUME NEW n \in Entries, WriteDelete(n) PROVE HearingHolds'
  <2>1. Moves(n, "dropped", {}, version + 1)
    BY <1>9, RequestsMove
  <2>2. page' = page /\ (Hears' => page = "ship")
    BY <1>9, EntriesAssumption DEF WriteDelete, NotesTypeOK, EntriesHold, Hears
  <2> QED
    BY <2>1, <2>2 DEF Moves, HearingHolds, Coming
<1>10. ASSUME NEW n \in Entries, DeleteFails(n) PROVE HearingHolds'
  <2>1. Moves(n, "kept", {}, request[n].at)
    BY <1>10, RequestsMove
  <2> QED
    BY <2>1, <1>10 DEF DeleteFails, Moves, RequestRecord, NotesTypeOK, EntriesHold, VersionsHold, HearingHolds, Hears, Coming, InStep, Entries, Shows, Column, Later
<1>11. ASSUME NEW n \in Entries, DeleteAnswer(n) PROVE HearingHolds'
  <2>1. Moves(n, "gone", request[n].old, request[n].at)
    BY <1>11, RequestsMove
  <2>2. Hears' => due' > 0
    BY <1>11, EntriesAssumption DEF DeleteAnswer, NotesTypeOK, EntriesHold, Hears
  <2> QED
    BY <2>2 DEF HearingHolds, Coming
<1>12. ASSUME NEW l \in Loads, Ask(l) PROVE HearingHolds'
  BY <1>12 DEF Ask, NotesTypeOK, EntriesHold, VersionsHold, HearingHolds, Hears, Coming, InStep, Entries, Shows, Column, Later
<1>13. ASSUME NEW l \in Loads, ServeLoad(l) PROVE HearingHolds'
  BY <1>13 DEF ServeLoad, NoLoad, NotesTypeOK, EntriesHold, VersionsHold, HearingHolds, Hears, Coming, InStep, Entries, Shows, Column, Later
<1>14. ASSUME NEW l \in Loads, Apply(l) PROVE HearingHolds'
  <2>01. load[l] \in LoadRecord
    BY DEF NotesTypeOK, LoadRecord
  <2>02. load[l].pc = "back" /\ load[l].at \in Nat /\ newest \in Nat /\ version \in Nat /\ astray \in BOOLEAN
    BY <1>14, <2>01 DEF Apply, NotesTypeOK, LoadRecord
  <2>03. page' = page /\ (Hears' <=> Hears) /\ (~astray' => ~astray /\ load[l].at >= newest)
    <3>1. ~astray' => ~astray /\ ~(load[l].at < newest)
      BY <1>14, Zenon DEF Apply
    <3>2. page' = page
      BY <1>14 DEF Apply
    <3> QED
      BY <2>02, <3>1, <3>2 DEF Hears
  <2> SUFFICES ASSUME Hears, ~astray, load[l].at >= newest PROVE Coming' \/ InStep'
    BY <2>03 DEF HearingHolds
  <2>0. /\ load[l].pc = "back" /\ load[l].at \in Nat /\ load[l].at <= version
        /\ newest' = load[l].at /\ version' = version /\ page' = page /\ stored' = stored
        /\ listed' = Loaded(load[l].got) /\ due' = due /\ request' = request
        /\ \A k \in Loads : k # l => load'[k] = load[k]
    <3>1. load[l].at <= version
      BY <2>02 DEF VersionsHold
    <3>2. Later(load[l].at) = load[l].at
      BY <2>02 DEF Later
    <3>3. \A k \in Loads : k # l => load'[k] = load[k]
      BY <1>14 DEF Apply, NotesTypeOK
    <3> QED
      BY <1>14, <2>02, <3>1, <3>2, <3>3 DEF Apply
  <2>1. CASE load[l].at = version
    <3>1. load[l].got = stored
      BY <2>0, <2>1 DEF VersionsHold
    <3>2. \A n \in Mine : Shows(n, "real")' <=> n \in stored
      BY <2>0, <3>1 DEF Shows, Loaded
    <3>3. page = "ship" => \A n \in Mine : ~Shows(n, "temp")'
      BY <2>0 DEF Shows, Loaded
    <3> QED
      BY <2>0, <2>1, <3>2, <3>3 DEF InStep
  <2>2. CASE load[l].at < version
    <3>1. ~InStep
      BY <2>0, <2>2 DEF InStep, NotesTypeOK
    <3>2. Coming
      BY <3>1 DEF HearingHolds
    <3> QED
      BY <2>0, <2>2, <3>2 DEF Coming, NotesTypeOK
  <2>3. load[l].at = version \/ load[l].at < version
    BY <2>0, <2>02
  <2> QED
    BY <2>1, <2>2, <2>3
<1>15. CASE Unheard
  BY <1>15 DEF Unheard, NotesTypeOK, EntriesHold, VersionsHold, HearingHolds, Hears, Coming, InStep, Entries, Shows, Column, Later
<1>16. CASE UNCHANGED noteVars
  BY <1>16 DEF noteVars, NotesTypeOK, EntriesHold, VersionsHold, HearingHolds, Hears, Coming, InStep, Entries, Shows, Column, Later
<1> QED
  BY <1>1, <1>2, <1>3, <1>4, <1>5, <1>6, <1>7, <1>8, <1>9, <1>10, <1>11, <1>12, <1>13, <1>14, <1>15, <1>16 DEF NotesNext

LEMMA DeafNext ==
  ASSUME NotesTypeOK, EntriesHold, DeafHolds, [NotesNext]_noteVars
  PROVE  DeafHolds'
<1> USE EntriesAssumption
<1>1. ASSUME NEW n \in Entries, Save(n) PROVE DeafHolds'
  <2>1. Moves(n, "write", request[n].old, request[n].at)
    BY <1>1, RequestsMove
  <2> QED
    BY <2>1, <1>1 DEF Save, Moves, RequestRecord, NotesTypeOK, EntriesHold, DeafHolds, Hears, Loading, Entries, Shows, Column
<1>2. ASSUME NEW n \in Entries, SaveElsewhere(n) PROVE DeafHolds'
  <2>1. Moves(n, "write", request[n].old, request[n].at)
    BY <1>2, RequestsMove
  <2> QED
    BY <2>1, <1>2 DEF SaveElsewhere, Moves, RequestRecord, NotesTypeOK, EntriesHold, DeafHolds, Hears, Loading, Entries, Shows, Column
<1>3. ASSUME NEW n \in Entries, ReadColumn(n) PROVE DeafHolds'
  <2>1. Moves(n, request[n].pc, stored, request[n].at)
    BY <1>3, RequestsMove
  <2> QED
    BY <2>1, <1>3 DEF ReadColumn, Moves, RequestRecord, NotesTypeOK, EntriesHold, DeafHolds, Hears, Loading, Entries, Shows, Column
<1>4. ASSUME NEW n \in Entries, WriteEntry(n) PROVE DeafHolds'
  <2>1. Moves(n, "written", {}, version + 1)
    BY <1>4, RequestsMove
  <2> QED
    BY <2>1, <1>4 DEF WriteEntry, Store, Moves, RequestRecord, NotesTypeOK, EntriesHold, DeafHolds, Hears, Loading, Entries, Shows, Column
<1>5. ASSUME NEW n \in Entries, TellPages(n) PROVE DeafHolds'
  <2>1. Moves(n, IF n \in Mine THEN "told" ELSE "kept", request[n].old, request[n].at)
    BY <1>5, RequestsMove
  <2> QED
    BY <2>1, <1>5 DEF TellPages, Moves, RequestRecord, NotesTypeOK, EntriesHold, DeafHolds, Hears, Loading, Entries, Shows, Column
<1>6. ASSUME NEW n \in Entries, Answer(n) PROVE DeafHolds'
  <2>1. Moves(n, "kept", request[n].old, request[n].at)
    BY <1>6, RequestsMove
  <2> QED
    BY <2>1, <1>6 DEF Answer, Answered, Moves, RequestRecord, NotesTypeOK, EntriesHold, DeafHolds, Hears, Loading, Entries, Shows, Column
<1>7. ASSUME NEW n \in Entries, RefuseEntry(n) PROVE DeafHolds'
  <2>1. Moves(n, "gone", {}, request[n].at)
    BY <1>7, RequestsMove
  <2> QED
    BY <2>1, <1>7 DEF RefuseEntry, Moves, RequestRecord, NotesTypeOK, EntriesHold, DeafHolds, Hears, Loading, Entries, Shows, Column
<1>8. ASSUME NEW n \in Entries, Delete(n) PROVE DeafHolds'
  <2>1. Moves(n, "drop", request[n].old, request[n].at)
    BY <1>8, RequestsMove
  <2> QED
    BY <2>1, <1>8 DEF Delete, Moves, RequestRecord, NotesTypeOK, EntriesHold, DeafHolds, Hears, Loading, Entries, Shows, Column
<1>9. ASSUME NEW n \in Entries, WriteDelete(n) PROVE DeafHolds'
  <2>1. Moves(n, "dropped", {}, version + 1)
    BY <1>9, RequestsMove
  <2> QED
    BY <2>1, <1>9 DEF WriteDelete, Store, Moves, RequestRecord, NotesTypeOK, EntriesHold, DeafHolds, Hears, Loading, Entries, Shows, Column
<1>10. ASSUME NEW n \in Entries, DeleteFails(n) PROVE DeafHolds'
  <2>1. Moves(n, "kept", {}, request[n].at)
    BY <1>10, RequestsMove
  <2> QED
    BY <2>1, <1>10 DEF DeleteFails, Moves, RequestRecord, NotesTypeOK, EntriesHold, DeafHolds, Hears, Loading, Entries, Shows, Column
<1>11. ASSUME NEW n \in Entries, DeleteAnswer(n) PROVE DeafHolds'
  <2>1. Moves(n, "gone", request[n].old, request[n].at)
    BY <1>11, RequestsMove
  <2> QED
    BY <2>1, <1>11 DEF DeleteAnswer, Moves, RequestRecord, NotesTypeOK, EntriesHold, DeafHolds, Hears, Loading, Entries, Shows, Column
<1>12. ASSUME NEW l \in Loads, Ask(l) PROVE DeafHolds'
  BY <1>12 DEF Ask, NotesTypeOK, EntriesHold, DeafHolds, Hears, Loading, Entries, Shows, Column
<1>13. ASSUME NEW l \in Loads, ServeLoad(l) PROVE DeafHolds'
  BY <1>13 DEF ServeLoad, NoLoad, NotesTypeOK, EntriesHold, DeafHolds, Hears, Loading, Entries, Shows, Column
<1>14. ASSUME NEW l \in Loads, Apply(l) PROVE DeafHolds'
  BY <1>14 DEF Apply, Loaded, NoLoad, NotesTypeOK, EntriesHold, DeafHolds, Hears, Loading, Entries, Shows, Column
<1>15. CASE Unheard
  BY <1>15 DEF Unheard, NotesTypeOK, EntriesHold, DeafHolds, Hears, Loading, Entries, Shows, Column
<1>16. CASE UNCHANGED noteVars
  BY <1>16 DEF noteVars, NotesTypeOK, EntriesHold, DeafHolds, Hears, Loading, Entries, Shows, Column
<1> QED
  BY <1>1, <1>2, <1>3, <1>4, <1>5, <1>6, <1>7, <1>8, <1>9, <1>10, <1>11, <1>12, <1>13, <1>14, <1>15, <1>16 DEF NotesNext

LEMMA NotesAlways == NotesSpec => []NotesInv
<1>1. NotesInit => NotesInv
  <2> SUFFICES ASSUME NotesInit PROVE NotesInv
    OBVIOUS
  <2>0. \A n \in Entries : /\ request[n].pc = "none" /\ request[n].old = {} /\ request[n].at = 0
    BY DEF NotesInit
  <2>1. \A l \in Loads : load[l].pc = "idle" /\ load[l].got = {}
    BY DEF NotesInit, NoLoad
  <2>2. NotesTypeOK
    <3>1. NoLoad \in LoadRecord
      BY DEF NoLoad, LoadRecord
    <3>2. load \in [Loads -> LoadRecord]
      BY <3>1 DEF NotesInit
    <3>3. [pc |-> "none", old |-> {}, read |-> FALSE, at |-> 0] \in RequestRecord
      BY DEF RequestRecord, RequestPc
    <3>4. request \in [Entries -> RequestRecord]
      BY <3>3 DEF NotesInit
    <3>5. {version, due, begun, newest} \subseteq Nat
      BY DEF NotesInit
    <3> QED
      BY <3>2, <3>4, <3>5 DEF NotesInit, NotesTypeOK, LoadRecord, RequestRecord
  <2>3. EntriesHold
    BY <2>0, <2>1 DEF NotesInit, EntriesHold, Shows
  <2>4. VersionsHold
    BY <2>0, <2>1 DEF NotesInit, VersionsHold
  <2>5. HearingHolds
    BY <2>0 DEF NotesInit, HearingHolds, InStep, Shows
  <2>6. DeafHolds
    BY <2>0 DEF NotesInit, DeafHolds, Shows, Entries
  <2> QED
    BY <2>2, <2>3, <2>4, <2>5, <2>6 DEF NotesInv
<1>2. NotesInv /\ [NotesNext]_noteVars => NotesInv'
  BY NotesTypesNext, EntriesNext, VersionsNext, HearingNext, DeafNext DEF NotesInv
<1> QED
  BY <1>1, <1>2, PTL DEF NotesSpec

(* The notes, their requests and loads keep their types, for any entries.    *)
THEOREM NoteTypes == NotesSpec => []NotesTypeOK
<1>1. NotesInv => NotesTypeOK
  BY DEF NotesInv
<1> QED
  BY <1>1, NotesAlways, PTL

(* For any entries, loads and order of answers: a page of a ship, a ticket   *)
(* or an assignment at rest shows of its user's notes or messages what the   *)
(* server has, but for the cases the property names                          *)
(* (useShipCert.tsx:211-292, useTicketActions.ts:33-145,                     *)
(* useAssignmentActions.tsx:183-223).                                        *)
THEOREM NotesSettle == NotesSpec => []PageSettles
<1>1. NotesInv => PageSettles
  <2> SUFFICES ASSUME NotesInv, ~astray PROVE PageSettles
    BY DEF PageSettles
  <2>1. ASSUME Quiet PROVE {e \in listed : e[1] \in Mine} = (stored \cap Mine) \X {"real"}
    <3>1. \A n \in Mine : ~Shows(n, "temp")
      BY <2>1 DEF NotesInv, EntriesHold, Quiet, Entries
    <3>2. \A n \in Mine : Shows(n, "real") <=> n \in stored
      <4>1. CASE Hears
        <5>1. ~Coming
          BY <2>1 DEF Coming, Quiet, Loading
        <5> QED
          BY <4>1, <5>1 DEF NotesInv, HearingHolds, InStep
      <4>2. CASE ~Hears
        BY <2>1, <4>2 DEF NotesInv, DeafHolds, Quiet, Entries
      <4> QED
        BY <4>1, <4>2
    <3>3. listed \subseteq Entries \X {"temp", "real"}
      BY DEF NotesInv, NotesTypeOK
    <3> QED
      BY <3>1, <3>2, <3>3 DEF Shows
  <2>2. ASSUME page = "ship", NEW n \in Mine
        PROVE  {<<n, "temp">>, <<n, "real">>} \cap listed # {<<n, "temp">>, <<n, "real">>}
    <3>1. ~(Shows(n, "temp") /\ Shows(n, "real"))
      BY <2>2 DEF NotesInv, EntriesHold, Entries
    <3> QED
      BY <3>1 DEF Shows
  <2> QED
    BY <2>1, <2>2 DEF PageSettles
<1> QED
  BY <1>1, NotesAlways, PTL

------------------------------------------------------------------------------
(* The page of a ship cert                                                   *)

ShownKinds == Kinds \cup {BlankSheet.kind}
SheetRec == [loaded : BOOLEAN, status : CertStates, by : Holders, since : Nat, locked : BOOLEAN,
             kind : ShownKinds, sum : Sums \cup {0}, film : Films \cup {NoFilm}, holder : Holders]
CertRec == [status : CertStates, holder : Holders, since : Nat, kind : ShownKinds,
            sum : Sums \cup {0}, film : Films \cup {NoFilm}, reship : BOOLEAN]
FormRec == [file : Films \cup {NoFilm}, url : Films \cup {NoFilm}, uploading : BOOLEAN,
            dialog : Decided \cup {"closed"}, field : Sums \cup {0}, left : BOOLEAN]
CallRec == [what : {"none", "claim", "unclaim", "verdict"}, verdict : CertStates,
            film : Films \cup {NoFilm}, pc : {"none", "sent", "ok", "refused"}]
FetchRec == [pc : {"none", "sent", "back"}, got : SheetRec, late : SUBSET EditedFields]
PatchRec == [pc : {"none", "sent"}, of : {"kind", "sum"}, to : ShownKinds \cup Sums \cup {0}]

CertPageTypes ==
  /\ rank \in Ranks /\ sheet \in SheetRec /\ certRow \in CertRec /\ form \in FormRec /\ call \in CallRec
  /\ fetches \in [Fetches -> FetchRec] /\ patching \in [PatchSlots -> PatchRec]
  /\ \A e \in PatchSlots : patching[e].pc # "none" /\ patching[e].of = "kind" => patching[e].to \in ShownKinds
  /\ \A e \in PatchSlots : patching[e].pc # "none" /\ patching[e].of = "sum" => patching[e].to \in Sums \cup {0}
  /\ tick \in Nat /\ outdated \in SUBSET EditedFields

(* A copy names the holder of a claim of a row that waits; when it names     *)
(* none though the row has one, that claim has lapsed.                       *)
Truthful(s) ==
  s.loaded =>
    /\ s.by # "nobody" => s.status = "pending" /\ s.holder = s.by
    /\ s.status = "pending" /\ s.by = "nobody" /\ s.holder # "nobody" => s.since + Lock <= tick
CopiesHold == Truthful(sheet) /\ \A f \in Fetches : fetches[f].pc = "back" => Truthful(fetches[f].got)

FileHolds == ~form.uploading /\ form.file # NoFilm => form.url = form.file

(* As long as no request met another: one edit is on its way at most and no  *)
(* load with it; but for the edit, the copies have the row's type and bounty *)
(* unless somebody else wrote that field since they were served.             *)
Agrees(s, old) ==
  /\ "kind" \in old \/ s.kind = certRow.kind
  /\ "sum" \in old \/ s.sum = certRow.sum
EditsHold ==
  ~muddled =>
    /\ \A f \in Fetches : fetches[f].pc = "back" => Agrees(fetches[f].got, fetches[f].late)
    /\ EditsOut => \A f \in Fetches : fetches[f].pc = "none"
    /\ \A d, e \in PatchSlots : patching[d].pc # "none" /\ patching[e].pc # "none" => d = e
    /\ \A e \in PatchSlots : patching[e].pc # "none" =>
         /\ patching[e].of = "kind" => sheet.kind = patching[e].to /\ Agrees(sheet, outdated \cup {"kind"})
         /\ patching[e].of = "sum" => sheet.sum = patching[e].to /\ Agrees(sheet, outdated \cup {"sum"})
    /\ sheet.loaded /\ ~EditsOut => Agrees(sheet, outdated)

CertPageInv == CertPageTypes /\ CopiesHold /\ FileHolds /\ EditsHold

FetchMoved(f, pc) ==
  /\ fetches' \in [Fetches -> FetchRec] /\ fetches'[f].pc = pc
  /\ \A g \in Fetches : g # f => fetches'[g] = fetches[g]

LEMMA FetchPut ==
  ASSUME CertPageTypes, NEW f \in Fetches, NEW r \in FetchRec, fetches' = [fetches EXCEPT ![f] = r]
  PROVE  FetchMoved(f, r.pc) /\ fetches'[f] = r
BY DEF CertPageTypes, FetchMoved

LEMMA SheetBlank == BlankSheet \in SheetRec /\ NoFetch \in FetchRec /\ NoFetch.pc = "none"
<1>1. BlankSheet \in SheetRec
  <2>1. BlankSheet.kind \in ShownKinds
    BY DEF ShownKinds
  <2> QED
    BY <2>1 DEF BlankSheet, SheetRec, CertStates, Holders
<1> QED
  BY <1>1 DEF NoFetch, FetchRec

LEMMA FetchSentForm ==
  ASSUME CertPageTypes, NEW f \in Fetches, fetches' = FetchSent(f)
  PROVE  FetchMoved(f, "sent")
<1> DEFINE r == [NoFetch EXCEPT !.pc = "sent"]
<1>1. r \in FetchRec /\ r.pc = "sent"
  BY SheetBlank DEF FetchRec
<1>2. fetches' = [fetches EXCEPT ![f] = r]
  BY DEF FetchSent
<1> HIDE DEF r
<1> QED
  BY <1>1, <1>2, FetchPut

LEMMA FetchGone ==
  ASSUME CertPageTypes, NEW f \in Fetches, fetches' = [fetches EXCEPT ![f] = NoFetch]
  PROVE  FetchMoved(f, "none")
BY FetchPut, SheetBlank

LEMMA AnswerForm ==
  ASSUME CertPageTypes
  PROVE  CertAnswer \in SheetRec /\ Agrees(CertAnswer, {}) /\ Truthful(CertAnswer)
<1>1. certRow.status \in CertStates /\ certRow.holder \in Holders /\ certRow.since \in Nat
      /\ certRow.kind \in ShownKinds /\ certRow.sum \in Sums \cup {0} /\ certRow.film \in Films \cup {NoFilm}
      /\ tick \in Nat
  BY DEF CertPageTypes, CertRec
<1> DEFINE names == certRow.status = "pending" /\ certRow.holder # "nobody" /\ ClaimLive(certRow.since)
<1>2. /\ CertAnswer.loaded = TRUE /\ CertAnswer.status = certRow.status /\ CertAnswer.since = certRow.since
      /\ CertAnswer.by = (IF names THEN certRow.holder ELSE "nobody")
      /\ CertAnswer.kind = certRow.kind /\ CertAnswer.sum = certRow.sum /\ CertAnswer.holder = certRow.holder
  BY DEF CertAnswer
<1>3. CertAnswer \in SheetRec
  BY <1>1 DEF CertAnswer, SheetRec, Holders
<1>4. Truthful(CertAnswer)
  BY <1>1, <1>2, LockAssumption DEF Truthful, ClaimLive
<1> QED
  BY <1>2, <1>3, <1>4 DEF Agrees

LEMMA CertServeForm ==
  ASSUME CertPageTypes, NEW f \in Fetches, ServeCert(f)
  PROVE  FetchMoved(f, "back") /\ fetches'[f].got = CertAnswer /\ fetches'[f].late = {}
<1> DEFINE r == [pc |-> "back", got |-> CertAnswer, late |-> {}]
<1>1. r \in FetchRec /\ r.pc = "back" /\ r.got = CertAnswer /\ r.late = {}
  BY AnswerForm DEF FetchRec
<1>2. fetches' = [fetches EXCEPT ![f] = r]
  BY DEF ServeCert
<1> HIDE DEF r
<1> QED
  BY <1>1, <1>2, FetchPut

(* Nothing but a new file, the end of its upload or both changes the file.   *)
SameFile == form'.file = form.file /\ form'.url = form.url /\ form'.uploading = form.uploading

LEMMA FormForms ==
  ASSUME CertPageTypes, NEW sum \in Sums \cup {0}, NEW d \in Decided \cup {"closed"}, NEW b \in BOOLEAN
  PROVE  /\ form' = [form EXCEPT !.field = FieldAfter(@, sum)] => form' \in FormRec /\ SameFile
         /\ form' = [form EXCEPT !.dialog = d] => form' \in FormRec /\ SameFile
         /\ form' = [form EXCEPT !.left = b] => form' \in FormRec /\ SameFile
         /\ form' = [form EXCEPT !.field = FieldAfter(sum, sheet.sum)] => form' \in FormRec /\ SameFile
<1>0. form \in FormRec /\ sheet.sum \in Sums \cup {0} /\ form.field \in Sums \cup {0}
  BY DEF CertPageTypes, SheetRec, FormRec
<1>1. FieldAfter(form.field, sum) \in Sums \cup {0} /\ FieldAfter(sum, sheet.sum) \in Sums \cup {0}
  BY <1>0 DEF FieldAfter
<1> QED
  BY <1>0, <1>1 DEF FormRec, SameFile

LEMMA FileForms ==
  ASSUME CertPageTypes
  PROVE  /\ \A film \in Films : ChooseFile(film) =>
              form' \in FormRec /\ form'.file = film /\ form'.url = form.url /\ form'.uploading
         /\ \A done \in BOOLEAN : form' = UploadEnds(done) =>
              form' \in FormRec /\ form'.file = (IF done THEN form.file ELSE NoFilm)
              /\ form'.url = (IF done THEN form.file ELSE form.url) /\ ~form'.uploading
<1>0. form \in FormRec /\ form.file \in Films \cup {NoFilm} /\ form.url \in Films \cup {NoFilm}
  BY DEF CertPageTypes, FormRec
<1>1. ASSUME NEW film \in Films, ChooseFile(film)
      PROVE  form' \in FormRec /\ form'.file = film /\ form'.url = form.url /\ form'.uploading
  BY <1>0, <1>1 DEF ChooseFile, FormRec
<1>2. ASSUME NEW done \in BOOLEAN, form' = UploadEnds(done)
      PROVE  form' \in FormRec /\ form'.file = (IF done THEN form.file ELSE NoFilm)
             /\ form'.url = (IF done THEN form.file ELSE form.url) /\ ~form'.uploading
  BY <1>0, <1>2 DEF UploadEnds, FormRec
<1> QED
  BY <1>1, <1>2

(* A write elsewhere marks the copies that were served before it.            *)
LEMMA OutdatesForm ==
  ASSUME CertPageTypes, NEW field \in EditedFields, Outdates(field)
  PROVE  /\ fetches' \in [Fetches -> FetchRec] /\ outdated' = outdated \cup {field}
         /\ outdated' \in SUBSET EditedFields
         /\ \A f \in Fetches :
              /\ fetches'[f].pc = fetches[f].pc /\ fetches'[f].got = fetches[f].got
              /\ fetches[f].pc = "back" => fetches'[f].late = fetches[f].late \cup {field}
<1> DEFINE Late(f) == IF fetches[f].pc = "back" THEN fetches[f].late \cup {field} ELSE fetches[f].late
<1>1. \A f \in Fetches : fetches[f] \in FetchRec /\ Late(f) \in SUBSET EditedFields
  BY DEF CertPageTypes, FetchRec
<1>2. fetches' = [f \in Fetches |-> [fetches[f] EXCEPT !.late = Late(f)]]
  BY DEF Outdates
<1> HIDE DEF Late
<1>3. \A f \in Fetches : fetches'[f] = [fetches[f] EXCEPT !.late = Late(f)]
  BY <1>2
<1>4. \A f \in Fetches : fetches'[f] \in FetchRec
  BY <1>1, <1>3 DEF FetchRec
<1>5. fetches' \in [Fetches -> FetchRec]
  BY <1>2, <1>3, <1>4
<1>6. \A f \in Fetches :
        fetches'[f].pc = fetches[f].pc /\ fetches'[f].got = fetches[f].got /\ fetches'[f].late = Late(f)
  BY <1>1, <1>3 DEF FetchRec
<1>7. outdated' = outdated \cup {field} /\ outdated' \in SUBSET EditedFields
  BY DEF Outdates, CertPageTypes
<1> QED
  BY <1>5, <1>6, <1>7 DEF Late

(* Claims, releases and verdicts change neither type nor bounty.             *)
RowMoved == certRow' \in CertRec /\ certRow'.kind = certRow.kind /\ certRow'.sum = certRow.sum

LEMMA RowForms ==
  ASSUME CertPageTypes
  PROVE  /\ certRow' \in {certRow, Claimed, Released, DecidedRow} => RowMoved
         /\ certRow' = [certRow EXCEPT !.holder = "other", !.since = tick] => RowMoved
         /\ \A v \in Decided : certRow' = [certRow EXCEPT !.status = v, !.holder = "nobody",
                                !.since = IF @ = 0 THEN tick ELSE @] => RowMoved
<1>0. /\ certRow \in CertRec /\ tick \in Nat /\ certRow.since \in Nat /\ call.verdict \in CertStates
      /\ call.film \in Films \cup {NoFilm} /\ Holders = {"nobody", "me", "other"} /\ Decided \subseteq CertStates
  BY DEF CertPageTypes, CertRec, CallRec, Holders, CertStates
<1>1. CASE certRow' = certRow
  BY <1>0, <1>1 DEF RowMoved
<1>2. CASE certRow' = Claimed
  BY <1>0, <1>2 DEF RowMoved, CertRec, Claimed
<1>3. CASE certRow' = Released
  BY <1>0, <1>3 DEF RowMoved, CertRec, Released
<1>4. CASE certRow' = DecidedRow
  <2> DEFINE s == IF certRow.since = 0 THEN tick ELSE certRow.since
  <2>1. certRow' = [certRow EXCEPT !.status = call.verdict, !.holder = "nobody", !.film = call.film, !.since = s]
    BY <1>4 DEF DecidedRow
  <2>2. s \in Nat
    BY <1>0
  <2> HIDE DEF s
  <2> QED
    BY <1>0, <2>1, <2>2 DEF RowMoved, CertRec
<1>5. CASE certRow' = [certRow EXCEPT !.holder = "other", !.since = tick]
  BY <1>0, <1>5 DEF RowMoved, CertRec
<1>6. ASSUME NEW v \in Decided, certRow' = [certRow EXCEPT !.status = v, !.holder = "nobody",
                                !.since = IF @ = 0 THEN tick ELSE @]
      PROVE  RowMoved
  <2> DEFINE s == IF certRow.since = 0 THEN tick ELSE certRow.since
  <2>1. certRow' = [certRow EXCEPT !.status = v, !.holder = "nobody", !.since = s]
    BY <1>6
  <2>2. s \in Nat /\ v \in CertStates
    BY <1>0
  <2> HIDE DEF s
  <2> QED
    BY <1>0, <2>1, <2>2 DEF RowMoved, CertRec
<1> QED
  BY <1>1, <1>2, <1>3, <1>4, <1>5, <1>6

LEMMA CallForms ==
  ASSUME CertPageTypes, NEW v \in CertStates
  PROVE  /\ Requests("claim", v, NoFilm) \/ Requests("unclaim", v, NoFilm) => call' \in CallRec
         /\ Requests("verdict", v, Film) => call' \in CallRec
         /\ call' = [call EXCEPT !.pc = "ok"] \/ call' = [call EXCEPT !.pc = "refused"] => call' \in CallRec
         /\ NoCall \in CallRec
<1>1. call \in CallRec /\ Film \in Films \cup {NoFilm}
  BY DEF CertPageTypes, Film, FormRec, SheetRec
<1> QED
  BY <1>1 DEF CallRec, Requests, NoCall, CertStates

(* An edit is sent; it is done.                                              *)
PatchMoved(e, pc, of, to) ==
  /\ patching' \in [PatchSlots -> PatchRec]
  /\ patching'[e].pc = pc /\ patching'[e].of = of /\ patching'[e].to = to
  /\ \A d \in PatchSlots : d # e => patching'[d] = patching[d]

LEMMA PatchForms ==
  ASSUME CertPageTypes, NEW e \in PatchSlots, NEW of \in {"kind", "sum"}, NEW to \in ShownKinds \cup Sums \cup {0}
  PROVE  /\ EditSent(e, of, to) => PatchMoved(e, "sent", of, to)
         /\ ServeEdit(e) => PatchMoved(e, "none", "kind", 0)
<1>0. patching \in [PatchSlots -> PatchRec]
  BY DEF CertPageTypes
<1>1. NoPatch \in PatchRec /\ NoPatch.pc = "none" /\ NoPatch.of = "kind" /\ NoPatch.to = 0
  BY DEF NoPatch, PatchRec
<1>2. ASSUME EditSent(e, of, to) PROVE PatchMoved(e, "sent", of, to)
  <2> DEFINE r == [pc |-> "sent", of |-> of, to |-> to]
  <2>1. r \in PatchRec /\ r.pc = "sent" /\ r.of = of /\ r.to = to
    BY DEF PatchRec
  <2>2. patching' = [patching EXCEPT ![e] = r]
    BY <1>2 DEF EditSent
  <2> HIDE DEF r
  <2> QED
    BY <1>0, <2>1, <2>2 DEF PatchMoved
<1>3. ASSUME ServeEdit(e) PROVE PatchMoved(e, "none", "kind", 0)
  <2>1. patching' = [patching EXCEPT ![e] = NoPatch]
    BY <1>3 DEF ServeEdit
  <2> QED
    BY <1>0, <1>1, <2>1 DEF PatchMoved
<1> QED
  BY <1>2, <1>3

(* The page shows an edit at once.                                           *)
LEMMA SheetForms ==
  ASSUME CertPageTypes, NEW k \in ShownKinds, NEW sum \in Sums \cup {0}
  PROVE  /\ sheet' = [sheet EXCEPT !.kind = k] =>
              /\ sheet' \in SheetRec /\ sheet'.kind = k /\ sheet'.sum = sheet.sum
              /\ sheet'.loaded = sheet.loaded /\ (Truthful(sheet) => Truthful(sheet'))
         /\ sheet' = [sheet EXCEPT !.sum = sum] =>
              /\ sheet' \in SheetRec /\ sheet'.sum = sum /\ sheet'.kind = sheet.kind
              /\ sheet'.loaded = sheet.loaded /\ (Truthful(sheet) => Truthful(sheet'))
<1>0. sheet \in SheetRec
  BY DEF CertPageTypes
<1> QED
  BY <1>0 DEF SheetRec, Truthful

LEMMA RowEdits ==
  ASSUME CertPageTypes, NEW k \in ShownKinds, NEW sum \in Sums \cup {0}
  PROVE  /\ certRow' = [certRow EXCEPT !.kind = k] =>
              certRow' \in CertRec /\ certRow'.kind = k /\ certRow'.sum = certRow.sum
         /\ certRow' = [certRow EXCEPT !.sum = sum] =>
              certRow' \in CertRec /\ certRow'.sum = sum /\ certRow'.kind = certRow.kind
<1>0. certRow \in CertRec
  BY DEF CertPageTypes
<1> QED
  BY <1>0 DEF CertRec

LEMMA CloseIn ==
  /\ "closed" \in Decided \cup {"closed"} /\ Decided \subseteq Decided \cup {"closed"}
  /\ 0 \in Sums \cup {0} /\ BlankSheet.kind \in ShownKinds
BY DEF ShownKinds

LEMMA PendingIn == "pending" \in CertStates
BY DEF CertStates

(* The row takes the edit, or stays.                                         *)
LEMMA EditServed ==
  ASSUME CertPageTypes, NEW e \in PatchSlots, ServeEdit(e)
  PROVE  \/ certRow' = certRow /\ muddled'
         \/ /\ certRow' \in CertRec
            /\ patching[e].of = "kind" => certRow'.kind = patching[e].to /\ certRow'.sum = certRow.sum
            /\ patching[e].of = "sum" => certRow'.sum = patching[e].to /\ certRow'.kind = certRow.kind
            /\ muddled' = muddled /\ outdated' = outdated \ {patching[e].of}
<1>1. patching[e].pc = "sent" /\ patching[e].of \in {"kind", "sum"}
  BY DEF ServeEdit, CertPageTypes, PatchRec
<1>2. CASE certRow' = certRow /\ muddled' = TRUE
  BY <1>2
<1>3. CASE /\ patching[e].of = "kind" /\ certRow' = [certRow EXCEPT !.kind = patching[e].to]
           /\ muddled' = muddled /\ outdated' = outdated \ {patching[e].of}
  <2>1. patching[e].to \in ShownKinds
    BY <1>1, <1>3 DEF CertPageTypes
  <2> QED
    BY <1>3, <2>1, RowEdits, CloseIn
<1>4. CASE /\ patching[e].of = "sum" /\ certRow' = [certRow EXCEPT !.sum = patching[e].to]
           /\ muddled' = muddled /\ outdated' = outdated \ {patching[e].of}
  <2>1. patching[e].to \in Sums \cup {0} /\ BlankSheet.kind \in ShownKinds
    BY <1>1, <1>4 DEF CertPageTypes, ShownKinds
  <2> QED
    BY <1>4, <2>1, RowEdits
<1> QED
  BY <1>1, <1>2, <1>3, <1>4 DEF ServeEdit

LEMMA CertTypesNext ==
  ASSUME CertPageTypes, [CertPageNext]_certPageVars
  PROVE  CertPageTypes'
<1>1. ASSUME NEW f \in Fetches, LoadCert(f) PROVE CertPageTypes'
  BY <1>1, FetchSentForm DEF LoadCert, FetchMoved, CertPageTypes
<1>2. ASSUME NEW f \in Fetches, ServeCert(f) PROVE CertPageTypes'
  BY <1>2, CertServeForm DEF ServeCert, FetchMoved, CertPageTypes
<1>3. ASSUME NEW f \in Fetches, ShowCert(f) PROVE CertPageTypes'
  <2>1. fetches[f] \in FetchRec
    BY DEF CertPageTypes
  <2>2. sheet' \in SheetRec /\ sheet'.sum \in Sums \cup {0}
    BY <1>3, <2>1 DEF ShowCert, FetchRec, SheetRec
  <2>3. form' \in FormRec
    BY <1>3, <2>2, FormForms, CloseIn DEF ShowCert
  <2>4. FetchMoved(f, "none")
    BY <1>3, FetchGone DEF ShowCert
  <2>5. outdated' \in SUBSET EditedFields
    BY <1>3, <2>1 DEF ShowCert, FetchRec
  <2> QED
    BY <1>3, <2>2, <2>3, <2>4, <2>5 DEF ShowCert, FetchMoved, CertPageTypes
<1>4. ASSUME NEW f \in Fetches, FailCert(f) PROVE CertPageTypes'
  BY <1>4, FetchGone DEF FailCert, FetchMoved, CertPageTypes
<1>5. CASE StartReview
  <2>1. call' \in CallRec
    BY <1>5, CallForms, PendingIn DEF StartReview
  <2> QED
    BY <1>5, <2>1 DEF StartReview, CertPageTypes
<1>6. CASE Unclaim
  <2>1. call' \in CallRec
    BY <1>6, CallForms, PendingIn DEF Unclaim
  <2> QED
    BY <1>6, <2>1 DEF Unclaim, CertPageTypes
<1>7. CASE Confirm
  <2>1. form' \in FormRec
    BY <1>7, FormForms, CloseIn DEF Confirm
  <2>2. form.dialog \in CertStates
    BY <1>7 DEF Confirm, CertPageTypes, FormRec, CertStates
  <2>3. call' \in CallRec
    BY <1>7, <2>2, CallForms DEF Confirm, CertPageTypes
  <2> QED
    BY <1>7, <2>1, <2>3 DEF Confirm, CertPageTypes
<1>8. CASE Uncert
  <2>1. call' \in CallRec
    BY <1>8, CallForms, PendingIn DEF Uncert
  <2> QED
    BY <1>8, <2>1 DEF Uncert, CertPageTypes
<1>9. CASE ServeCall
  <2>1. certRow' \in CertRec
    BY <1>9, RowForms DEF ServeCall, RowMoved
  <2>2. call' \in CallRec
    BY <1>9, CallForms, PendingIn DEF ServeCall
  <2> QED
    BY <1>9, <2>1, <2>2 DEF ServeCall, CertPageTypes
<1>10. CASE CallBack
  <2>1. fetches' = fetches \/ \E f \in Fetches : FetchMoved(f, "sent")
    BY <1>10, FetchSentForm DEF CallBack
  <2>2. fetches' \in [Fetches -> FetchRec]
    BY <2>1 DEF FetchMoved, CertPageTypes
  <2>3. form' \in FormRec
    BY <1>10, FormForms, CloseIn DEF CallBack
  <2>4. call' \in CallRec
    BY <1>10, CallForms, PendingIn DEF CallBack
  <2> QED
    BY <1>10, <2>2, <2>3, <2>4 DEF CallBack, CertPageTypes
<1>11. CASE Upload
  <2>1. form' \in FormRec
    BY <1>11, FileForms DEF Upload
  <2> QED
    BY <1>11, <2>1 DEF Upload, CertPageTypes
<1>12. ASSUME NEW v \in Decided, OpenDialog(v) PROVE CertPageTypes'
  <2>1. form' \in FormRec
    BY <1>12, FormForms, CloseIn DEF OpenDialog
  <2> QED
    BY <1>12, <2>1 DEF OpenDialog, CertPageTypes
<1>13. ASSUME NEW v \in Decided, DecidedElsewhere(v) PROVE CertPageTypes'
  <2>1. certRow' \in CertRec
    BY <1>13, RowForms DEF DecidedElsewhere, RowMoved
  <2> QED
    BY <1>13, <2>1 DEF DecidedElsewhere, CertPageTypes
<1>14. ASSUME NEW film \in Films, ChooseFile(film) PROVE CertPageTypes'
  <2>1. form' \in FormRec
    BY <1>14, FileForms
  <2> QED
    BY <1>14, <2>1 DEF ChooseFile, CertPageTypes
<1>15. ASSUME NEW e \in PatchSlots, SaveBounty(e) PROVE CertPageTypes'
  <2>0. form.field \in Sums \cup {0}
    BY DEF CertPageTypes, FormRec
  <2>1. sheet' \in SheetRec
    BY <1>15, <2>0, SheetForms, CloseIn DEF SaveBounty
  <2>2. PatchMoved(e, "sent", "sum", form.field)
    BY <1>15, <2>0, PatchForms DEF SaveBounty
  <2> QED
    BY <1>15, <2>0, <2>1, <2>2 DEF SaveBounty, PatchMoved, CertPageTypes
<1>16. ASSUME NEW e \in PatchSlots, ServeEdit(e) PROVE CertPageTypes'
  <2>1. PatchMoved(e, "none", "kind", 0)
    BY <1>16, PatchForms
  <2>2. certRow' \in CertRec
    BY <1>16, EditServed DEF CertPageTypes
  <2>3. patching' \in [PatchSlots -> PatchRec] /\ \A d \in PatchSlots : d # e => patching'[d] = patching[d]
    BY <2>1 DEF PatchMoved
  <2>4. patching'[e].pc = "none"
    BY <2>1 DEF PatchMoved
  <2>5. \A d \in PatchSlots : patching'[d].pc # "none" =>
          /\ patching'[d].of = "kind" => patching'[d].to \in ShownKinds
          /\ patching'[d].of = "sum" => patching'[d].to \in Sums \cup {0}
    BY <2>3, <2>4 DEF CertPageTypes
  <2>6. UNCHANGED <<rank, sheet, form, call, fetches, tick>> /\ outdated' \subseteq outdated
    BY <1>16 DEF ServeEdit
  <2>7. /\ rank' \in Ranks /\ sheet' \in SheetRec /\ form' \in FormRec /\ call' \in CallRec
        /\ fetches' \in [Fetches -> FetchRec] /\ tick' \in Nat /\ outdated' \in SUBSET EditedFields
    BY <2>6 DEF CertPageTypes
  <2> QED
    BY <2>2, <2>3, <2>5, <2>7 DEF CertPageTypes
<1>17. ASSUME NEW e \in PatchSlots, NEW k \in Kinds, SetType(e, k) PROVE CertPageTypes'
  <2>0. k \in ShownKinds
    BY DEF ShownKinds
  <2>1. sheet' \in SheetRec
    BY <1>17, <2>0, SheetForms DEF SetType
  <2>2. PatchMoved(e, "sent", "kind", k)
    BY <1>17, <2>0, PatchForms DEF SetType
  <2> QED
    BY <1>17, <2>0, <2>1, <2>2 DEF SetType, PatchMoved, CertPageTypes
<1>18. ASSUME NEW sum \in Sums \cup {0}, TypeBounty(sum) PROVE CertPageTypes'
  <2>1. form' \in FormRec
    BY <1>18, FormForms, CloseIn DEF TypeBounty
  <2> QED
    BY <1>18, <2>1 DEF TypeBounty, CertPageTypes
<1>19. CASE ClaimedElsewhere
  <2>1. certRow' \in CertRec
    BY <1>19, RowForms DEF ClaimedElsewhere, RowMoved
  <2> QED
    BY <1>19, <2>1 DEF ClaimedElsewhere, CertPageTypes
<1>20. CASE TimePasses
  BY <1>20 DEF TimePasses, CertPageTypes
<1>21. ASSUME NEW kind \in Kinds, TypedElsewhere(kind) \/ TypeChecked(kind) PROVE CertPageTypes'
  <2>0. kind \in ShownKinds /\ "kind" \in EditedFields
    BY DEF ShownKinds, EditedFields
  <2>1. certRow' \in CertRec /\ fetches' \in [Fetches -> FetchRec] /\ outdated' \in SUBSET EditedFields
    <3>1. CASE certRow' = [certRow EXCEPT !.kind = kind] /\ Outdates("kind")
      BY <2>0, <3>1, RowEdits, OutdatesForm, CloseIn
    <3>2. CASE UNCHANGED <<certRow, fetches, outdated>>
      BY <3>2 DEF CertPageTypes
    <3> QED
      BY <1>21, <3>1, <3>2 DEF TypedElsewhere, TypeChecked
  <2> QED
    BY <1>21, <2>1 DEF TypedElsewhere, TypeChecked, CertPageTypes
<1>22. ASSUME NEW sum \in Sums \cup {0}, BountyElsewhere(sum) PROVE CertPageTypes'
  <2>0. "sum" \in EditedFields
    BY DEF EditedFields
  <2>1. certRow' \in CertRec /\ fetches' \in [Fetches -> FetchRec] /\ outdated' \in SUBSET EditedFields
    BY <1>22, <2>0, RowEdits, OutdatesForm, CloseIn DEF BountyElsewhere
  <2> QED
    BY <1>22, <2>1 DEF BountyElsewhere, CertPageTypes
<1>23. CASE UNCHANGED certPageVars
  BY <1>23 DEF certPageVars, CertPageTypes
<1> QED
  BY <1>1, <1>2, <1>3, <1>4, <1>5, <1>6, <1>7, <1>8, <1>9, <1>10, <1>11, <1>12, <1>13, <1>14, <1>15, <1>16, <1>17, <1>18, <1>19, <1>20, <1>21, <1>22, <1>23
  DEF CertPageNext

LEMMA CopiesNext ==
  ASSUME CertPageTypes, CopiesHold, [CertPageNext]_certPageVars
  PROVE  CopiesHold'
<1>1. ASSUME NEW f \in Fetches, LoadCert(f) PROVE CopiesHold'
  <2>1. FetchMoved(f, "sent")
    BY <1>1, FetchSentForm DEF LoadCert
  <2> QED
    BY <1>1, <2>1 DEF LoadCert, FetchMoved, CopiesHold, Truthful
<1>2. ASSUME NEW f \in Fetches, ServeCert(f) PROVE CopiesHold'
  <2>1. FetchMoved(f, "back") /\ fetches'[f].got = CertAnswer /\ Truthful(CertAnswer)
    BY <1>2, CertServeForm, AnswerForm
  <2>2. sheet' = sheet /\ tick' = tick
    BY <1>2 DEF ServeCert
  <2>3. ASSUME NEW g \in Fetches, fetches'[g].pc = "back" PROVE Truthful(fetches[g].got)'
    <3>1. CASE g = f
      BY <2>1, <2>2, <3>1 DEF Truthful
    <3>2. CASE g # f
      BY <2>1, <2>2, <2>3, <3>2 DEF FetchMoved, CopiesHold, Truthful
    <3> QED
      BY <3>1, <3>2
  <2> QED
    BY <2>2, <2>3 DEF CopiesHold, Truthful
<1>3. ASSUME NEW f \in Fetches, ShowCert(f) PROVE CopiesHold'
  <2>1. FetchMoved(f, "none") /\ sheet' = fetches[f].got /\ fetches[f].pc = "back" /\ tick' = tick
    BY <1>3, FetchGone DEF ShowCert
  <2> QED
    BY <2>1 DEF FetchMoved, CopiesHold, Truthful
<1>4. ASSUME NEW f \in Fetches, FailCert(f) PROVE CopiesHold'
  <2>1. FetchMoved(f, "none")
    BY <1>4, FetchGone DEF FailCert
  <2> QED
    BY <1>4, <2>1 DEF FailCert, FetchMoved, CopiesHold, Truthful
<1>5. CASE StartReview
  BY <1>5 DEF StartReview, CopiesHold, Truthful
<1>6. CASE Unclaim
  BY <1>6 DEF Unclaim, CopiesHold, Truthful
<1>7. CASE Confirm
  BY <1>7 DEF Confirm, CopiesHold, Truthful
<1>8. CASE Uncert
  BY <1>8 DEF Uncert, CopiesHold, Truthful
<1>9. CASE ServeCall
  BY <1>9 DEF ServeCall, CopiesHold, Truthful
<1>10. CASE CallBack
  <2>1. fetches' = fetches \/ \E f \in Fetches : FetchMoved(f, "sent")
    BY <1>10, FetchSentForm DEF CallBack
  <2> QED
    BY <1>10, <2>1 DEF CallBack, FetchMoved, CopiesHold, Truthful
<1>11. CASE Upload
  BY <1>11 DEF Upload, CopiesHold, Truthful
<1>12. ASSUME NEW v \in Decided, OpenDialog(v) PROVE CopiesHold'
  BY <1>12 DEF OpenDialog, CopiesHold, Truthful
<1>13. ASSUME NEW v \in Decided, DecidedElsewhere(v) PROVE CopiesHold'
  BY <1>13 DEF DecidedElsewhere, CopiesHold, Truthful
<1>14. ASSUME NEW film \in Films, ChooseFile(film) PROVE CopiesHold'
  BY <1>14 DEF ChooseFile, CopiesHold, Truthful
<1>15. ASSUME NEW e \in PatchSlots, SaveBounty(e) PROVE CopiesHold'
  <2>0. form.field \in Sums \cup {0}
    BY DEF CertPageTypes, FormRec
  <2>1. Truthful(sheet')
    BY <1>15, <2>0, SheetForms, CloseIn DEF SaveBounty, CopiesHold
  <2> QED
    BY <1>15, <2>1 DEF SaveBounty, CopiesHold, Truthful
<1>16. ASSUME NEW e \in PatchSlots, ServeEdit(e) PROVE CopiesHold'
  BY <1>16 DEF ServeEdit, CopiesHold, Truthful
<1>17. ASSUME NEW e \in PatchSlots, NEW k \in Kinds, SetType(e, k) PROVE CopiesHold'
  <2>0. k \in ShownKinds
    BY DEF ShownKinds
  <2>1. Truthful(sheet')
    BY <1>17, <2>0, SheetForms, CloseIn DEF SetType, CopiesHold
  <2> QED
    BY <1>17, <2>1 DEF SetType, CopiesHold, Truthful
<1>18. ASSUME NEW sum \in Sums \cup {0}, TypeBounty(sum) PROVE CopiesHold'
  BY <1>18 DEF TypeBounty, CopiesHold, Truthful
<1>19. CASE ClaimedElsewhere
  BY <1>19 DEF ClaimedElsewhere, CopiesHold, Truthful
<1>20. CASE TimePasses
  <2>1. ASSUME NEW s \in SheetRec, Truthful(s) PROVE Truthful(s)'
    BY <1>20, <2>1, LockAssumption DEF TimePasses, SheetRec, Truthful, CertPageTypes
  <2>2. sheet \in SheetRec /\ \A f \in Fetches : fetches[f].got \in SheetRec
    BY DEF CertPageTypes, FetchRec
  <2>3. sheet' = sheet /\ fetches' = fetches
    BY <1>20 DEF TimePasses
  <2> QED
    BY <2>1, <2>2, <2>3 DEF CopiesHold
<1>21. ASSUME \/ \E kind \in Kinds : TypedElsewhere(kind) \/ TypeChecked(kind)
              \/ \E sum \in Sums \cup {0} : BountyElsewhere(sum)
       PROVE  CopiesHold'
  <2>1. sheet' = sheet /\ tick' = tick
    BY <1>21 DEF TypedElsewhere, TypeChecked, BountyElsewhere
  <2>2. "kind" \in EditedFields /\ "sum" \in EditedFields
    BY DEF EditedFields
  <2>3. fetches' = fetches \/ Outdates("kind") \/ Outdates("sum")
    BY <1>21 DEF TypedElsewhere, TypeChecked, BountyElsewhere
  <2>4. \A f \in Fetches : fetches'[f].pc = fetches[f].pc /\ fetches'[f].got = fetches[f].got
    BY <2>2, <2>3, OutdatesForm
  <2> QED
    BY <2>1, <2>4 DEF CopiesHold, Truthful
<1>22. CASE UNCHANGED certPageVars
  BY <1>22 DEF certPageVars, CopiesHold, Truthful
<1> QED
  BY <1>1, <1>2, <1>3, <1>4, <1>5, <1>6, <1>7, <1>8, <1>9, <1>10, <1>11, <1>12, <1>13, <1>14, <1>15, <1>16, <1>17, <1>18, <1>19, <1>20, <1>21, <1>22
  DEF CertPageNext

LEMMA FileNext ==
  ASSUME CertPageTypes, FileHolds, [CertPageNext]_certPageVars
  PROVE  FileHolds'
<1>1. ASSUME NEW f \in Fetches, LoadCert(f) PROVE FileHolds'
  BY <1>1 DEF LoadCert, FileHolds
<1>2. ASSUME NEW f \in Fetches, ServeCert(f) PROVE FileHolds'
  BY <1>2 DEF ServeCert, FileHolds
<1>3. ASSUME NEW f \in Fetches, ShowCert(f) PROVE FileHolds'
  <2>1. fetches[f].got.sum \in Sums \cup {0}
    BY DEF CertPageTypes, FetchRec, SheetRec
  <2>2. SameFile
    BY <1>3, <2>1, FormForms, CloseIn DEF ShowCert
  <2> QED
    BY <2>2 DEF SameFile, FileHolds
<1>4. ASSUME NEW f \in Fetches, FailCert(f) PROVE FileHolds'
  BY <1>4 DEF FailCert, FileHolds
<1>5. CASE StartReview
  BY <1>5 DEF StartReview, FileHolds
<1>6. CASE Unclaim
  BY <1>6 DEF Unclaim, FileHolds
<1>7. CASE Confirm
  <2>1. SameFile
    BY <1>7, FormForms, CloseIn DEF Confirm
  <2> QED
    BY <2>1 DEF SameFile, FileHolds
<1>8. CASE Uncert
  BY <1>8 DEF Uncert, FileHolds
<1>9. CASE ServeCall
  BY <1>9 DEF ServeCall, FileHolds
<1>10. CASE CallBack
  <2>1. SameFile
    BY <1>10, FormForms, CloseIn DEF CallBack
  <2> QED
    BY <2>1 DEF SameFile, FileHolds
<1>11. CASE Upload
  BY <1>11, FileForms DEF Upload, FileHolds
<1>12. ASSUME NEW v \in Decided, OpenDialog(v) PROVE FileHolds'
  <2>1. SameFile
    BY <1>12, FormForms, CloseIn DEF OpenDialog
  <2> QED
    BY <2>1 DEF SameFile, FileHolds
<1>13. ASSUME NEW v \in Decided, DecidedElsewhere(v) PROVE FileHolds'
  BY <1>13 DEF DecidedElsewhere, FileHolds
<1>14. ASSUME NEW film \in Films, ChooseFile(film) PROVE FileHolds'
  BY <1>14, FileForms DEF ChooseFile, FileHolds
<1>15. ASSUME NEW e \in PatchSlots, SaveBounty(e) PROVE FileHolds'
  BY <1>15 DEF SaveBounty, FileHolds
<1>16. ASSUME NEW e \in PatchSlots, ServeEdit(e) PROVE FileHolds'
  BY <1>16 DEF ServeEdit, FileHolds
<1>17. ASSUME NEW e \in PatchSlots, NEW k \in Kinds, SetType(e, k) PROVE FileHolds'
  BY <1>17 DEF SetType, FileHolds
<1>18. ASSUME NEW sum \in Sums \cup {0}, TypeBounty(sum) PROVE FileHolds'
  <2>1. SameFile
    BY <1>18, FormForms, CloseIn DEF TypeBounty
  <2> QED
    BY <2>1 DEF SameFile, FileHolds
<1>19. CASE ClaimedElsewhere
  BY <1>19 DEF ClaimedElsewhere, FileHolds
<1>20. CASE TimePasses
  BY <1>20 DEF TimePasses, FileHolds
<1>21. ASSUME \/ \E kind \in Kinds : TypedElsewhere(kind) \/ TypeChecked(kind)
              \/ \E sum \in Sums \cup {0} : BountyElsewhere(sum)
       PROVE  FileHolds'
  BY <1>21 DEF TypedElsewhere, TypeChecked, BountyElsewhere, FileHolds
<1>22. CASE UNCHANGED certPageVars
  BY <1>22 DEF certPageVars, FileHolds
<1> QED
  BY <1>1, <1>2, <1>3, <1>4, <1>5, <1>6, <1>7, <1>8, <1>9, <1>10, <1>11, <1>12, <1>13, <1>14, <1>15, <1>16, <1>17, <1>18, <1>19, <1>20, <1>21, <1>22
  DEF CertPageNext

LEMMA Unmuddled ==
  ASSUME ~muddled'
  PROVE  /\ \A f \in Fetches : LoadCert(f) => ~muddled /\ ~EditsOut
         /\ \A e \in PatchSlots : \A of, to : EditSent(e, of, to) =>
              ~muddled /\ ~EditsOut /\ \A f \in Fetches : fetches[f].pc = "none"
         /\ CallBack => ~muddled /\ (fetches' = fetches \/ ~EditsOut)
BY Zenon DEF LoadCert, EditSent, CallBack

LEMMA EditsNext ==
  ASSUME CertPageTypes, EditsHold, [CertPageNext]_certPageVars
  PROVE  EditsHold'
<1>1. ASSUME NEW f \in Fetches, LoadCert(f) PROVE EditsHold'
  <2> SUFFICES ASSUME ~muddled' PROVE EditsHold'
    BY DEF EditsHold
  <2>1. FetchMoved(f, "sent") /\ ~muddled /\ ~EditsOut
    BY <1>1, FetchSentForm, Unmuddled DEF LoadCert
  <2>2. UNCHANGED <<certRow, sheet, patching, outdated>>
    BY <1>1 DEF LoadCert
  <2> QED
    BY <2>1, <2>2 DEF FetchMoved, EditsHold, EditsOut, Agrees
<1>2. ASSUME NEW f \in Fetches, ServeCert(f) PROVE EditsHold'
  <2>1. /\ FetchMoved(f, "back") /\ fetches'[f].got = CertAnswer /\ Agrees(CertAnswer, {})
        /\ fetches[f].pc = "sent" /\ UNCHANGED <<certRow, sheet, patching, muddled, outdated>>
        /\ fetches'[f].late = {}
    BY <1>2, CertServeForm, AnswerForm DEF ServeCert
  <2> QED
    BY <2>1 DEF FetchMoved, EditsHold, EditsOut, Agrees
<1>3. ASSUME NEW f \in Fetches, ShowCert(f) PROVE EditsHold'
  <2>1. /\ FetchMoved(f, "none") /\ sheet' = fetches[f].got
        /\ fetches[f].pc = "back" /\ outdated' = fetches[f].late /\ UNCHANGED <<certRow, patching, muddled>>
    BY <1>3, FetchGone DEF ShowCert
  <2> QED
    BY <2>1 DEF FetchMoved, EditsHold, EditsOut, Agrees
<1>4. ASSUME NEW f \in Fetches, FailCert(f) PROVE EditsHold'
  <2>1. FetchMoved(f, "none") /\ UNCHANGED <<certRow, sheet, patching, muddled, outdated>>
    BY <1>4, FetchGone DEF FailCert
  <2> QED
    BY <2>1 DEF FetchMoved, EditsHold, EditsOut, Agrees
<1>5. CASE StartReview
  BY <1>5 DEF StartReview, EditsHold, EditsOut, Agrees
<1>6. CASE Unclaim
  BY <1>6 DEF Unclaim, EditsHold, EditsOut, Agrees
<1>7. CASE Confirm
  BY <1>7 DEF Confirm, EditsHold, EditsOut, Agrees
<1>8. CASE Uncert
  BY <1>8 DEF Uncert, EditsHold, EditsOut, Agrees
<1>9. CASE ServeCall
  <2>1. RowMoved /\ UNCHANGED <<sheet, fetches, patching, muddled, outdated>>
    BY <1>9, RowForms DEF ServeCall
  <2> QED
    BY <2>1 DEF RowMoved, EditsHold, EditsOut, Agrees
<1>10. CASE CallBack
  <2> SUFFICES ASSUME ~muddled' PROVE EditsHold'
    BY DEF EditsHold
  <2>1. ~muddled /\ (fetches' = fetches \/ ~EditsOut) /\ UNCHANGED <<certRow, sheet, patching, outdated>>
    BY <1>10, Unmuddled DEF CallBack
  <2>2. fetches' = fetches \/ \E f \in Fetches : FetchMoved(f, "sent")
    BY <1>10, FetchSentForm DEF CallBack
  <2> QED
    BY <2>1, <2>2 DEF FetchMoved, EditsHold, EditsOut, Agrees
<1>11. CASE Upload
  BY <1>11 DEF Upload, EditsHold, EditsOut, Agrees
<1>12. ASSUME NEW v \in Decided, OpenDialog(v) PROVE EditsHold'
  BY <1>12 DEF OpenDialog, EditsHold, EditsOut, Agrees
<1>13. ASSUME NEW v \in Decided, DecidedElsewhere(v) PROVE EditsHold'
  <2>1. RowMoved /\ UNCHANGED <<sheet, fetches, patching, muddled, outdated>>
    BY <1>13, RowForms DEF DecidedElsewhere
  <2> QED
    BY <2>1 DEF RowMoved, EditsHold, EditsOut, Agrees
<1>14. ASSUME NEW film \in Films, ChooseFile(film) PROVE EditsHold'
  BY <1>14 DEF ChooseFile, EditsHold, EditsOut, Agrees
<1>15. ASSUME NEW e \in PatchSlots, SaveBounty(e) PROVE EditsHold'
  <2> SUFFICES ASSUME ~muddled' PROVE EditsHold'
    BY DEF EditsHold
  <2>0. form.field \in Sums \cup {0}
    BY DEF CertPageTypes, FormRec
  <2>1. ~muddled /\ ~EditsOut /\ \A f \in Fetches : fetches[f].pc = "none"
    BY <1>15, Unmuddled DEF SaveBounty
  <2>2. PatchMoved(e, "sent", "sum", form.field)
    BY <1>15, <2>0, PatchForms DEF SaveBounty
  <2>3. sheet'.sum = form.field /\ sheet'.kind = sheet.kind /\ sheet.loaded /\ UNCHANGED <<certRow, fetches, outdated>>
    BY <1>15, <2>0, SheetForms, CloseIn DEF SaveBounty
  <2>4. \A d \in PatchSlots : patching'[d].pc # "none" => d = e
    BY <2>1, <2>2 DEF EditsOut, PatchMoved
  <2>5. EditsOut'
    BY <2>2 DEF EditsOut, PatchMoved
  <2>6. Agrees(sheet, outdated)
    BY <2>1, <2>3 DEF EditsHold
  <2> QED
    BY <2>1, <2>2, <2>3, <2>4, <2>5, <2>6 DEF EditsHold, PatchMoved, Agrees
<1>16. ASSUME NEW e \in PatchSlots, ServeEdit(e) PROVE EditsHold'
  <2> SUFFICES ASSUME ~muddled' PROVE EditsHold'
    BY DEF EditsHold
  <2>1. /\ certRow' \in CertRec /\ ~muddled /\ outdated' = outdated \ {patching[e].of}
        /\ patching[e].of = "kind" => certRow'.kind = patching[e].to /\ certRow'.sum = certRow.sum
        /\ patching[e].of = "sum" => certRow'.sum = patching[e].to /\ certRow'.kind = certRow.kind
    BY <1>16, EditServed
  <2>2. PatchMoved(e, "none", "kind", 0) /\ patching[e].pc = "sent" /\ UNCHANGED <<sheet, fetches>>
    BY <1>16, PatchForms, CloseIn DEF ServeEdit
  <2>3. /\ \A f \in Fetches : fetches[f].pc = "none"
        /\ \A d \in PatchSlots : patching[d].pc # "none" => d = e
    BY <2>1, <2>2 DEF EditsHold, EditsOut
  <2>4. ~EditsOut'
    BY <2>2, <2>3 DEF EditsOut, PatchMoved
  <2>5. patching[e].of \in {"kind", "sum"}
    BY DEF CertPageTypes, PatchRec
  <2>6. Agrees(sheet, outdated)'
    BY <2>1, <2>2, <2>5 DEF EditsHold, Agrees
  <2> QED
    BY <2>2, <2>3, <2>4, <2>6 DEF EditsHold, EditsOut
<1>17. ASSUME NEW e \in PatchSlots, NEW k \in Kinds, SetType(e, k) PROVE EditsHold'
  <2> SUFFICES ASSUME ~muddled' PROVE EditsHold'
    BY DEF EditsHold
  <2>0. k \in ShownKinds
    BY DEF ShownKinds
  <2>1. ~muddled /\ ~EditsOut /\ \A f \in Fetches : fetches[f].pc = "none"
    BY <1>17, Unmuddled DEF SetType
  <2>2. PatchMoved(e, "sent", "kind", k)
    BY <1>17, <2>0, PatchForms DEF SetType
  <2>3. sheet'.kind = k /\ sheet'.sum = sheet.sum /\ sheet.loaded /\ UNCHANGED <<certRow, fetches, outdated>>
    BY <1>17, <2>0, SheetForms, CloseIn DEF SetType
  <2>4. \A d \in PatchSlots : patching'[d].pc # "none" => d = e
    BY <2>1, <2>2 DEF EditsOut, PatchMoved
  <2>5. EditsOut'
    BY <2>2 DEF EditsOut, PatchMoved
  <2>6. Agrees(sheet, outdated)
    BY <2>1, <2>3 DEF EditsHold
  <2> QED
    BY <2>1, <2>2, <2>3, <2>4, <2>5, <2>6 DEF EditsHold, PatchMoved, Agrees
<1>18. ASSUME NEW sum \in Sums \cup {0}, TypeBounty(sum) PROVE EditsHold'
  BY <1>18 DEF TypeBounty, EditsHold, EditsOut, Agrees
<1>19. CASE ClaimedElsewhere
  <2>1. RowMoved /\ UNCHANGED <<sheet, fetches, patching, muddled, outdated>>
    BY <1>19, RowForms DEF ClaimedElsewhere
  <2> QED
    BY <2>1 DEF RowMoved, EditsHold, EditsOut, Agrees
<1>20. CASE TimePasses
  BY <1>20 DEF TimePasses, EditsHold, EditsOut, Agrees
<1>21. ASSUME NEW kind \in Kinds, TypedElsewhere(kind) \/ TypeChecked(kind) PROVE EditsHold'
  <2>0. kind \in ShownKinds /\ "kind" \in EditedFields
    BY DEF ShownKinds, EditedFields
  <2>1. UNCHANGED <<sheet, patching, muddled>>
    BY <1>21 DEF TypedElsewhere, TypeChecked
  <2>2. CASE certRow' = [certRow EXCEPT !.kind = kind] /\ Outdates("kind")
    <3>1. certRow'.sum = certRow.sum
      BY <2>0, <2>2, RowEdits, CloseIn
    <3> QED
      BY <2>0, <2>1, <2>2, <3>1, OutdatesForm DEF EditsHold, EditsOut, Agrees
  <2>3. CASE UNCHANGED <<certRow, fetches, outdated>>
    BY <2>1, <2>3 DEF EditsHold, EditsOut, Agrees
  <2> QED
    BY <1>21, <2>2, <2>3 DEF TypedElsewhere, TypeChecked
<1>22. ASSUME NEW sum \in Sums \cup {0}, BountyElsewhere(sum) PROVE EditsHold'
  <2>0. "sum" \in EditedFields
    BY DEF EditedFields
  <2>1. UNCHANGED <<sheet, patching, muddled>> /\ Outdates("sum")
    BY <1>22 DEF BountyElsewhere
  <2>2. certRow'.kind = certRow.kind
    BY <1>22, RowEdits, CloseIn DEF BountyElsewhere
  <2> QED
    BY <2>0, <2>1, <2>2, OutdatesForm DEF EditsHold, EditsOut, Agrees
<1>23. CASE UNCHANGED certPageVars
  BY <1>23 DEF certPageVars, EditsHold, EditsOut, Agrees
<1> QED
  BY <1>1, <1>2, <1>3, <1>4, <1>5, <1>6, <1>7, <1>8, <1>9, <1>10, <1>11, <1>12, <1>13, <1>14, <1>15, <1>16, <1>17, <1>18, <1>19, <1>20, <1>21, <1>22, <1>23
  DEF CertPageNext

LEMMA CertPageAlways == CertPageSpec => []CertPageInv
<1>1. CertPageInit => CertPageInv
  <2> SUFFICES ASSUME CertPageInit PROVE CertPageInv
    OBVIOUS
  <2>1. fetches \in [Fetches -> FetchRec] /\ \A f \in Fetches : fetches[f].pc = "none"
    BY SheetBlank DEF CertPageInit
  <2>2. NoPatch \in PatchRec /\ NoPatch.pc = "none"
    BY DEF NoPatch, PatchRec
  <2>3. patching \in [PatchSlots -> PatchRec] /\ \A e \in PatchSlots : patching[e].pc = "none"
    BY <2>2 DEF CertPageInit
  <2>4. certRow \in CertRec
    BY DEF CertPageInit, CertRec, CertStates, Holders, ShownKinds
  <2>5. form \in FormRec /\ call \in CallRec
    BY DEF CertPageInit, FormRec, CallRec, NoCall, CertStates
  <2>6. CertPageTypes
    <3>1. rank \in Ranks /\ sheet \in SheetRec /\ tick \in Nat /\ outdated \in SUBSET EditedFields
      BY SheetBlank DEF CertPageInit
    <3> QED
      BY <2>1, <2>3, <2>4, <2>5, <3>1 DEF CertPageTypes
  <2>7. ~sheet.loaded /\ form.file = NoFilm
    BY DEF CertPageInit, BlankSheet
  <2>8. CopiesHold /\ FileHolds
    BY <2>1, <2>7 DEF CopiesHold, Truthful, FileHolds
  <2>9. EditsHold
    BY <2>1, <2>3, <2>7 DEF EditsHold, EditsOut
  <2> QED
    BY <2>6, <2>8, <2>9 DEF CertPageInv
<1>2. CertPageInv /\ [CertPageNext]_certPageVars => CertPageInv'
  BY CertTypesNext, CopiesNext, FileNext, EditsNext DEF CertPageInv
<1> QED
  BY <1>1, <1>2, PTL DEF CertPageSpec

LEMMA LastSecond ==
  ASSUME NEW x \in Nat, x \div Second = 0
  PROVE  x < Second
BY LockAssumption, SMTT(30)

(* For any videos, kinds, bounties and number of loads and edits under way,  *)
(* others' edits and the webhook's late type store included: what the page   *)
(* of a ship cert says of the claim and the video is so, and so is each      *)
(* field nobody else wrote since the copy shown was served (form.tsx:135-151,*)
(* 783-805, useShipCert.tsx:346-403).                                        *)
THEOREM PageHonest == CertPageSpec => []PageIsHonest
<1>1. CertPageInv => PageIsHonest
  <2> SUFFICES ASSUME CertPageInv PROVE PageIsHonest
    OBVIOUS
  <2>0. /\ tick \in Nat /\ certRow.since \in Nat /\ sheet.since \in Nat /\ Lock \in Nat /\ Second \in Nat \ {0}
        /\ sheet.by \in Holders
    BY LockAssumption DEF CertPageInv, CertPageTypes, CertRec, SheetRec
  <2>1. ASSUME ClaimIsShown, ClaimOffered, certRow.holder = "other"
        PROVE  certRow.since + Lock < tick + Second
    <3>1. sheet.since = certRow.since /\ sheet.loaded /\ sheet.status = "pending" /\ sheet.holder = "other"
      BY <2>1 DEF ClaimIsShown, ClaimOffered
    <3>2. CASE sheet.by = "nobody"
      BY <2>0, <3>1, <3>2 DEF CertPageInv, CopiesHold, Truthful
    <3>3. CASE SecondsLeft(sheet.since) = 0
      <4>1. CASE ClaimLive(sheet.since)
        <5>1. sheet.since + Lock - tick \in Nat /\ (sheet.since + Lock - tick) \div Second = 0
          BY <2>0, <3>3, <4>1 DEF SecondsLeft, ClaimLive
        <5>2. sheet.since + Lock - tick < Second
          BY <5>1, LastSecond
        <5> QED
          BY <2>0, <3>1, <5>2
      <4>2. CASE ~ClaimLive(sheet.since)
        BY <2>0, <3>1, <4>2 DEF ClaimLive
      <4> QED
        BY <4>1, <4>2
    <3> QED
      BY <2>1, <3>2, <3>3 DEF ClaimOffered
  <2>2. ASSUME ClaimIsShown, DecideWithheld PROVE OthersClaim
    <3>1. /\ sheet.since = certRow.since /\ sheet.status = certRow.status /\ sheet.holder = certRow.holder
          /\ sheet.loaded /\ sheet.by = "other"
      BY <2>2 DEF ClaimIsShown, DecideWithheld
    <3>2. ClaimLive(sheet.since)
      BY <2>2 DEF DecideWithheld, SecondsLeft
    <3> QED
      BY <3>1, <3>2 DEF OthersClaim, CertPageInv, CopiesHold, Truthful, ClaimLive
  <2>3. ~form.uploading /\ form.file # NoFilm => form.url = form.file
    BY DEF CertPageInv, FileHolds
  <2>4. sheet.loaded /\ ~muddled /\ ~EditsOut =>
          ("kind" \in outdated \/ sheet.kind = certRow.kind) /\ ("sum" \in outdated \/ sheet.sum = certRow.sum)
    BY DEF CertPageInv, EditsHold, Agrees
  <2> QED
    BY <2>1, <2>2, <2>3, <2>4 DEF PageIsHonest
<1> QED
  BY <1>1, CertPageAlways, PTL

------------------------------------------------------------------------------
(* The payouts page                                                          *)

RowRec == [status : States, proof : Maybe, bonus : Maybe, back : BOOLEAN, said : States,
           fair : BOOLEAN]
RefundRec == [pc : {"idle", "sent", "unheard", "back"}, said : States, ok : BOOLEAN]
AdminRec == [modal : Maybe, view : Maybe, file : Maybe, bonus : Maybe, loading : BOOLEAN,
             leaving : BOOLEAN]
ApprovalRec == [pc : {"idle", "presign", "upload", "patch", "unheard", "back"}, id : Maybe,
                file : Maybe, bonus : Maybe, ok : BOOLEAN]
PayPageTypes ==
  /\ rows \in [Reqs -> RowRec] /\ shown \in [Reqs -> States \ {"deleted"}]
  /\ admin \in AdminRec /\ approval \in ApprovalRec /\ refunds \in [Reqs -> RefundRec]
  /\ stirred \in BOOLEAN /\ carried \in BOOLEAN
  /\ admin.modal = NoReq \/ admin.view = NoReq
  /\ approval.pc # "idle" => approval.id \in Reqs

(* Until something stirred, one request is under way at most, and none once  *)
(* the page is about to be loaded again.                                     *)
OneUnderway ==
  /\ approval.pc = "unheard" \/ (\E i \in Reqs : refunds[i].pc = "unheard") => stirred
  /\ ~stirred =>
       /\ approval.pc # "idle" => ~Refunding /\ ~admin.leaving
       /\ admin.leaving => ~Refunding
       /\ \A i, j \in Reqs : refunds[i].pc # "idle" /\ refunds[j].pc # "idle" => i = j

(* The table is other than it was when the page was loaded.                  *)
Moved ==
  \/ admin.leaving \/ (approval.pc = "back" /\ approval.ok)
  \/ \E i \in Reqs : refunds[i].pc = "back" /\ refunds[i].ok

(* Until then the page shows the table, and a refund on its way is about the *)
(* row as it was shown.                                                      *)
TableInv ==
  /\ ~stirred /\ ~Moved => \A i \in Reqs : shown[i] = Table(i) \/ shown[i] = "none"
  /\ admin.view # NoReq => shown[admin.view] = "approved"
  /\ ~stirred => \A i \in Reqs : refunds[i].pc = "sent" =>
       rows[i].status = refunds[i].said /\ rows[i].status \in {"pending", "approved"}

(* What was chosen was chosen for the payout in the dialog.                  *)
ChoiceInv ==
  ~carried =>
    /\ {admin.file, admin.bonus} \subseteq {admin.modal, NoReq}
    /\ ~stirred /\ approval.pc # "idle" =>
         approval.file = approval.id /\ approval.bonus \in {approval.id, NoReq}

FairInv ==
  \A i \in Reqs :
    /\ rows[i].status \in {"none", "pending"} => ~rows[i].fair
    /\ rows[i].fair /\ rows[i].status = "deleted" => (rows[i].back <=> rows[i].said = "approved")
    /\ rows[i].fair /\ rows[i].status = "approved" => rows[i].proof = i /\ rows[i].bonus \in {i, NoReq}

PayPageInv == PayPageTypes /\ OneUnderway /\ TableInv /\ ChoiceInv /\ FairInv

LEMMA PayPageRecords ==
  /\ NoRow \in RowRec /\ NoRefund \in RefundRec /\ NoApproval \in ApprovalRec /\ Fresh \in AdminRec
  /\ \A r \in RowRec, st \in States : [r EXCEPT !.status = st] \in RowRec
  /\ \A st \in States, said \in States, b \in BOOLEAN, c \in BOOLEAN :
       /\ [NoRow EXCEPT !.status = st] \in RowRec
       /\ [NoRow EXCEPT !.status = st, !.back = b, !.said = said, !.fair = c] \in RowRec
  /\ \A r \in RowRec, m \in Maybe, n \in Maybe, b \in BOOLEAN :
       [r EXCEPT !.status = "approved", !.proof = m, !.bonus = n, !.fair = b] \in RowRec
  /\ \A r \in RefundRec, pc \in {"unheard", "back"}, b \in BOOLEAN :
       [r EXCEPT !.pc = pc] \in RefundRec /\ [r EXCEPT !.pc = pc, !.ok = b] \in RefundRec
  /\ \A said \in States : [NoRefund EXCEPT !.pc = "sent", !.said = said] \in RefundRec
<1>1. NoRow \in RowRec /\ NoRefund \in RefundRec /\ NoApproval \in ApprovalRec /\ Fresh \in AdminRec
  BY DEF NoRow, NoRefund, NoApproval, Fresh, RowRec, RefundRec, ApprovalRec, AdminRec, Maybe, States
<1>2. \A r \in RowRec, st \in States : [r EXCEPT !.status = st] \in RowRec
  BY DEF RowRec
<1>3. \A r \in RowRec, st \in States, said \in States, b \in BOOLEAN, c \in BOOLEAN :
        [r EXCEPT !.status = st, !.back = b, !.said = said, !.fair = c] \in RowRec
  BY DEF RowRec
<1>4. \A r \in RowRec, m \in Maybe, n \in Maybe, b \in BOOLEAN :
        [r EXCEPT !.status = "approved", !.proof = m, !.bonus = n, !.fair = b] \in RowRec
  BY DEF RowRec, States
<1>5. \A r \in RefundRec, pc \in {"unheard", "back"}, b \in BOOLEAN :
        [r EXCEPT !.pc = pc] \in RefundRec /\ [r EXCEPT !.pc = pc, !.ok = b] \in RefundRec
  BY DEF RefundRec
<1>6. \A r \in RefundRec, said \in States : [r EXCEPT !.pc = "sent", !.said = said] \in RefundRec
  BY DEF RefundRec
<1> QED
  BY <1>1, <1>2, <1>3, <1>4, <1>5, <1>6

LEMMA PayPageTypesNext ==
  ASSUME PayPageTypes, [PayPageNext]_payPageVars
  PROVE  PayPageTypes'
<1> USE NoReqAssumption DEF PayPageTypes
<1>1. ASSUME NEW i \in Reqs, Request(i) PROVE PayPageTypes'
  <2>1. rows' = [rows EXCEPT ![i] = [rows[i] EXCEPT !.status = "pending"]]
    BY <1>1 DEF Request
  <2>2. rows' \in [Reqs -> RowRec]
    BY <2>1, PayPageRecords DEF States
  <2> QED
    BY <1>1, <2>2 DEF Request
<1>2. ASSUME NEW i \in Reqs, OtherAdmin(i) PROVE PayPageTypes'
  <2>1. \/ rows' = [rows EXCEPT ![i] = [rows[i] EXCEPT !.status = "approved"]]
        \/ rows' = [rows EXCEPT ![i] = [NoRow EXCEPT !.status = "deleted"]]
    BY <1>2 DEF OtherAdmin
  <2>2. [rows[i] EXCEPT !.status = "approved"] \in RowRec
    BY DEF RowRec, States
  <2>3. [NoRow EXCEPT !.status = "deleted"] \in RowRec
    BY DEF NoRow, RowRec, States, Maybe
  <2>4. rows' \in [Reqs -> RowRec]
    BY <2>1, <2>2, <2>3
  <2> QED
    BY <1>2, <2>4 DEF OtherAdmin
<1>3. ASSUME NEW i \in Reqs, OpenModal(i) PROVE PayPageTypes'
  BY <1>3 DEF OpenModal, Covered, AdminRec, Maybe
<1>4. ASSUME NEW i \in Reqs, OpenView(i) PROVE PayPageTypes'
  BY <1>4 DEF OpenView, Covered, AdminRec, Maybe
<1>5. ASSUME NEW i \in Reqs, Refund(i) PROVE PayPageTypes'
  <2>1. refunds' \in [Reqs -> RefundRec]
    <3>1. shown[i] \in States
      OBVIOUS
    <3> QED
      BY <1>5, <3>1, PayPageRecords DEF Refund
  <2>2. admin' \in AdminRec /\ (admin'.modal = NoReq \/ admin'.view = NoReq)
    BY <1>5 DEF Refund, AdminRec, Maybe
  <2> QED
    BY <1>5, <2>1, <2>2 DEF Refund, Underway, Refunding
<1>6. ASSUME NEW i \in Reqs, DeleteRow(i) PROVE PayPageTypes'
  <2> DEFINE ok == rows[i].status \in {"pending", "approved"}
             gone == [NoRow EXCEPT !.status = "deleted", !.back = (rows[i].status = "approved"),
                                   !.said = refunds[i].said, !.fair = ~stirred]
             answered == [refunds[i] EXCEPT !.pc = "back", !.ok = ok]
  <2>1. gone \in RowRec
    <3>1. refunds[i].said \in States
      BY DEF RefundRec
    <3> QED
      BY <3>1, PayPageRecords DEF States
  <2>2. answered \in RefundRec /\ NoRefund \in RefundRec
    <3>1. ok \in BOOLEAN
      OBVIOUS
    <3> HIDE DEF ok
    <3> QED
      BY <3>1, PayPageRecords
  <2>3. rows' = IF ok THEN [rows EXCEPT ![i] = gone] ELSE rows
    BY <1>6 DEF DeleteRow
  <2>4. refunds' = [refunds EXCEPT ![i] = IF refunds[i].pc = "unheard" THEN NoRefund ELSE answered]
    BY <1>6 DEF DeleteRow
  <2> HIDE DEF gone, answered, ok
  <2>5. rows' \in [Reqs -> RowRec] /\ refunds' \in [Reqs -> RefundRec]
    BY <2>1, <2>2, <2>3, <2>4
  <2> QED
    BY <1>6, <2>5 DEF DeleteRow
<1>7. ASSUME NEW i \in Reqs, Refunded(i) PROVE PayPageTypes'
  <2>1. refunds' \in [Reqs -> RefundRec]
    BY <1>7, PayPageRecords DEF Refunded
  <2>2. admin' \in AdminRec /\ admin'.modal = admin.modal /\ admin'.view = admin.view
    BY <1>7 DEF Refunded, AdminRec, RefundRec
  <2> QED
    BY <1>7, <2>1, <2>2 DEF Refunded
<1>8. ASSUME NEW i \in Reqs, RefundLost(i) PROVE PayPageTypes'
  BY <1>8, PayPageRecords DEF RefundLost
<1>9. CASE LoadTable
  <2>1. shown' \in [Reqs -> States \ {"deleted"}]
    BY <1>9 DEF LoadTable, Table, RowRec, States
  <2>2. approval' \in ApprovalRec /\ (approval'.pc # "idle" => approval'.id \in Reqs)
    BY <1>9 DEF LoadTable, ApprovalRec, NoApproval, Maybe
  <2>3. refunds' \in [Reqs -> RefundRec]
    BY <1>9, PayPageRecords DEF LoadTable
  <2>4. admin' \in AdminRec /\ admin'.modal = NoReq
    BY <1>9, PayPageRecords DEF LoadTable, Fresh
  <2>5. stirred' \in BOOLEAN /\ carried' \in BOOLEAN
    BY <1>9 DEF LoadTable
  <2> QED
    BY <1>9, <2>1, <2>2, <2>3, <2>4, <2>5 DEF LoadTable
<1>10. CASE CloseDialogs
  BY <1>10 DEF CloseDialogs, Covered, AdminRec, Maybe
<1>11. CASE Fields
  BY <1>11 DEF Fields, AdminRec, Maybe
<1>12. CASE Approve
  BY <1>12 DEF Approve, NoApproval, Underway, Refunding, AdminRec, ApprovalRec, Maybe
<1>13. ASSUME Failed PROVE /\ approval' \in ApprovalRec /\ approval'.pc = "idle"
                          /\ admin' \in AdminRec /\ admin'.modal = admin.modal /\ admin'.view = admin.view
  BY <1>13 DEF Failed, NoApproval, AdminRec, ApprovalRec, Maybe
<1>14. ASSUME NEW pc \in {"upload", "patch"}, approval' = [approval EXCEPT !.pc = pc], approval.pc # "idle"
       PROVE approval' \in ApprovalRec /\ approval'.id \in Reqs
  BY <1>14 DEF ApprovalRec
<1>15. CASE Presign
  BY <1>13, <1>14, <1>15 DEF Presign
<1>16. CASE SendProof
  BY <1>13, <1>14, <1>16 DEF SendProof
<1>17. CASE PatchRow
  <2> DEFINE ok == rows[approval.id].status = "pending"
             paid == [rows[approval.id] EXCEPT !.status = "approved", !.proof = approval.file,
                                               !.bonus = approval.bonus, !.fair = ~stirred /\ ~carried]
  <2>0. approval.id \in Reqs
    BY <1>17 DEF PatchRow
  <2>1. paid \in RowRec
    <3>1. approval.file \in Maybe /\ approval.bonus \in Maybe
      BY DEF ApprovalRec
    <3> QED
      BY <2>0, <3>1, PayPageRecords
  <2>2. rows' = IF ok THEN [rows EXCEPT ![approval.id] = paid] ELSE rows
    BY <1>17 DEF PatchRow
  <2>3. approval' \in ApprovalRec /\ (approval'.pc # "idle" => approval'.id \in Reqs)
    BY <1>17, <2>0 DEF PatchRow, ApprovalRec, NoApproval, Maybe
  <2> HIDE DEF paid, ok
  <2>4. rows' \in [Reqs -> RowRec]
    BY <2>0, <2>1, <2>2
  <2> QED
    BY <1>17, <2>3, <2>4 DEF PatchRow
<1>18. CASE ApprovalBack
  <2>1. admin' \in AdminRec /\ (admin'.modal = NoReq \/ admin'.view = NoReq)
    BY <1>18 DEF ApprovalBack, AdminRec, Maybe
  <2>2. approval' \in ApprovalRec /\ approval'.pc = "idle"
    BY <1>18, PayPageRecords DEF ApprovalBack, NoApproval
  <2> QED
    BY <1>18, <2>1, <2>2 DEF ApprovalBack
<1>19. CASE AnswerLost
  BY <1>13, <1>19 DEF AnswerLost
<1>20. CASE UNCHANGED payPageVars
  BY <1>20 DEF payPageVars
<1> HIDE DEF PayPageTypes
<1> QED
  BY <1>1, <1>2, <1>3, <1>4, <1>5, <1>6, <1>7, <1>8, <1>9, <1>10, <1>11, <1>12, <1>15, <1>16, <1>17,
     <1>18, <1>19, <1>20 DEF PayPageNext

LEMMA DeleteForm ==
  ASSUME PayPageTypes, NEW i \in Reqs, DeleteRow(i)
  PROVE  /\ \A j \in Reqs : j # i => rows'[j] = rows[j] /\ refunds'[j] = refunds[j]
         /\ refunds[i].pc \in {"sent", "unheard"}
         /\ refunds'[i].pc \in {"idle", "back"}
         /\ \/ rows'[i] = rows[i]
            \/ /\ rows'[i].status = "deleted" /\ rows[i].status \in {"pending", "approved"}
               /\ rows'[i].fair <=> ~stirred
               /\ rows'[i].back <=> rows[i].status = "approved"
               /\ rows'[i].said = refunds[i].said
               /\ refunds[i].pc = "sent" => refunds'[i].pc = "back" /\ refunds'[i].ok
<1> DEFINE ok == rows[i].status \in {"pending", "approved"}
           gone == [NoRow EXCEPT !.status = "deleted", !.back = (rows[i].status = "approved"),
                                 !.said = refunds[i].said, !.fair = ~stirred]
           answered == [refunds[i] EXCEPT !.pc = "back", !.ok = ok]
<1>1. /\ gone.status = "deleted" /\ (gone.fair <=> ~stirred)
      /\ gone.back <=> rows[i].status = "approved"
      /\ gone.said = refunds[i].said
  BY DEF NoRow
<1>2. answered.pc = "back" /\ (answered.ok <=> ok) /\ NoRefund.pc = "idle"
  BY DEF PayPageTypes, RefundRec, NoRefund
<1>3. rows' = IF ok THEN [rows EXCEPT ![i] = gone] ELSE rows
  BY DEF DeleteRow
<1>4. refunds' = [refunds EXCEPT ![i] = IF refunds[i].pc = "unheard" THEN NoRefund ELSE answered]
  BY DEF DeleteRow
<1>5. refunds[i].pc \in {"sent", "unheard"} /\ (ok <=> rows[i].status \in {"pending", "approved"})
  BY DEF DeleteRow
<1>6. rows \in [Reqs -> RowRec] /\ refunds \in [Reqs -> RefundRec]
  BY DEF PayPageTypes
<1> HIDE DEF gone, answered, ok
<1>7. refunds'[i] = (IF refunds[i].pc = "unheard" THEN NoRefund ELSE answered)
      /\ \A j \in Reqs : j # i => refunds'[j] = refunds[j]
  BY <1>4, <1>6
<1>8. rows'[i] = (IF ok THEN gone ELSE rows[i]) /\ \A j \in Reqs : j # i => rows'[j] = rows[j]
  BY <1>3, <1>6
<1> QED
  BY <1>1, <1>2, <1>5, <1>7, <1>8

LEMMA AnsweredApproval ==
  ASSUME PayPageTypes, ApprovalBack
  PROVE  /\ approval'.pc = "idle" /\ admin'.view = admin.view
         /\ admin'.leaving <=> admin.leaving \/ approval.ok
         /\ \/ admin'.modal = NoReq /\ admin'.file = NoReq /\ admin'.bonus = NoReq
            \/ admin'.modal = admin.modal /\ admin'.file = admin.file /\ admin'.bonus = admin.bonus
<1>1. CASE approval.ok
  BY <1>1 DEF ApprovalBack, PayPageTypes, AdminRec, NoApproval
<1>2. CASE ~approval.ok
  BY <1>2 DEF ApprovalBack, PayPageTypes, AdminRec, NoApproval
<1> QED
  BY <1>1, <1>2

LEMMA OneUnderwayNext ==
  ASSUME PayPageTypes, OneUnderway, [PayPageNext]_payPageVars
  PROVE  OneUnderway'
<1> USE DEF PayPageTypes, OneUnderway, Refunding, RowRec, RefundRec, AdminRec, ApprovalRec, Maybe, States
<1>1. ASSUME NEW i \in Reqs, Request(i) PROVE OneUnderway'
  BY <1>1 DEF Request
<1>2. ASSUME NEW i \in Reqs, OtherAdmin(i) PROVE OneUnderway'
  BY <1>2 DEF OtherAdmin, NoRow
<1>3. ASSUME NEW i \in Reqs, OpenModal(i) PROVE OneUnderway'
  BY <1>3 DEF OpenModal, Act, Covered
<1>4. ASSUME NEW i \in Reqs, OpenView(i) PROVE OneUnderway'
  BY <1>4 DEF OpenView, Act, Covered
<1>5. ASSUME NEW i \in Reqs, Refund(i) PROVE OneUnderway'
  BY <1>5 DEF Refund, Act, Covered, Underway, Refunding, NoRefund
<1>6. ASSUME NEW i \in Reqs, DeleteRow(i) PROVE OneUnderway'
  BY <1>6 DEF DeleteRow, NoRow, NoRefund
<1>7. ASSUME NEW i \in Reqs, Refunded(i) PROVE OneUnderway'
  BY <1>7 DEF Refunded, NoRefund
<1>8. ASSUME NEW i \in Reqs, RefundLost(i) PROVE OneUnderway'
  BY <1>8 DEF RefundLost, NoRefund
<1>9. CASE LoadTable
  BY <1>9 DEF LoadTable, Table, Fresh, NoApproval, NoRefund
<1>10. CASE CloseDialogs
  BY <1>10 DEF CloseDialogs, Covered
<1>11. CASE Fields
  BY <1>11 DEF Fields
<1>12. CASE Approve
  BY <1>12 DEF Approve, Act, NoApproval, Underway, Refunding
<1>13. CASE Presign
  BY <1>13 DEF Presign, Failed, NoApproval
<1>14. CASE SendProof
  BY <1>14 DEF SendProof, Failed, NoApproval
<1>15. CASE PatchRow
  BY <1>15 DEF PatchRow, NoApproval
<1>16. CASE ApprovalBack
  BY <1>16 DEF ApprovalBack, NoApproval
<1>17. CASE AnswerLost
  BY <1>17 DEF AnswerLost, Failed, NoApproval
<1>18. CASE UNCHANGED payPageVars
  BY <1>18 DEF payPageVars
<1> HIDE DEF PayPageTypes, OneUnderway, Refunding, RowRec, RefundRec, AdminRec, ApprovalRec, Maybe, States
<1> QED
  BY <1>1, <1>2, <1>3, <1>4, <1>5, <1>6, <1>7, <1>8, <1>9, <1>10, <1>11, <1>12, <1>13, <1>14, <1>15, <1>16, <1>17, <1>18 DEF PayPageNext

LEMMA TableNext ==
  ASSUME PayPageTypes, OneUnderway, TableInv, [PayPageNext]_payPageVars
  PROVE  TableInv'
<1> USE NoReqAssumption
<1> USE DEF PayPageTypes, OneUnderway, TableInv, Moved, Table, Refunding, RowRec, RefundRec, AdminRec, ApprovalRec, Maybe, States
<1>1. ASSUME NEW i \in Reqs, Request(i) PROVE TableInv'
  BY <1>1 DEF Request
<1>2. ASSUME NEW i \in Reqs, OtherAdmin(i) PROVE TableInv'
  BY <1>2 DEF OtherAdmin, NoRow
<1>3. ASSUME NEW i \in Reqs, OpenModal(i) PROVE TableInv'
  BY <1>3 DEF OpenModal, Act, Covered
<1>4. ASSUME NEW i \in Reqs, OpenView(i) PROVE TableInv'
  BY <1>4 DEF OpenView, Act, Covered
<1>5. ASSUME NEW i \in Reqs, Refund(i) PROVE TableInv'
  BY <1>5 DEF Refund, Act, Covered, Underway, Refunding, NoRefund
<1>6. ASSUME NEW i \in Reqs, DeleteRow(i) PROVE TableInv'
  <2>1. UNCHANGED <<shown, admin, approval, stirred>>
    BY <1>6 DEF DeleteRow
  <2>2. refunds[i].pc \in {"sent", "unheard"} /\ refunds'[i].pc # "sent"
    BY <1>6, DeleteForm
  <2>3. CASE stirred
    BY <2>1, <2>3
  <2>4. CASE ~stirred
    <3>1. refunds[i].pc = "sent" /\ \A j \in Reqs : j # i => refunds'[j] = refunds[j] /\ refunds[j].pc = "idle"
      BY <1>6, <2>2, <2>4, DeleteForm
    <3>2. \A j \in Reqs : refunds'[j].pc # "sent"
      BY <2>2, <3>1
    <3>3. CASE rows'[i] = rows[i]
      <4>1. ~Moved' => ~Moved
        BY <2>1, <3>1
      <4>2. \A j \in Reqs : rows'[j] = rows[j]
        BY <1>6, <3>3, DeleteForm
      <4> QED
        BY <2>1, <3>2, <4>1, <4>2
    <3>4. CASE rows'[i] # rows[i]
      <4>1. Moved'
        BY <1>6, <3>1, <3>4, DeleteForm
      <4> QED
        BY <2>1, <3>2, <4>1
    <3> QED
      BY <3>3, <3>4
  <2> QED
    BY <2>3, <2>4
<1>7. ASSUME NEW i \in Reqs, Refunded(i) PROVE TableInv'
  BY <1>7 DEF Refunded, NoRefund
<1>8. ASSUME NEW i \in Reqs, RefundLost(i) PROVE TableInv'
  BY <1>8 DEF RefundLost, NoRefund
<1>9. CASE LoadTable
  BY <1>9 DEF LoadTable, Table, Fresh, NoApproval, NoRefund
<1>10. CASE CloseDialogs
  BY <1>10 DEF CloseDialogs, Covered
<1>11. CASE Fields
  BY <1>11 DEF Fields
<1>12. CASE Approve
  BY <1>12 DEF Approve, Act, NoApproval, Underway, Refunding
<1>13. CASE Presign
  BY <1>13 DEF Presign, Failed, NoApproval
<1>14. CASE SendProof
  BY <1>14 DEF SendProof, Failed, NoApproval
<1>15. CASE PatchRow
  BY <1>15 DEF PatchRow, NoApproval
<1>16. CASE ApprovalBack
  <2>1. UNCHANGED <<rows, shown, refunds, stirred>> /\ approval.pc = "back"
    BY <1>16 DEF ApprovalBack
  <2> QED
    BY <1>16, <2>1, AnsweredApproval
<1>17. CASE AnswerLost
  BY <1>17 DEF AnswerLost, Failed, NoApproval
<1>18. CASE UNCHANGED payPageVars
  BY <1>18 DEF payPageVars
<1> HIDE DEF PayPageTypes, OneUnderway, TableInv, Moved, Table, Refunding, RowRec, RefundRec, AdminRec, ApprovalRec, Maybe, States
<1> QED
  BY <1>1, <1>2, <1>3, <1>4, <1>5, <1>6, <1>7, <1>8, <1>9, <1>10, <1>11, <1>12, <1>13, <1>14, <1>15, <1>16, <1>17, <1>18 DEF PayPageNext

LEMMA ChoiceNext ==
  ASSUME PayPageTypes, OneUnderway, ChoiceInv, [PayPageNext]_payPageVars
  PROVE  ChoiceInv'
<1> USE NoReqAssumption
<1> USE DEF PayPageTypes, OneUnderway, ChoiceInv, RowRec, RefundRec, AdminRec, ApprovalRec, Maybe, States
<1>1. ASSUME NEW i \in Reqs, Request(i) PROVE ChoiceInv'
  BY <1>1 DEF Request
<1>2. ASSUME NEW i \in Reqs, OtherAdmin(i) PROVE ChoiceInv'
  BY <1>2 DEF OtherAdmin, NoRow
<1>3. ASSUME NEW i \in Reqs, OpenModal(i) PROVE ChoiceInv'
  BY <1>3 DEF OpenModal, Act, Covered
<1>4. ASSUME NEW i \in Reqs, OpenView(i) PROVE ChoiceInv'
  BY <1>4 DEF OpenView, Act, Covered
<1>5. ASSUME NEW i \in Reqs, Refund(i) PROVE ChoiceInv'
  BY <1>5 DEF Refund, Act, Covered, Underway, Refunding, NoRefund
<1>6. ASSUME NEW i \in Reqs, DeleteRow(i) PROVE ChoiceInv'
  BY <1>6 DEF DeleteRow, NoRow, NoRefund
<1>7. ASSUME NEW i \in Reqs, Refunded(i) PROVE ChoiceInv'
  BY <1>7 DEF Refunded, NoRefund
<1>8. ASSUME NEW i \in Reqs, RefundLost(i) PROVE ChoiceInv'
  BY <1>8 DEF RefundLost, NoRefund
<1>9. CASE LoadTable
  BY <1>9 DEF LoadTable, Table, Fresh, NoApproval, NoRefund
<1>10. CASE CloseDialogs
  BY <1>10 DEF CloseDialogs, Covered
<1>11. CASE Fields
  BY <1>11 DEF Fields
<1>12. CASE Approve
  BY <1>12 DEF Approve, Act, NoApproval, Underway, Refunding
<1>13. CASE Presign
  BY <1>13 DEF Presign, Failed, NoApproval
<1>14. CASE SendProof
  BY <1>14 DEF SendProof, Failed, NoApproval
<1>15. CASE PatchRow
  BY <1>15 DEF PatchRow, NoApproval
<1>16. CASE ApprovalBack
  <2>1. UNCHANGED <<carried, stirred>>
    BY <1>16 DEF ApprovalBack
  <2> QED
    BY <1>16, <2>1, AnsweredApproval
<1>17. CASE AnswerLost
  BY <1>17 DEF AnswerLost, Failed, NoApproval
<1>18. CASE UNCHANGED payPageVars
  BY <1>18 DEF payPageVars
<1> HIDE DEF PayPageTypes, OneUnderway, ChoiceInv, RowRec, RefundRec, AdminRec, ApprovalRec, Maybe, States
<1> QED
  BY <1>1, <1>2, <1>3, <1>4, <1>5, <1>6, <1>7, <1>8, <1>9, <1>10, <1>11, <1>12, <1>13, <1>14, <1>15, <1>16, <1>17, <1>18 DEF PayPageNext

LEMMA FairNext ==
  ASSUME PayPageTypes, OneUnderway, TableInv, ChoiceInv, FairInv, [PayPageNext]_payPageVars
  PROVE  FairInv'
<1> USE NoReqAssumption
<1> USE DEF PayPageTypes, OneUnderway, TableInv, ChoiceInv, FairInv, RowRec, RefundRec, AdminRec, ApprovalRec, Maybe, States
<1>1. ASSUME NEW i \in Reqs, Request(i) PROVE FairInv'
  BY <1>1 DEF Request
<1>2. ASSUME NEW i \in Reqs, OtherAdmin(i) PROVE FairInv'
  <2>1. \A j \in Reqs : j # i => rows'[j] = rows[j]
    BY <1>2 DEF OtherAdmin
  <2>2. \/ rows'[i].fair = FALSE
        \/ rows[i].status = "pending" /\ rows'[i].fair = rows[i].fair
    BY <1>2 DEF OtherAdmin, NoRow
  <2> QED
    BY <2>1, <2>2
<1>3. ASSUME NEW i \in Reqs, OpenModal(i) PROVE FairInv'
  BY <1>3 DEF OpenModal, Act, Covered
<1>4. ASSUME NEW i \in Reqs, OpenView(i) PROVE FairInv'
  BY <1>4 DEF OpenView, Act, Covered
<1>5. ASSUME NEW i \in Reqs, Refund(i) PROVE FairInv'
  BY <1>5 DEF Refund, Act, Covered, Underway, Refunding, NoRefund
<1>6. ASSUME NEW i \in Reqs, DeleteRow(i) PROVE FairInv'
  <2>1. rows[i].status = "deleted" \/ rows[i].status # "deleted"
    OBVIOUS
  <2>2. refunds[i].pc = "unheard" => stirred
    OBVIOUS
  <2> QED
    BY <1>6, <2>1, <2>2, DeleteForm
<1>7. ASSUME NEW i \in Reqs, Refunded(i) PROVE FairInv'
  BY <1>7 DEF Refunded, NoRefund
<1>8. ASSUME NEW i \in Reqs, RefundLost(i) PROVE FairInv'
  BY <1>8 DEF RefundLost, NoRefund
<1>9. CASE LoadTable
  BY <1>9 DEF LoadTable, Table, Fresh, NoApproval, NoRefund
<1>10. CASE CloseDialogs
  BY <1>10 DEF CloseDialogs, Covered
<1>11. CASE Fields
  BY <1>11 DEF Fields
<1>12. CASE Approve
  BY <1>12 DEF Approve, Act, NoApproval, Underway, Refunding
<1>13. CASE Presign
  BY <1>13 DEF Presign, Failed, NoApproval
<1>14. CASE SendProof
  BY <1>14 DEF SendProof, Failed, NoApproval
<1>15. CASE PatchRow
  BY <1>15 DEF PatchRow, NoApproval
<1>16. CASE ApprovalBack
  BY <1>16 DEF ApprovalBack, NoApproval
<1>17. CASE AnswerLost
  BY <1>17 DEF AnswerLost, Failed, NoApproval
<1>18. CASE UNCHANGED payPageVars
  BY <1>18 DEF payPageVars
<1> HIDE DEF PayPageTypes, OneUnderway, TableInv, ChoiceInv, FairInv, RowRec, RefundRec, AdminRec, ApprovalRec, Maybe, States
<1> QED
  BY <1>1, <1>2, <1>3, <1>4, <1>5, <1>6, <1>7, <1>8, <1>9, <1>10, <1>11, <1>12, <1>13, <1>14, <1>15, <1>16, <1>17, <1>18 DEF PayPageNext

LEMMA PayPageInvInit == PayPageInit => PayPageInv
<1> SUFFICES ASSUME PayPageInit PROVE PayPageInv
  OBVIOUS
<1>1. PayPageTypes
  BY PayPageRecords DEF PayPageInit, PayPageTypes, Fresh, NoApproval, States
<1>2. OneUnderway
  BY DEF PayPageInit, OneUnderway, Refunding, Fresh, NoApproval, NoRefund
<1>3. TableInv
  BY DEF PayPageInit, TableInv, Fresh, NoRefund
<1>4. ChoiceInv
  BY DEF PayPageInit, ChoiceInv, Fresh, NoApproval
<1>5. FairInv
  BY DEF PayPageInit, FairInv, NoRow
<1> QED
  BY <1>1, <1>2, <1>3, <1>4, <1>5 DEF PayPageInv

LEMMA PayPageInvNext == PayPageInv /\ [PayPageNext]_payPageVars => PayPageInv'
<1> SUFFICES ASSUME PayPageInv, [PayPageNext]_payPageVars PROVE PayPageInv'
  OBVIOUS
<1> QED
  BY PayPageTypesNext, OneUnderwayNext, TableNext, ChoiceNext, FairNext DEF PayPageInv

LEMMA PayPageAlways == PayPageSpec => []PayPageInv
<1>1. PayPageInit => PayPageInv
  BY PayPageInvInit
<1>2. PayPageInv /\ [PayPageNext]_payPageVars => PayPageInv'
  BY PayPageInvNext
<1> QED
  BY <1>1, <1>2, PTL DEF PayPageSpec

(* The table, what the page shows of it and its requests keep their types.   *)
THEOREM PayPageTyped == PayPageSpec => []PayPageTypeOK
<1>1. PayPageInv => PayPageTypeOK
  BY DEF PayPageInv, PayPageTypes, PayPageTypeOK, RowRec, RefundRec, AdminRec, ApprovalRec, Maybe, States
<1> QED
  BY <1>1, PayPageAlways, PTL

(* For any payouts, until somebody else acts, an answer is lost or a click   *)
(* comes early: refunds follow what was shown, proofs and bonuses the dialog *)
(* they were chosen in, and a page at rest shows the table                   *)
(* (table.tsx:60-133, page.tsx:13-29).                                       *)
THEOREM PayoutsGoAsShown == PayPageSpec => []PayoutsAsShown
<1>1. PayPageInv => PayoutsAsShown
  BY DEF PayPageInv, FairInv, TableInv, PayoutsAsShown, Underway, Moved, Refunding
<1> QED
  BY <1>1, PayPageAlways, PTL

------------------------------------------------------------------------------
(* The page of a review                                                      *)

PageEntry == [mark : Marks, mins : Int]
(* Decisions on some of the devlogs.                                         *)
Answers == UNION {[D -> PageEntry] : D \in SUBSET Logs}
ReviewStates == {"pending", "done", "returned"}

ReviewPageTypes ==
  /\ onFlavor \subseteq Logs
  /\ row \in [status : ReviewStates, logs : SUBSET Logs, dec : Answers, reason : BOOLEAN]
  /\ view \in [status : ReviewStates, logs : SUBSET Logs]
  /\ marks \in Answers
  /\ submit \in [pc : {"idle", "read", "write", "back"}, action : {"complete", "return"},
                 marks : Answers, reason : BOOLEAN, seen : Answers, gone : SUBSET Logs, ok : BOOLEAN]
  /\ reload \in [pc : {"idle", "read", "write", "back"}, seen : Answers]
  /\ undoing \in {"idle", "sent", "back"}
  /\ row.status = "returned" <=> row.reason
  /\ wiped \in SUBSET Logs
  /\ submit.pc # "idle" => (submit.action = "return" <=> submit.reason)

(* What a reload has read has the verdicts that were kept; the column, and   *)
(* what a submission read of it, has an entry of each devlog nothing wiped.  *)
KeptAgrees(dec) == \A d \in DOMAIN kept : d \in DOMAIN dec /\ dec[d] = kept[d]
KeptInv ==
  /\ KeptAgrees(row.dec)
  /\ reload.pc = "write" => KeptAgrees(reload.seen)
  /\ Logs \ wiped \subseteq DOMAIN row.dec
  /\ submit.pc = "write" => Logs \ submit.gone \subseteq DOMAIN submit.seen

LEMMA VerdictsForm ==
  \A v : v \in Answers <=> /\ v = [d \in DOMAIN v |-> v[d]] /\ DOMAIN v \subseteq Logs
                            /\ \A d \in DOMAIN v : v[d] \in PageEntry
<1>1. ASSUME NEW v, v \in Answers
      PROVE  v = [d \in DOMAIN v |-> v[d]] /\ DOMAIN v \subseteq Logs /\ \A d \in DOMAIN v : v[d] \in PageEntry
  <2>1. PICK D \in SUBSET Logs : v \in [D -> PageEntry]
    BY <1>1 DEF Answers
  <2> QED
    BY <2>1
<1>2. ASSUME NEW v, v = [d \in DOMAIN v |-> v[d]], DOMAIN v \subseteq Logs,
             \A d \in DOMAIN v : v[d] \in PageEntry
      PROVE  v \in Answers
  <2>1. v \in [DOMAIN v -> PageEntry]
    BY <1>2
  <2> QED
    BY <1>2, <2>1 DEF Answers
<1> QED
  BY <1>1, <1>2

LEMMA VerdictsMade == \A D \in SUBSET Logs : \A v \in [D -> PageEntry] : v \in Answers
BY DEF Answers

LEMMA NoVerdicts == <<>> \in Answers /\ DOMAIN <<>> = {}
<1>1. <<>> \in [{} -> PageEntry]
  OBVIOUS
<1> QED
  BY <1>1 DEF Answers

LEMMA EntryForms ==
  /\ \A d \in Logs : [mark |-> "pending", mins |-> Orig[d]] \in PageEntry
  /\ [mark |-> "rejected", mins |-> 0] \in PageEntry
  /\ \A e \in PageEntry : [e EXCEPT !.mark = "approved"] \in PageEntry
  /\ \A e \in PageEntry, n \in Int : [e EXCEPT !.mins = n] \in PageEntry
  /\ \A e \in PageEntry : [e EXCEPT !.mins = IF @ > Cap THEN Cap ELSE @] \in PageEntry
BY OrigAssumption DEF PageEntry, Marks

LEMMA OpenedTyped ==
  ASSUME NEW logs \in SUBSET Logs, NEW dec \in Answers
  PROVE  Opened(logs, dec) \in Answers /\ DOMAIN Opened(logs, dec) = logs
<1>1. \A d \in logs : Shown(dec, d) \in PageEntry
  BY EntryForms, VerdictsForm DEF Shown
<1>2. Opened(logs, dec) \in [logs -> PageEntry]
  BY <1>1 DEF Opened
<1> QED
  BY <1>2, VerdictsMade

LEMMA JoinedTyped ==
  ASSUME NEW dec \in Answers, NEW there \in Answers
  PROVE  Joined(dec, there) \in Answers
<1>1. \A d \in DOMAIN dec : (IF d \in DOMAIN there THEN there[d] ELSE dec[d]) \in PageEntry
  BY VerdictsForm
<1>2. DOMAIN dec \subseteq Logs
  BY VerdictsForm
<1>3. Joined(dec, there) \in [DOMAIN dec -> PageEntry]
  BY <1>1 DEF Joined
<1> QED
  BY <1>2, <1>3, VerdictsMade

LEMMA MarkedTyped ==
  ASSUME ReviewPageTypes, (\E d \in Logs : MarkOne(d)) \/ MarkAll
  PROVE  marks' \in Answers
<1>0. DOMAIN marks \subseteq Logs /\ \A x \in DOMAIN marks : marks[x] \in PageEntry
  BY VerdictsForm DEF ReviewPageTypes
<1>1. ASSUME NEW d \in DOMAIN marks, NEW e \in PageEntry
      PROVE  [x \in DOMAIN marks |-> IF x = d THEN e ELSE marks[x]] \in Answers
  <2>1. \A x \in DOMAIN marks : (IF x = d THEN e ELSE marks[x]) \in PageEntry
    BY <1>0, <1>1
  <2>2. [x \in DOMAIN marks |-> IF x = d THEN e ELSE marks[x]] \in [DOMAIN marks -> PageEntry]
    BY <2>1
  <2> QED
    BY <1>0, <2>2, VerdictsMade
<1>2. ASSUME NEW d \in Logs, MarkOne(d) PROVE marks' \in Answers
  <2>1. d \in DOMAIN marks
    BY <1>2 DEF MarkOne
  <2>2. Quick(d) \cup Typed \subseteq Int
    BY OrigAssumption DEF Quick
  <2>3. PICK e \in PageEntry : Upd(d, e)
    <3>1. CASE Upd(d, [marks[d] EXCEPT !.mark = "approved"])
      BY <1>0, <2>1, <3>1, EntryForms
    <3>2. CASE Upd(d, [mark |-> "rejected", mins |-> 0])
      BY <3>2, EntryForms
    <3>3. CASE \E n \in Quick(d) \cup Typed : Upd(d, [marks[d] EXCEPT !.mins = n])
      BY <1>0, <2>1, <2>2, <3>3, EntryForms
    <3> QED
      BY <1>2, <3>1, <3>2, <3>3 DEF MarkOne
  <2> QED
    BY <1>1, <2>1, <2>3 DEF Upd
<1>3. CASE MarkAll
  <2>1. CASE marks' = [d \in DOMAIN marks |-> [marks[d] EXCEPT !.mark = "approved"]]
    <3>1. \A d \in DOMAIN marks : [marks[d] EXCEPT !.mark = "approved"] \in PageEntry
      BY <1>0, EntryForms
    <3>2. marks' \in [DOMAIN marks -> PageEntry]
      BY <2>1, <3>1
    <3> QED
      BY <1>0, <3>2, VerdictsMade
  <2>2. CASE marks' = [d \in DOMAIN marks |-> [mark |-> "rejected", mins |-> 0]]
    <3>1. marks' \in [DOMAIN marks -> PageEntry]
      BY <2>2, EntryForms
    <3> QED
      BY <1>0, <3>1, VerdictsMade
  <2>3. CASE marks' = [d \in DOMAIN marks |-> [marks[d] EXCEPT !.mins = IF @ > Cap THEN Cap ELSE @]]
    <3>1. \A d \in DOMAIN marks : [marks[d] EXCEPT !.mins = IF @ > Cap THEN Cap ELSE @] \in PageEntry
      BY <1>0, EntryForms
    <3>2. marks' \in [DOMAIN marks -> PageEntry]
      BY <2>3, <3>1
    <3> QED
      BY <1>0, <3>2, VerdictsMade
  <2> QED
    BY <1>3, <2>1, <2>2, <2>3 DEF MarkAll
<1> QED
  BY <1>2, <1>3

LEMMA ReviewPageTypesNext ==
  ASSUME ReviewPageTypes, [ReviewPageNext]_reviewPageVars
  PROVE  ReviewPageTypes'
<1> USE DEF ReviewPageTypes, ReviewStates
<1>1. CASE DevlogsChange
  BY <1>1 DEF DevlogsChange
<1>2. CASE OtherCloses
  <2>1. [d \in DOMAIN row.dec |-> [mark |-> "rejected", mins |-> 0]] \in Answers
    <3>1. [d \in DOMAIN row.dec |-> [mark |-> "rejected", mins |-> 0]] \in [DOMAIN row.dec -> PageEntry]
      BY EntryForms
    <3> QED
      BY <3>1, VerdictsForm, VerdictsMade
  <2> QED
    BY <1>2, <2>1 DEF OtherCloses
<1>3. CASE (\E d \in Logs : MarkOne(d)) \/ MarkAll
  <2>1. marks' \in Answers
    BY <1>3, MarkedTyped
  <2> QED
    BY <1>3, <2>1 DEF MarkOne, MarkAll
<1>4. CASE \E l \in Links : OpenLink(l)
  BY <1>4 DEF OpenLink
<1>5. ASSUME NEW action \in {"complete", "return"}, Submit(action) PROVE ReviewPageTypes'
  BY <1>5, NoVerdicts DEF Submit, NoSubmit
<1>6. CASE SubmitRead
  BY <1>6 DEF SubmitRead
<1>7. CASE SubmitWrite
  <2>1. Joined(submit.seen, submit.marks) \in Answers
    BY JoinedTyped
  <2> QED
    BY <1>7, <2>1 DEF SubmitWrite
<1>8. CASE SubmitFails
  BY <1>8 DEF SubmitFails
<1>9. CASE Submitted
  BY <1>9, NoVerdicts DEF Submitted, NoSubmit
<1>10. CASE Undo
  BY <1>10 DEF Undo
<1>11. CASE UndoServed
  BY <1>11, NoVerdicts DEF UndoServed
<1>12. CASE UndoBack
  BY <1>12 DEF UndoBack, Refreshed
<1>13. CASE Reload
  BY <1>13, NoVerdicts DEF Reload, NoReload
<1>14. CASE ReloadRead
  BY <1>14 DEF ReloadRead
<1>15. ASSUME NEW found \in SUBSET Logs, ReloadWrite(found) PROVE ReviewPageTypes'
  <2>1. Opened(found, reload.seen) \in Answers
    BY OpenedTyped
  <2> QED
    BY <1>15, <2>1 DEF ReloadWrite
<1>16. CASE ReloadBack
  BY <1>16, NoVerdicts DEF ReloadBack, NoReload, Refreshed
<1>17. CASE OpenReview
  <2>1. Opened(row.logs, row.dec) \in Answers
    BY OpenedTyped
  <2> QED
    BY <1>17, <2>1 DEF OpenReview, Refreshed
<1>18. CASE UNCHANGED reviewPageVars
  BY <1>18 DEF reviewPageVars
<1>19. onFlavor \in SUBSET Logs /\ {} \in SUBSET Logs
  OBVIOUS
<1> HIDE DEF ReviewPageTypes
<1> QED
  BY <1>1, <1>2, <1>3, <1>4, <1>5, <1>6, <1>7, <1>8, <1>9, <1>10, <1>11, <1>12, <1>13, <1>14, <1>15, <1>16,
     <1>17, <1>18, <1>19 DEF ReviewPageNext

LEMMA SheetKeptNext ==
  ASSUME ReviewPageTypes, KeptInv, [ReviewPageNext]_reviewPageVars
  PROVE  KeptInv'
<1> USE DEF KeptInv, KeptAgrees
<1>1. CASE OtherCloses \/ UndoServed
  <2>1. KeptAgrees(row.dec)' /\ (reload.pc = "write" => KeptAgrees(reload.seen))'
    BY <1>1, NoVerdicts DEF OtherCloses, UndoServed
  <2>2. (Logs \ wiped \subseteq DOMAIN row.dec)'
    BY <1>1 DEF OtherCloses, UndoServed, ReviewPageTypes
  <2>3. submit' = submit
    BY <1>1 DEF OtherCloses, UndoServed
  <2> QED
    BY <2>1, <2>2, <2>3
<1>2. CASE SubmitRead
  <2>1. UNCHANGED <<row, kept, reload, wiped>> /\ submit'.seen = row.dec /\ submit'.gone = wiped
    BY <1>2 DEF SubmitRead, ReviewPageTypes
  <2> QED
    BY <2>1
<1>3. CASE SubmitWrite
  <2>1. row'.dec = Joined(submit.seen, submit.marks) /\ UNCHANGED reload /\ wiped' = submit.gone
        /\ submit'.pc = "back"
    BY <1>3 DEF SubmitWrite, ReviewPageTypes
  <2>2. Logs \ submit.gone \subseteq DOMAIN submit.seen
    BY <1>3 DEF SubmitWrite
  <2>3. DOMAIN row'.dec = DOMAIN submit.seen
    BY <2>1 DEF Joined
  <2>4. CASE reload.pc = "write"
    BY <1>3, <2>1, <2>2, <2>3, <2>4, NoVerdicts DEF SubmitWrite
  <2>5. CASE reload.pc # "write"
    <3>1. kept' = [d \in DOMAIN submit.marks \ submit.gone |-> submit.marks[d]]
      BY <1>3, <2>5 DEF SubmitWrite
    <3>2. DOMAIN submit.marks \subseteq Logs
      BY VerdictsForm DEF ReviewPageTypes
    <3>3. \A d \in DOMAIN kept' : d \in DOMAIN submit.seen /\ kept'[d] = submit.marks[d]
      BY <2>2, <3>1, <3>2
    <3>4. KeptAgrees(row.dec)'
      BY <2>1, <2>3, <3>1, <3>3 DEF Joined
    <3> QED
      BY <2>1, <2>2, <2>3, <2>5, <3>4
  <2> QED
    BY <2>4, <2>5
<1>4. CASE ReloadRead
  BY <1>4 DEF ReloadRead
<1>5. ASSUME NEW found \in SUBSET Logs, ReloadWrite(found) PROVE KeptInv'
  <2>1. row'.dec = Opened(found, reload.seen) /\ reload'.pc = "back" /\ wiped' = Logs \ found
        /\ UNCHANGED submit
    BY <1>5 DEF ReloadWrite, ReviewPageTypes
  <2>2. kept' = [d \in DOMAIN kept \cap found |-> kept[d]] /\ reload.pc = "write"
    BY <1>5 DEF ReloadWrite
  <2>3. \A d \in DOMAIN kept \cap found : kept'[d] = reload.seen[d] /\ d \in DOMAIN reload.seen
    BY <2>2
  <2>4. DOMAIN row'.dec = found
    BY <2>1 DEF Opened
  <2>5. KeptAgrees(row.dec)'
    BY <2>1, <2>2, <2>3, <2>4 DEF Opened, Shown
  <2> QED
    BY <2>1, <2>4, <2>5
<1>6. CASE /\ UNCHANGED <<row, kept, wiped>> /\ (reload' = reload \/ reload'.pc # "write")
           /\ submit' = submit \/ submit'.pc # "write"
  BY <1>6
<1>7. \/ OtherCloses \/ UndoServed \/ SubmitRead \/ SubmitWrite \/ ReloadRead
      \/ ReloadWrite(onFlavor) \/ ReloadWrite({})
      \/ /\ UNCHANGED <<row, kept, wiped>> /\ (reload' = reload \/ reload'.pc # "write")
         /\ submit' = submit \/ submit'.pc # "write"
  <2>1. ASSUME \/ DevlogsChange \/ MarkAll \/ Undo \/ UndoBack \/ OpenReview
               \/ (\E d \in Logs : MarkOne(d)) \/ \E l \in Links : OpenLink(l)
        PROVE  UNCHANGED <<row, kept, wiped, reload, submit>>
    BY <2>1 DEF DevlogsChange, MarkOne, MarkAll, OpenLink, Undo, UndoBack, OpenReview
  <2>2. ASSUME Reload \/ ReloadBack
        PROVE  UNCHANGED <<row, kept, wiped, submit>> /\ reload'.pc # "write"
    BY <2>2 DEF Reload, ReloadBack, NoReload
  <2>3. ASSUME SubmitFails \/ Submitted \/ \E action \in {"complete", "return"} : Submit(action)
        PROVE  UNCHANGED <<row, kept, wiped, reload>> /\ submit'.pc # "write"
    <3>1. ASSUME NEW action \in {"complete", "return"}, Submit(action)
          PROVE  UNCHANGED <<row, kept, wiped, reload>> /\ submit'.pc # "write"
      BY <3>1 DEF Submit, NoSubmit
    <3>2. SubmitFails \/ Submitted => UNCHANGED <<row, kept, wiped, reload>> /\ submit'.pc # "write"
      BY DEF SubmitFails, Submitted, NoSubmit, ReviewPageTypes
    <3> QED
      BY <2>3, <3>1, <3>2
  <2>4. UNCHANGED reviewPageVars => UNCHANGED <<row, kept, wiped, reload, submit>>
    BY DEF reviewPageVars
  <2> QED
    BY <2>1, <2>2, <2>3, <2>4, Zenon DEF ReviewPageNext
<1>8. onFlavor \in SUBSET Logs /\ {} \in SUBSET Logs
  BY DEF ReviewPageTypes
<1> QED
  BY <1>1, <1>2, <1>3, <1>4, <1>5, <1>6, <1>7, <1>8

LEMMA ReviewPageAlways == ReviewPageSpec => [](ReviewPageTypes /\ KeptInv)
<1>1. ReviewPageInit => ReviewPageTypes /\ KeptInv
  <2> SUFFICES ASSUME ReviewPageInit PROVE ReviewPageTypes /\ KeptInv
    OBVIOUS
  <2>1. onFlavor \in SUBSET Logs
    BY DEF ReviewPageInit
  <2>2. Opened(onFlavor, <<>>) \in Answers
    BY <2>1, NoVerdicts, OpenedTyped
  <2>3. row.dec = Opened(onFlavor, <<>>)
    BY DEF ReviewPageInit, Opened
  <2>4. Opened(onFlavor, row.dec) \in Answers
    BY <2>1, <2>2, <2>3, OpenedTyped
  <2>5. ReviewPageTypes
    BY <2>1, <2>2, <2>3, <2>4, NoVerdicts
    DEF ReviewPageInit, ReviewPageTypes, ReviewStates, NoSubmit, NoReload
  <2>6. DOMAIN row.dec = onFlavor
    BY <2>3 DEF Opened
  <2>7. KeptInv
    BY <2>6, NoVerdicts DEF ReviewPageInit, KeptInv, KeptAgrees, NoReload, NoSubmit
  <2> QED
    BY <2>5, <2>7
<1>2. ReviewPageTypes /\ KeptInv /\ [ReviewPageNext]_reviewPageVars => ReviewPageTypes' /\ KeptInv'
  BY ReviewPageTypesNext, SheetKeptNext
<1> QED
  BY <1>1, <1>2, PTL DEF ReviewPageSpec

(* The row of a review, its page and its requests keep their types.          *)
THEOREM ReviewPageTyped == ReviewPageSpec => []ReviewPageTypeOK
<1>1. ReviewPageTypes => ReviewPageTypeOK
  BY VerdictsForm DEF ReviewPageTypes, ReviewPageTypeOK, ReviewStates, PageEntry
<1> QED
  BY <1>1, ReviewPageAlways, PTL

(* For any devlogs, edits and reloads: each verdict a page submitted is in   *)
(* the row as long as later reloads find its devlog, until an undo or another*)
(* submission; those of devlogs an undo or a reload had wiped from the row   *)
(* are dropped, and no others (review.tsx:140-211, [id]/route.ts:98-121,     *)
(* refresh/route.ts:43-131).                                                 *)
THEOREM SheetIsRecorded == ReviewPageSpec => []SheetIsRecord
<1>1. KeptInv => SheetIsRecord
  BY DEF KeptInv, KeptAgrees, SheetIsRecord
<1> QED
  BY <1>1, ReviewPageAlways, PTL

------------------------------------------------------------------------------
(* The lists                                                                 *)

AnsRec == [rows : SUBSET ListRows, oldest : BOOLEAN, of : Nat]
AskRec == [pc : {"idle", "sent", "fetched", "answered", "failed"}, f : Filters \cup {NotFetching.f},
           ans : AnsRec, no : Nat, recent : BOOLEAN]
ScreenRec(url) == [open : {"no", "opening", "yes"}, f : Filters, url : {url}, ans : AnsRec, no : Nat,
                   recent : BOOLEAN]

(* The tables there were, when each was written, and numbers of them.        *)
TablesHold ==
  /\ list \in ListKinds /\ past \in Seq([ListRows -> Stages]) /\ Present >= 1
  /\ when \in Seq(Nat) /\ Len(when) = Present /\ clock \in Nat
  /\ \A i \in 1 .. Present : when[i] <= clock
  /\ lastBust \in 1 .. Present /\ owing \subseteq 1 .. Present

FilterFields == {"status", "only", "but", "oldest"}
UrlTyped(url) ==
  \A x \in DOMAIN url : /\ x = "status" => url[x] \in {"pending", "done", "all"}
                        /\ x # "status" => url[x] \in BOOLEAN

ListTypes ==
  /\ UrlTyped(screen.url)
  /\ asks \in Nat /\ screen \in ScreenRec(screen.url) /\ fetch \in [Slots -> AskRec]
  /\ \A k \in DOMAIN copies : copies[k] \in [ans : AnsRec, until : Nat]
  /\ \A s \in Slots : fetch[s].pc # "idle" => fetch[s].f \in Filters

(* An answer is what the filters pick in a table there was.                  *)
AnswersTo(ans, f) ==
  /\ ans.of \in 1 .. Present
  /\ ans.rows = Query(f, past[ans.of]).rows /\ ans.oldest = Query(f, past[ans.of]).oldest
LapsesAfter(ans, t) == ans.of = Present \/ when[ans.of + 1] >= t

(* What is anew has not been busted, and was the table a time-to-live before *)
(* it lapses.                                                                *)
CopyHolds(c, k) ==
  /\ AnswersTo(c.ans, k) /\ c.ans.of >= lastBust /\ c.until <= clock + Ttl
  /\ c.ans.of = Present \/ when[c.ans.of + 1] + Ttl >= c.until
KeptHold == \A k \in DOMAIN copies : CopyHolds(copies[k], k)

LoadHolds(l) ==
  /\ l.pc \in {"fetched", "answered"} => AnswersTo(l.ans, l.f)
  /\ l.pc = "fetched" => l.ans.of >= lastBust /\ LapsesAfter(l.ans, clock)
LoadsHold ==
  \A s \in Slots : LoadHolds(fetch[s]) /\ fetch[s].recent /\ fetch[s].no <= asks

(* What each page lets choose, and what its address keeps of that.           *)
Choosable(f) ==
  /\ list # "ysws" => ~f.but
  /\ list = "tickets" => ~f.only
UrlFits(url) ==
  /\ list # "ysws" => "but" \notin DOMAIN url
  /\ list = "tickets" => DOMAIN url = {}
Alike(f, g) == f.status = g.status /\ (f.only <=> g.only) /\ (f.but <=> g.but) /\ f.oldest = g.oldest

(* The newest load is of what the page shows as chosen.                      *)
ScreenHolds ==
  /\ screen.recent /\ screen.no <= asks /\ (screen.open # "no" => asks >= 1)
  /\ Choosable(screen.f) /\ UrlFits(screen.url)
  /\ screen.open = "opening" =>
       /\ list \in {"certs", "ysws"} /\ screen.f = FromUrl(screen.url)
       /\ \A s \in Slots : fetch[s].pc # "idle" => fetch[s].f = Default
  /\ screen.open = "yes" =>
       /\ \A s \in Slots : fetch[s].pc # "idle" /\ fetch[s].no = asks /\ list # "assignments" =>
                              Alike(fetch[s].f, screen.f)
       /\ screen.no = asks => AnswersTo(screen.ans, screen.f)

ListInv == TablesHold /\ ListTypes /\ KeptHold /\ LoadsHold /\ ScreenHolds

LEMMA DefaultIs ==
  /\ Default \in Filters /\ DOMAIN Default = FilterFields
  /\ Default.but = FALSE /\ Default.only = FALSE /\ AssignDefault \in Filters
BY DEF Default, CertsDefault, YswsDefault, AssignDefault, TicketsDefault, Filters, FilterFields

LEMMA FromUrlForm ==
  ASSUME NEW url, UrlTyped(url)
  PROVE  /\ FromUrl(url) \in Filters
         /\ \A x \in FilterFields : FromUrl(url)[x] = IF x \in DOMAIN url THEN url[x] ELSE Default[x]
<1>1. FromUrl(url) = [x \in FilterFields |-> IF x \in DOMAIN url THEN url[x] ELSE Default[x]]
  BY DefaultIs DEF FromUrl
<1>2. /\ Default["status"] \in {"pending", "done", "all"} /\ Default["only"] \in BOOLEAN
      /\ Default["but"] \in BOOLEAN /\ Default["oldest"] \in BOOLEAN
  BY DefaultIs DEF Filters
<1> HIDE DEF FromUrl
<1>3. \A x \in FilterFields : FromUrl(url)[x] = IF x \in DOMAIN url THEN url[x] ELSE Default[x]
  BY <1>1
<1>4. /\ FromUrl(url)["status"] \in {"pending", "done", "all"} /\ FromUrl(url)["only"] \in BOOLEAN
      /\ FromUrl(url)["but"] \in BOOLEAN /\ FromUrl(url)["oldest"] \in BOOLEAN
  <2>1. "status" \in FilterFields /\ "only" \in FilterFields /\ "but" \in FilterFields /\ "oldest" \in FilterFields
    BY DEF FilterFields
  <2>2. ASSUME NEW x \in FilterFields, NEW S, Default[x] \in S, x \in DOMAIN url => url[x] \in S
        PROVE  FromUrl(url)[x] \in S
    BY <1>3, <2>2, Zenon
  <2>3. "status" \in DOMAIN url => url["status"] \in {"pending", "done", "all"}
    BY DEF UrlTyped
  <2>4. "only" # "status" /\ "but" # "status" /\ "oldest" # "status"
    OBVIOUS
  <2>5. /\ "only" \in DOMAIN url => url["only"] \in BOOLEAN
        /\ "but" \in DOMAIN url => url["but"] \in BOOLEAN
        /\ "oldest" \in DOMAIN url => url["oldest"] \in BOOLEAN
    BY <2>4, Zenon DEF UrlTyped
  <2> QED
    BY <1>2, <2>1, <2>2, <2>3, <2>5, Zenon
<1>5. FromUrl(url) = [status |-> FromUrl(url)["status"], only |-> FromUrl(url)["only"],
                      but |-> FromUrl(url)["but"], oldest |-> FromUrl(url)["oldest"]]
  BY <1>1 DEF FilterFields
<1> QED
  BY <1>3, <1>4, <1>5 DEF Filters

LEMMA FromUrlFits ==
  ASSUME NEW url, UrlTyped(url), UrlFits(url)
  PROVE  /\ Choosable(FromUrl(url))
         /\ list = "tickets" => Alike(FromUrl(url), Default)
         /\ list = "certs" /\ ~CertsAsked(url) => Alike(FromUrl(url), Default)
         /\ list = "ysws" /\ ~YswsAsked(url) => Alike(FromUrl(url), Default)
<1>1. \A x \in FilterFields : x \notin DOMAIN url => FromUrl(url)[x] = Default[x]
  BY FromUrlForm
<1>2. "but" \notin DOMAIN url => FromUrl(url).but = FALSE
  BY <1>1, DefaultIs DEF FilterFields
<1>3. "only" \notin DOMAIN url => FromUrl(url).only = FALSE
  BY <1>1, DefaultIs DEF FilterFields
<1>4. (\A x \in FilterFields : x \notin DOMAIN url) => Alike(FromUrl(url), Default)
  BY <1>1 DEF FilterFields, Alike
<1>5. list = "certs" /\ ~CertsAsked(url) => \A x \in FilterFields : x \notin DOMAIN url
  BY DEF CertsAsked, UrlFits, FilterFields
<1> QED
  BY <1>2, <1>3, <1>4, <1>5 DEF UrlFits, Choosable, YswsAsked

LEMMA UrlForm ==
  ASSUME NEW f \in Filters
  PROVE  UrlTyped(Url(f)) /\ UrlFits(Url(f))
<1>0. /\ f["status"] \in {"pending", "done", "all"} /\ f["only"] \in BOOLEAN
      /\ f["but"] \in BOOLEAN /\ f["oldest"] \in BOOLEAN /\ DOMAIN f = FilterFields
  BY DEF Filters, FilterFields
<1>1. CASE list = "certs"
  <2>1. Url(f) = [x \in Changed(f, {"status", "only", "oldest"}, CertsDefault) |-> f[x]]
    BY <1>1 DEF Url, CertsUrl
  <2>2. Changed(f, {"status", "only", "oldest"}, CertsDefault) \subseteq {"status", "only", "oldest"}
    BY DEF Changed
  <2> HIDE DEF Url
  <2> QED
    BY <1>0, <1>1, <2>1, <2>2 DEF UrlTyped, UrlFits
<1>2. CASE list = "ysws"
  <2>1. Url(f) = [x \in Changed(f, DOMAIN f, YswsDefault) |-> f[x]]
    BY <1>2 DEF Url, YswsUrl
  <2>2. Changed(f, DOMAIN f, YswsDefault) \subseteq FilterFields
    BY <1>0 DEF Changed
  <2> QED
    BY <1>0, <1>2, <2>1, <2>2 DEF UrlTyped, UrlFits, FilterFields
<1>3. CASE list = "assignments"
  <2>1. Url(f) = [x \in Changed(f, {"status", "only"}, AssignDefault) |-> f[x]]
    BY <1>3 DEF Url, AssignUrl
  <2>2. Changed(f, {"status", "only"}, AssignDefault) \subseteq {"status", "only"}
    BY DEF Changed
  <2> QED
    BY <1>0, <1>3, <2>1, <2>2 DEF UrlTyped, UrlFits
<1>4. CASE list \notin {"certs", "ysws", "assignments"}
  <2>1. Url(f) = <<>>
    BY <1>4 DEF Url
  <2>2. DOMAIN Url(f) = {}
    BY <2>1
  <2> QED
    BY <2>2 DEF UrlTyped, UrlFits
<1> QED
  BY <1>1, <1>2, <1>3, <1>4

(* The query.                                                                *)
LEMMA QueryForm ==
  ASSUME NEW f \in Filters, NEW t, Present \in Nat
  PROVE  Query(f, t) \in AnsRec /\ Query(f, t).of = Present
<1>1. f.oldest \in BOOLEAN
  BY DEF Filters
<1> QED
  BY <1>1 DEF Query, CertsQuery, YswsQuery, AssignQuery, TicketsQuery, AnsRec

LEMMA QueryAlike ==
  ASSUME NEW f, NEW g, NEW t, Alike(f, g)
  PROVE  Query(f, t).rows = Query(g, t).rows /\ Query(f, t).oldest = Query(g, t).oldest
BY DEF Query, CertsQuery, YswsQuery, AssignQuery, TicketsQuery, Alike

LEMMA QueryOfAll ==
  ASSUME NEW f, NEW g, NEW t, list = "assignments"
  PROVE  Query(f, t).rows = Query(g, t).rows /\ Query(f, t).oldest = Query(g, t).oldest
BY DEF Query, AssignQuery

LEMMA AnswersAlike ==
  ASSUME NEW ans, NEW f, NEW g, Alike(f, g) \/ list = "assignments", AnswersTo(ans, f)
  PROVE  AnswersTo(ans, g)
BY QueryAlike, QueryOfAll DEF AnswersTo

LEMMA AnswersKey ==
  ASSUME NEW ans, NEW f
  PROVE  AnswersTo(ans, f) <=> AnswersTo(ans, Key(f))
BY QueryOfAll DEF AnswersTo, Key

(* A table is written: those there were stay.                                *)
TablesStay == UNCHANGED <<list, past, when>>

LEMMA WriteForm ==
  ASSUME TablesHold, NEW r \in ListRows, Write(r)
  PROVE  /\ past' \in Seq([ListRows -> Stages]) /\ when' \in Seq(Nat)
         /\ Len(past') = Present + 1 /\ Len(when') = Present + 1
         /\ \A i \in 1 .. Present : past'[i] = past[i] /\ when'[i] = when[i]
         /\ when'[Present + 1] = clock
<1>0. past \in Seq([ListRows -> Stages]) /\ when \in Seq(Nat) /\ Len(when) = Len(past) /\ clock \in Nat
      /\ Len(past) \in Nat /\ Len(past) >= 1 /\ Present = Len(past)
  BY DEF TablesHold, Present
<1> DEFINE to == IF past[Present][r] = "pending" THEN "done" ELSE "pending"
           t == [past[Present] EXCEPT ![r] = to]
<1>1. past[Present] \in [ListRows -> Stages]
  BY <1>0, ElementOfSeq
<1>2. to \in Stages
  BY DEF Stages
<1>3. t \in [ListRows -> Stages]
  BY <1>1, <1>2
<1>4. past' = Append(past, t) /\ when' = Append(when, clock)
  BY DEF Write
<1> HIDE DEF t
<1>5. /\ past' \in Seq([ListRows -> Stages]) /\ Len(past') = Len(past) + 1
      /\ \A i \in 1 .. Len(past) : past'[i] = past[i]
  BY <1>0, <1>3, <1>4, AppendProperties
<1>6. /\ when' \in Seq(Nat) /\ Len(when') = Len(when) + 1 /\ when'[Len(when) + 1] = clock
      /\ \A i \in 1 .. Len(when) : when'[i] = when[i]
  BY <1>0, <1>4, AppendProperties
<1> QED
  BY <1>0, <1>5, <1>6

LEMMA AnswersStay ==
  ASSUME NEW ans, NEW f, TablesHold, AnswersTo(ans, f),
         TablesStay \/ (\E r \in ListRows : Write(r))
  PROVE  ans.of \in 1 .. Present' /\ AnswersTo(ans, f)'
<1>0. Present \in Nat /\ Present = Len(past)
  BY DEF Present, TablesHold
<1>1. list' = list /\ Present' >= Present /\ Present' \in Nat /\ past'[ans.of] = past[ans.of]
  <2>1. CASE TablesStay
    BY <1>0, <2>1 DEF TablesStay, Present
  <2>2. ASSUME NEW r \in ListRows, Write(r)
        PROVE  list' = list /\ Present' >= Present /\ Present' \in Nat /\ past'[ans.of] = past[ans.of]
    <3>1. Present' = Len(past')
      BY DEF Present
    <3> QED
      BY <1>0, <2>2, <3>1, WriteForm DEF AnswersTo, Write
  <2> QED
    BY <2>1, <2>2
<1>2. \A t : Query(f, t)'.rows = Query(f, t).rows /\ Query(f, t)'.oldest = Query(f, t).oldest
  BY <1>1 DEF Query, CertsQuery, YswsQuery, AssignQuery, TicketsQuery
<1> QED
  BY <1>0, <1>1, <1>2 DEF AnswersTo

(* A load begins, moves on, or is over.                                      *)
OthersLoads(s) == fetch' \in [Slots -> AskRec] /\ \A q \in Slots : q # s => fetch'[q] = fetch[q]
LoadSent(s, f) ==
  /\ OthersLoads(s) /\ fetch'[s].pc = "sent" /\ fetch'[s].f = f /\ fetch'[s].no = asks + 1 /\ fetch'[s].recent
  /\ asks' = asks + 1
LoadMoved(s, pc) ==
  /\ OthersLoads(s) /\ fetch'[s].pc = pc /\ fetch'[s].f = fetch[s].f /\ fetch'[s].ans = fetch[s].ans
  /\ fetch'[s].no = fetch[s].no /\ fetch'[s].recent = fetch[s].recent
LoadOver(s) == OthersLoads(s) /\ fetch'[s].pc = "idle" /\ fetch'[s].recent /\ fetch'[s].no = 0

LEMMA LoadPut ==
  ASSUME ListTypes, NEW s \in Slots, NEW r \in AskRec, fetch' = [fetch EXCEPT ![s] = r]
  PROVE  OthersLoads(s) /\ fetch'[s] = r
BY DEF ListTypes, OthersLoads

LEMMA NotFetchingForm ==
  /\ NotFetching \in AskRec /\ NotFetching.pc = "idle" /\ NotFetching.no = 0 /\ NotFetching.recent = TRUE
  /\ NoAnswer \in AnsRec
<1>1. NoAnswer \in AnsRec
  BY DEF NoAnswer, AnsRec
<1>2. NotFetching.f \in Filters \cup {NotFetching.f}
  OBVIOUS
<1>3. NotFetching.pc = "idle" /\ NotFetching.no = 0 /\ NotFetching.recent = TRUE /\ NotFetching.ans = NoAnswer
      /\ NotFetching = [pc |-> NotFetching.pc, f |-> NotFetching.f, ans |-> NotFetching.ans,
                        no |-> NotFetching.no, recent |-> NotFetching.recent]
  BY DEF NotFetching
<1>4. [pc |-> "idle", f |-> NotFetching.f, ans |-> NoAnswer, no |-> 0, recent |-> TRUE] \in AskRec
  BY <1>1 DEF AskRec
<1> QED
  BY <1>1, <1>3, <1>4

LEMMA LoadForms ==
  ASSUME ListTypes, NEW s \in Slots
  PROVE  /\ \A f \in Filters :
              fetch' = [fetch EXCEPT ![s] = [NotFetching EXCEPT !.pc = "sent", !.f = f, !.no = asks + 1]]
              /\ asks' = asks + 1 => LoadSent(s, f)
         /\ \A pc \in {"answered", "failed"} : fetch' = [fetch EXCEPT ![s].pc = pc] => LoadMoved(s, pc)
         /\ fetch' = [fetch EXCEPT ![s] = NotFetching] => LoadOver(s)
<1>1. ASSUME NEW f \in Filters, asks' = asks + 1,
             fetch' = [fetch EXCEPT ![s] = [NotFetching EXCEPT !.pc = "sent", !.f = f, !.no = asks + 1]]
      PROVE  LoadSent(s, f)
  <2> DEFINE r == [NotFetching EXCEPT !.pc = "sent", !.f = f, !.no = asks + 1]
  <2>1. NotFetching \in AskRec /\ NotFetching.recent = TRUE /\ asks + 1 \in Nat
    BY NotFetchingForm DEF ListTypes
  <2>2. r \in AskRec /\ r.pc = "sent" /\ r.f = f /\ r.no = asks + 1 /\ r.recent = TRUE
    BY <2>1 DEF AskRec
  <2>3. fetch' = [fetch EXCEPT ![s] = r]
    BY <1>1
  <2> HIDE DEF r
  <2> QED
    BY <1>1, <2>2, <2>3, LoadPut DEF LoadSent
<1>2. ASSUME NEW pc \in {"answered", "failed"}, fetch' = [fetch EXCEPT ![s].pc = pc] PROVE LoadMoved(s, pc)
  <2> DEFINE r == [fetch[s] EXCEPT !.pc = pc]
  <2>1. fetch[s] \in AskRec
    BY DEF ListTypes
  <2>2. r \in AskRec /\ r.pc = pc /\ r.f = fetch[s].f /\ r.ans = fetch[s].ans /\ r.no = fetch[s].no
        /\ r.recent = fetch[s].recent
    BY <2>1 DEF AskRec
  <2>3. fetch' = [fetch EXCEPT ![s] = r]
    BY <1>2
  <2> HIDE DEF r
  <2> QED
    BY <2>2, <2>3, LoadPut DEF LoadMoved
<1>3. ASSUME fetch' = [fetch EXCEPT ![s] = NotFetching] PROVE LoadOver(s)
  BY <1>3, LoadPut, NotFetchingForm DEF LoadOver
<1> QED
  BY <1>1, <1>2, <1>3

(* Redis and the table: what they answer is recent.                          *)
Served(s) ==
  LET f == fetch[s].f IN IF Kept(f) THEN copies[Key(f)].ans ELSE Query(f, past[Present])

LEMMA ListServeForm ==
  ASSUME TablesHold, ListTypes, KeptHold, NEW s \in Slots, ServeList(s), fetch[s].f \in Filters
  PROVE  /\ OthersLoads(s) /\ fetch'[s].pc \in {"answered", "fetched"}
         /\ fetch'[s].f = fetch[s].f /\ fetch'[s].no = fetch[s].no /\ fetch'[s].recent
         /\ AnswersTo(fetch'[s].ans, fetch[s].f)
         /\ fetch'[s].pc = "fetched" => fetch'[s].ans.of = Present
<1> DEFINE f == fetch[s].f
           ans == Served(s)
           pc == IF Kept(f) \/ list = "tickets" THEN "answered" ELSE "fetched"
           r == [fetch[s] EXCEPT !.pc = pc, !.ans = ans, !.recent = Recent(ans)]
<1>0. /\ Present \in Nat /\ Present >= 1 /\ lastBust \in Nat /\ lastBust <= Present /\ clock \in Nat /\ Ttl \in Nat
      /\ Len(when) = Present /\ when \in Seq(Nat)
  BY ListAssumption DEF TablesHold, Present, Ttl
<1>1. ASSUME Kept(f) PROVE ans \in AnsRec /\ AnswersTo(ans, f) /\ Recent(ans)
  <2>1. Key(f) \in DOMAIN copies /\ ans = copies[Key(f)].ans /\ clock < copies[Key(f)].until
    BY <1>1 DEF Kept, Served
  <2>2. copies[Key(f)] \in [ans : AnsRec, until : Nat]
    BY <2>1 DEF ListTypes
  <2>3. AnswersTo(ans, f)
    BY <2>1, AnswersKey DEF KeptHold, CopyHolds
  <2>4. ans.of >= lastBust /\ (ans.of = Present \/ when[ans.of + 1] + Ttl >= copies[Key(f)].until)
    BY <2>1 DEF KeptHold, CopyHolds
  <2>5. ans.of # Present => when[ans.of + 1] \in Nat
    BY <1>0, <2>3, ElementOfSeq DEF AnswersTo
  <2>6. Recent(ans)
    BY <1>0, <2>1, <2>2, <2>4, <2>5 DEF Recent
  <2> QED
    BY <2>1, <2>2, <2>3, <2>6
<1>2. ASSUME ~Kept(f) PROVE ans \in AnsRec /\ AnswersTo(ans, f) /\ Recent(ans) /\ ans.of = Present
  <2>1. ans = Query(f, past[Present]) /\ ans \in AnsRec /\ ans.of = Present
    BY <1>0, <1>2, QueryForm DEF Served
  <2>2. AnswersTo(ans, f)
    BY <1>0, <2>1 DEF AnswersTo
  <2>3. Recent(ans)
    BY <1>0, <2>1 DEF Recent
  <2> QED
    BY <2>1, <2>2, <2>3
<1>3. fetch[s] \in AskRec /\ pc \in {"answered", "fetched"} /\ (pc = "fetched" => ~Kept(f))
  BY DEF ListTypes
<1>4. fetch' = [fetch EXCEPT ![s].pc = pc, ![s].ans = ans, ![s].recent = Recent(ans)]
  BY DEF ServeList, Served
<1>5. Recent(ans) = TRUE /\ ans \in AnsRec
  BY <1>1, <1>2
<1> HIDE DEF f, ans, pc
<1>6. r \in AskRec /\ r.pc = pc /\ r.ans = ans /\ r.recent = TRUE /\ r.f = fetch[s].f /\ r.no = fetch[s].no
  BY <1>3, <1>5 DEF AskRec
<1>7. fetch' = [fetch EXCEPT ![s] = r]
  BY <1>4
<1> HIDE DEF r
<1>8. OthersLoads(s) /\ fetch'[s] = r
  BY <1>6, <1>7, LoadPut
<1> QED
  BY <1>1, <1>2, <1>3, <1>6, <1>8 DEF f

(* The page.                                                                 *)
ScreenSame(opened) == screen'.open = opened /\ screen'.f = screen.f /\ screen'.url = screen.url

LEMMA ShowForms ==
  ASSUME ListTypes, NEW s \in Slots, NEW opened \in {"yes"},
         screen' = [Showing(s) EXCEPT !.open = "yes"] \/ (screen' = Showing(s) /\ screen.open = "yes")
  PROVE  /\ screen' \in ScreenRec(screen'.url) /\ ScreenSame("yes")
         /\ screen'.ans = fetch[s].ans /\ screen'.no = fetch[s].no /\ screen'.recent = fetch[s].recent
<1>1. screen \in ScreenRec(screen.url) /\ fetch[s].ans \in AnsRec /\ fetch[s].no \in Nat /\ fetch[s].recent \in BOOLEAN
  BY DEF ListTypes, AskRec
<1>2. Showing(s) \in ScreenRec(screen.url) /\ Showing(s).open = screen.open /\ Showing(s).f = screen.f
      /\ Showing(s).url = screen.url /\ Showing(s).ans = fetch[s].ans /\ Showing(s).no = fetch[s].no
      /\ Showing(s).recent = fetch[s].recent
  BY <1>1 DEF Showing, ScreenRec
<1> QED
  BY <1>1, <1>2 DEF ScreenRec, ScreenSame

LEMMA OpenForm ==
  ASSUME ListTypes, NEW o \in {"opening", "yes"},
         screen' = [screen EXCEPT !.open = o, !.f = FromUrl(screen.url), !.ans = NoAnswer, !.no = 0]
  PROVE  /\ screen' \in ScreenRec(screen'.url) /\ screen'.open = o /\ screen'.f = FromUrl(screen.url)
         /\ screen'.url = screen.url /\ screen'.no = 0 /\ screen'.recent = screen.recent
<1>1. screen \in ScreenRec(screen.url) /\ FromUrl(screen.url) \in Filters /\ NoAnswer \in AnsRec
  BY FromUrlForm, NotFetchingForm DEF ListTypes
<1> QED
  BY <1>1 DEF ScreenRec

LEMMA PickForm ==
  ASSUME ListTypes, NEW f \in Filters, screen' = [screen EXCEPT !.f = f, !.url = Url(f)]
  PROVE  /\ screen' \in ScreenRec(screen'.url) /\ screen'.open = screen.open /\ screen'.f = f
         /\ screen'.url = Url(f) /\ screen'.ans = screen.ans /\ screen'.no = screen.no
         /\ screen'.recent = screen.recent
<1>1. screen \in ScreenRec(screen.url)
  BY DEF ListTypes
<1> QED
  BY <1>1 DEF ScreenRec

LEMMA FailedForms ==
  ASSUME ListTypes
  PROVE  /\ screen' = [screen EXCEPT !.open = "no"] =>
              /\ screen' \in ScreenRec(screen'.url) /\ ScreenSame("no") /\ screen'.no = screen.no
              /\ screen'.recent = screen.recent
         /\ screen' = [screen EXCEPT !.ans = NoAnswer, !.no = 0] =>
              /\ screen' \in ScreenRec(screen'.url) /\ ScreenSame(screen.open) /\ screen'.no = 0
              /\ screen'.recent = screen.recent
<1>1. screen \in ScreenRec(screen.url) /\ NoAnswer \in AnsRec
  BY NotFetchingForm DEF ListTypes
<1>2. ASSUME screen' = [screen EXCEPT !.open = "no"]
      PROVE  /\ screen' \in ScreenRec(screen'.url) /\ ScreenSame("no") /\ screen'.no = screen.no
             /\ screen'.recent = screen.recent
  BY <1>1, <1>2 DEF ScreenRec, ScreenSame
<1>3. ASSUME screen' = [screen EXCEPT !.ans = NoAnswer, !.no = 0]
      PROVE  /\ screen' \in ScreenRec(screen'.url) /\ ScreenSame(screen.open) /\ screen'.no = 0
             /\ screen'.recent = screen.recent
  BY <1>1, <1>3 DEF ScreenRec, ScreenSame
<1> QED
  BY <1>2, <1>3

LEMMA TablesNext ==
  ASSUME TablesHold, [ListNext]_listVars
  PROVE  TablesHold'
<1>1. ASSUME NEW r \in ListRows, Write(r) PROVE TablesHold'
  <2>0. /\ Present' = Len(past') /\ Present = Len(past) /\ Present \in Nat /\ Present >= 1
        /\ clock \in Nat /\ lastBust \in 1 .. Present /\ owing \subseteq 1 .. Present
    BY DEF Present, TablesHold
  <2>1. Present' = Present + 1 /\ Len(when') = Present + 1 /\ UNCHANGED <<list, clock, lastBust>>
    BY <1>1, <2>0, WriteForm DEF Write
  <2>2. ASSUME NEW i \in 1 .. Present' PROVE when'[i] <= clock'
    <3>1. CASE i \in 1 .. Present
      BY <1>1, <2>1, <3>1, WriteForm DEF TablesHold
    <3>2. CASE i = Present + 1
      BY <1>1, <2>0, <2>1, <3>2, WriteForm
    <3> QED
      BY <2>0, <2>1, <2>2, <3>1, <3>2
  <2>3. owing' \subseteq owing \cup {Present + 1}
    BY <1>1 DEF Write
  <2>4. past' \in Seq([ListRows -> Stages]) /\ when' \in Seq(Nat)
    BY <1>1, WriteForm
  <2>5. owing' \subseteq 1 .. Present' /\ lastBust' \in 1 .. Present' /\ Present' >= 1
    BY <2>0, <2>1, <2>3
  <2> QED
    BY <2>0, <2>1, <2>2, <2>4, <2>5 DEF TablesHold
<1>2. ASSUME NEW w \in owing, Bust(w) PROVE TablesHold'
  <2>1. UNCHANGED <<list, past, when, clock>> /\ owing' \subseteq owing /\ lastBust' \in {lastBust, w}
    BY <1>2 DEF Bust
  <2> QED
    BY <2>1 DEF TablesHold, Present
<1>3. CASE Tick
  <2>1. UNCHANGED <<list, past, when, owing, lastBust>> /\ clock' = clock + 1
    BY <1>3 DEF Tick
  <2>2. \A i \in 1 .. Present : when[i] \in Nat
    BY ElementOfSeq DEF TablesHold, Present
  <2> QED
    BY <2>1, <2>2 DEF TablesHold, Present
<1>4. ASSUME NEW s \in Slots, ServeList(s) PROVE TablesHold'
  BY <1>4 DEF ServeList, TablesHold, Present
<1>5. ASSUME NEW s \in Slots, Keep(s) PROVE TablesHold'
  BY <1>5 DEF Keep, TablesHold, Present
<1>6. ASSUME NEW s \in Slots, ServeListFails(s) PROVE TablesHold'
  BY <1>6 DEF ServeListFails, TablesHold, Present
<1>7. ASSUME NEW s \in Slots, OpenList(s) PROVE TablesHold'
  BY <1>7 DEF OpenList, Rest, TablesHold, Present
<1>8. ASSUME NEW s \in Slots, Mounted(s) PROVE TablesHold'
  BY <1>8 DEF Mounted, Rest, TablesHold, Present
<1>9. ASSUME NEW s \in Slots, ListArrived(s) PROVE TablesHold'
  BY <1>9 DEF ListArrived, Rest, TablesHold, Present
<1>10. ASSUME NEW s \in Slots, LoadFailed(s) PROVE TablesHold'
  BY <1>10 DEF LoadFailed, Rest, TablesHold, Present
<1>11. ASSUME NEW s \in Slots, NEW f \in Asked, Pick(s, f) PROVE TablesHold'
  BY <1>11 DEF Pick, Rest, TablesHold, Present
<1>12. CASE UNCHANGED listVars
  BY <1>12 DEF listVars, TablesHold, Present
<1> QED
  BY <1>1, <1>2, <1>3, <1>4, <1>5, <1>6, <1>7, <1>8, <1>9, <1>10, <1>11, <1>12 DEF ListNext

(* The last answer to come is shown; the page appears; a load fails.         *)
LEMMA MountedForm ==
  ASSUME ListTypes, NEW s \in Slots, Mounted(s)
  PROVE  /\ screen' \in ScreenRec(screen'.url) /\ ScreenSame("yes")
         /\ screen'.ans = fetch[s].ans /\ screen'.no = fetch[s].no /\ screen'.recent = fetch[s].recent
         /\ fetch[s].pc = "answered" /\ screen.open = "opening"
         /\ \/ LoadSent(s, screen.f)
            \/ /\ ~(list = "certs" /\ CertsAsked(screen.url)) /\ ~(list = "ysws" /\ YswsAsked(screen.url))
               /\ LoadOver(s) /\ asks' = asks
<1>1. screen' = [Showing(s) EXCEPT !.open = "yes"] /\ fetch[s].pc = "answered" /\ screen.open = "opening"
  BY DEF Mounted
<1>2. screen.f \in Filters
  BY DEF ListTypes, ScreenRec
<1>3. CASE (list = "certs" /\ CertsAsked(screen.url)) \/ (list = "ysws" /\ YswsAsked(screen.url))
  <2>1. LoadSent(s, screen.f)
    BY <1>2, <1>3, LoadForms DEF Mounted
  <2> QED
    BY <1>1, <2>1, ShowForms
<1>4. CASE ~((list = "certs" /\ CertsAsked(screen.url)) \/ (list = "ysws" /\ YswsAsked(screen.url)))
  <2>1. LoadOver(s) /\ asks' = asks
    BY <1>4, LoadForms DEF Mounted
  <2> QED
    BY <1>1, <1>4, <2>1, ShowForms
<1> QED
  BY <1>3, <1>4

LEMMA ArrivedForm ==
  ASSUME ListTypes, NEW s \in Slots, ListArrived(s)
  PROVE  /\ screen' \in ScreenRec(screen'.url) /\ ScreenSame("yes")
         /\ screen'.ans = fetch[s].ans /\ screen'.no = fetch[s].no /\ screen'.recent = fetch[s].recent
         /\ fetch[s].pc = "answered" /\ screen.open = "yes" /\ LoadOver(s) /\ asks' = asks
<1>1. /\ screen' = Showing(s) /\ screen.open = "yes" /\ fetch' = [fetch EXCEPT ![s] = NotFetching]
      /\ fetch[s].pc = "answered" /\ asks' = asks
  BY DEF ListArrived
<1> QED
  BY <1>1, ShowForms, LoadForms

LEMMA LoadFailedForm ==
  ASSUME ListTypes, ScreenHolds, NEW s \in Slots, LoadFailed(s)
  PROVE  /\ screen' \in ScreenRec(screen'.url) /\ screen'.f = screen.f /\ screen'.url = screen.url
         /\ screen'.recent = screen.recent /\ LoadOver(s) /\ asks' = asks
         /\ \/ screen'.open = "no" /\ screen'.no = screen.no
            \/ screen'.open = screen.open /\ screen.open # "opening" /\ screen'.no = 0
            \/ screen' = screen /\ screen.open # "opening"
<1>1. LoadOver(s) /\ asks' = asks
  BY LoadForms DEF LoadFailed
<1>2. CASE screen.open = "opening"
  <2> DEFINE closed == [screen EXCEPT !.open = "no"]
             emptied == [screen EXCEPT !.ans = NoAnswer, !.no = 0]
  <2>0. screen' = CASE screen.open = "opening" -> closed [] list = "tickets" -> emptied [] OTHER -> screen
    BY DEF LoadFailed
  <2> HIDE DEF closed, emptied
  <2>01. list # "tickets"
    BY <1>2 DEF ScreenHolds
  <2>02. screen' = closed
    BY <1>2, <2>0, <2>01
  <2>1. screen' = [screen EXCEPT !.open = "no"]
    BY <2>02 DEF closed
  <2> QED
    BY <1>1, <2>1, FailedForms DEF ScreenSame
<1>3. CASE screen.open # "opening" /\ list = "tickets"
  BY <1>1, <1>3, FailedForms DEF LoadFailed, ScreenSame
<1>4. CASE screen.open # "opening" /\ list # "tickets"
  <2>1. screen' = screen
    BY <1>4 DEF LoadFailed
  <2> QED
    BY <1>1, <1>4, <2>1 DEF ListTypes
<1> QED
  BY <1>2, <1>3, <1>4

LEMMA OpenListForm ==
  ASSUME ListTypes, NEW s \in Slots, OpenList(s)
  PROVE  /\ screen' \in ScreenRec(screen'.url) /\ screen'.f = FromUrl(screen.url) /\ screen'.url = screen.url
         /\ screen'.no = 0 /\ screen'.recent = screen.recent /\ LoadSent(s, Default)
         /\ \A q \in Slots : fetch[q].pc = "idle"
         /\ screen'.open = IF list \in {"certs", "ysws"} THEN "opening" ELSE "yes"
<1>1. FirstAsked = Default
  BY DEF FirstAsked, Default
<1>2. LoadSent(s, Default)
  BY <1>1, DefaultIs, LoadForms DEF OpenList, AskList
<1> QED
  BY <1>2, OpenForm DEF OpenList

LEMMA PickedForm ==
  ASSUME ListTypes, NEW s \in Slots, NEW f \in Asked, Pick(s, f)
  PROVE  /\ screen' \in ScreenRec(screen'.url) /\ screen'.open = "yes" /\ screen.open = "yes" /\ screen'.f = f
         /\ screen'.url = Url(f) /\ screen'.ans = screen.ans /\ screen'.no = screen.no
         /\ screen'.recent = screen.recent /\ f \in Filters /\ Choosable(f)
         /\ IF list = "assignments" THEN UNCHANGED <<fetch, asks>> ELSE LoadSent(s, f)
<1>1. f \in Filters
  BY ListAssumption
<1>2. screen.open = "yes" /\ screen' = [screen EXCEPT !.f = f, !.url = Url(f)]
  BY DEF Pick
<1>3. IF list = "assignments" THEN UNCHANGED <<fetch, asks>> ELSE LoadSent(s, f)
  BY <1>1, LoadForms DEF Pick, AskList
<1>4. Choosable(f)
  <2>1. /\ list = "certs" => f \in CertsChoices
        /\ list = "tickets" => f \in TicketsChoices
        /\ list \notin {"certs", "ysws", "tickets"} => f \in AssignChoices
    BY DEF Pick
  <2> QED
    BY <2>1 DEF Choosable, CertsChoices, TicketsChoices, AssignChoices
<1> QED
  BY <1>1, <1>2, <1>3, <1>4, PickForm

LEMMA ListTypesNext ==
  ASSUME TablesHold, ListTypes, KeptHold, ScreenHolds, [ListNext]_listVars
  PROVE  ListTypes'
<1>1. ASSUME NEW r \in ListRows, Write(r) PROVE ListTypes'
  BY <1>1 DEF Write, ListTypes
<1>2. ASSUME NEW w \in owing, Bust(w) PROVE ListTypes'
  <2>1. UNCHANGED <<screen, fetch, asks>> /\ (copies' = copies \/ copies' = <<>>)
    BY <1>2 DEF Bust
  <2>2. DOMAIN <<>> = {}
    OBVIOUS
  <2> QED
    BY <2>1, <2>2 DEF ListTypes
<1>3. CASE Tick
  BY <1>3 DEF Tick, ListTypes
<1>4. ASSUME NEW s \in Slots, ServeList(s) PROVE ListTypes'
  <2>0. fetch[s].f \in Filters
    BY <1>4 DEF ServeList, ListTypes
  <2>1. OthersLoads(s) /\ fetch'[s].f = fetch[s].f
    BY <1>4, <2>0, ListServeForm
  <2>2. UNCHANGED <<screen, asks, copies>>
    BY <1>4 DEF ServeList
  <2> QED
    BY <2>0, <2>1, <2>2 DEF OthersLoads, ListTypes
<1>5. ASSUME NEW s \in Slots, Keep(s) PROVE ListTypes'
  <2>1. fetch[s] \in AskRec /\ fetch[s].pc = "fetched" /\ LoadMoved(s, "answered") /\ UNCHANGED <<screen, asks>>
    BY <1>5, LoadForms DEF Keep, ListTypes
  <2> DEFINE anew == [ans |-> fetch[s].ans, until |-> clock + Ttl]
  <2>2. anew \in [ans : AnsRec, until : Nat]
    <3>1. fetch[s].ans \in AnsRec
      BY <2>1 DEF AskRec
    <3>2. clock + Ttl \in Nat
      BY ListAssumption DEF Ttl, TablesHold
    <3> QED
      BY <3>1, <3>2
  <2>3. \A k \in DOMAIN copies' : copies'[k] = IF k = Key(fetch[s].f) THEN anew ELSE copies[k]
    BY <1>5 DEF Keep
  <2>4. \A k \in DOMAIN copies' : k = Key(fetch[s].f) \/ k \in DOMAIN copies
    BY <1>5 DEF Keep
  <2> HIDE DEF anew
  <2>5. \A k \in DOMAIN copies' : copies'[k] \in [ans : AnsRec, until : Nat]
    BY <2>2, <2>3, <2>4 DEF ListTypes
  <2> QED
    BY <2>1, <2>5 DEF LoadMoved, OthersLoads, ListTypes
<1>6. ASSUME NEW s \in Slots, ServeListFails(s) PROVE ListTypes'
  <2>1. fetch[s].pc = "sent" /\ LoadMoved(s, "failed") /\ UNCHANGED <<screen, asks, copies>>
    BY <1>6, LoadForms DEF ServeListFails
  <2> QED
    BY <2>1 DEF LoadMoved, OthersLoads, ListTypes
<1>7. ASSUME NEW s \in Slots, OpenList(s) PROVE ListTypes'
  <2>1. copies' = copies
    BY <1>7 DEF OpenList, Rest
  <2>2. screen' \in ScreenRec(screen'.url) /\ screen'.url = screen.url /\ LoadSent(s, Default)
    BY <1>7, OpenListForm
  <2> QED
    BY <2>1, <2>2, DefaultIs DEF LoadSent, OthersLoads, ListTypes
<1>8. ASSUME NEW s \in Slots, Mounted(s) PROVE ListTypes'
  <2>1. copies' = copies /\ screen.f \in Filters
    BY <1>8 DEF Mounted, Rest, ListTypes, ScreenRec
  <2>2. /\ screen' \in ScreenRec(screen'.url) /\ screen'.url = screen.url
        /\ LoadSent(s, screen.f) \/ (LoadOver(s) /\ asks' = asks)
    BY <1>8, MountedForm DEF ScreenSame
  <2> QED
    BY <2>1, <2>2 DEF LoadSent, LoadOver, OthersLoads, ListTypes
<1>9. ASSUME NEW s \in Slots, ListArrived(s) PROVE ListTypes'
  <2>1. copies' = copies
    BY <1>9 DEF ListArrived, Rest
  <2>2. screen' \in ScreenRec(screen'.url) /\ screen'.url = screen.url /\ LoadOver(s) /\ asks' = asks
    BY <1>9, ArrivedForm DEF ScreenSame
  <2> QED
    BY <2>1, <2>2 DEF LoadOver, OthersLoads, ListTypes
<1>10. ASSUME NEW s \in Slots, LoadFailed(s) PROVE ListTypes'
  <2>1. copies' = copies
    BY <1>10 DEF LoadFailed, Rest
  <2>2. screen' \in ScreenRec(screen'.url) /\ screen'.url = screen.url /\ LoadOver(s) /\ asks' = asks
    BY <1>10, LoadFailedForm DEF ScreenSame
  <2> QED
    BY <2>1, <2>2 DEF LoadOver, OthersLoads, ListTypes
<1>11. ASSUME NEW s \in Slots, NEW f \in Asked, Pick(s, f) PROVE ListTypes'
  <2>1. copies' = copies
    BY <1>11 DEF Pick, Rest
  <2>2. /\ screen' \in ScreenRec(screen'.url) /\ screen'.url = Url(f) /\ f \in Filters
        /\ UNCHANGED <<fetch, asks>> \/ LoadSent(s, f)
    BY <1>11, PickedForm
  <2> QED
    BY <2>1, <2>2, UrlForm DEF LoadSent, OthersLoads, ListTypes
<1>12. CASE UNCHANGED listVars
  BY <1>12 DEF listVars, ListTypes
<1> QED
  BY <1>1, <1>2, <1>3, <1>4, <1>5, <1>6, <1>7, <1>8, <1>9, <1>10, <1>11, <1>12 DEF ListNext

(* What was anew, and what is on its way, stays so.                           *)
LEMMA CopyStays ==
  ASSUME TablesHold, NEW c, NEW k, c.until \in Nat, CopyHolds(c, k), lastBust' = lastBust,
         (TablesStay /\ clock' = clock) \/ Tick \/ \E r \in ListRows : Write(r)
  PROVE  CopyHolds(c, k)'
<1>0. /\ Present \in Nat /\ Ttl \in Nat /\ clock \in Nat /\ list' = list /\ Ttl' = Ttl
      /\ c.ans.of \in 1 .. Present
  <2>1. list' = list
    BY DEF TablesStay, Tick, Write
  <2>2. Ttl \in Nat /\ Ttl' = Ttl
    BY <2>1, ListAssumption DEF Ttl
  <2>3. Present \in Nat /\ clock \in Nat /\ c.ans.of \in 1 .. Present
    BY DEF Present, TablesHold, CopyHolds, AnswersTo
  <2> QED
    BY <2>1, <2>2, <2>3
<1>1. AnswersTo(c.ans, k)'
  BY AnswersStay DEF CopyHolds, TablesStay, Tick
<1>2. clock' \in Nat /\ clock' >= clock
  <2>1. clock' \in {clock, clock + 1}
    BY DEF Tick, Write
  <2> QED
    BY <1>0, <2>1
<1>3. c.ans.of = Present' \/ when'[c.ans.of + 1] + Ttl >= c.until
  <2>1. CASE TablesStay
    BY <2>1 DEF TablesStay, Present, CopyHolds
  <2>2. ASSUME NEW r \in ListRows, Write(r) PROVE when'[c.ans.of + 1] + Ttl >= c.until
    <3>1. when'[Present + 1] = clock /\ \A i \in 1 .. Present : when'[i] = when[i]
      BY <2>2, WriteForm
    <3>2. CASE c.ans.of = Present
      BY <1>0, <3>1, <3>2 DEF CopyHolds
    <3>3. CASE c.ans.of # Present
      <4>1. c.ans.of + 1 \in 1 .. Present
        BY <1>0, <3>3
      <4> QED
        BY <3>1, <3>3, <4>1 DEF CopyHolds
    <3> QED
      BY <3>2, <3>3
  <2> QED
    BY <2>1, <2>2 DEF TablesStay, Tick
<1> QED
  BY <1>0, <1>1, <1>2, <1>3 DEF CopyHolds

LEMMA LoadStays ==
  ASSUME TablesHold, NEW l, LoadHolds(l), lastBust' = lastBust,
         (TablesStay /\ clock' = clock) \/ (Tick /\ l.pc # "fetched") \/ \E r \in ListRows : Write(r)
  PROVE  LoadHolds(l)'
<1>1. l.pc \in {"fetched", "answered"} => AnswersTo(l.ans, l.f)'
  BY AnswersStay DEF LoadHolds, TablesStay, Tick
<1>2. ASSUME l.pc = "fetched" PROVE l.ans.of >= lastBust' /\ (l.ans.of = Present' \/ when'[l.ans.of + 1] >= clock')
  <2>0. l.ans.of \in 1 .. Present /\ Present \in Nat /\ l.ans.of >= lastBust /\ clock \in Nat
        /\ (l.ans.of = Present \/ when[l.ans.of + 1] >= clock)
    BY <1>2 DEF LoadHolds, AnswersTo, LapsesAfter, TablesHold, Present
  <2>1. CASE TablesStay /\ clock' = clock
    BY <2>0, <2>1 DEF TablesStay, Present
  <2>2. ASSUME NEW r \in ListRows, Write(r) PROVE when'[l.ans.of + 1] >= clock'
    <3>1. when'[Present + 1] = clock /\ (\A i \in 1 .. Present : when'[i] = when[i]) /\ clock' = clock
      BY <2>2, WriteForm DEF Write
    <3>2. CASE l.ans.of = Present
      BY <2>0, <3>1, <3>2
    <3>3. CASE l.ans.of # Present
      <4>1. l.ans.of + 1 \in 1 .. Present
        BY <2>0, <3>3
      <4> QED
        BY <2>0, <3>1, <3>3, <4>1
    <3> QED
      BY <3>2, <3>3
  <2> QED
    BY <1>2, <2>0, <2>1, <2>2
<1> QED
  BY <1>1, <1>2 DEF LoadHolds, LapsesAfter

LEMMA StillKept ==
  ASSUME TablesHold, ListTypes, KeptHold, LoadsHold, [ListNext]_listVars
  PROVE  KeptHold'
<1>1. ASSUME NEW r \in ListRows, Write(r) PROVE KeptHold'
  <2>1. UNCHANGED <<copies, lastBust>>
    BY <1>1 DEF Write
  <2>2. \A k \in DOMAIN copies : CopyHolds(copies[k], k)'
    BY <1>1, <2>1, CopyStays DEF KeptHold, ListTypes
  <2> QED
    BY <2>1, <2>2 DEF KeptHold
<1>2. ASSUME NEW w \in owing, Bust(w) PROVE KeptHold'
  <2>1. CASE copies' = <<>>
    <3>1. DOMAIN copies' = {}
      BY <2>1
    <3> QED
      BY <3>1 DEF KeptHold
  <2>2. CASE UNCHANGED <<copies, lastBust>>
    <3>1. TablesStay /\ clock' = clock
      BY <1>2 DEF Bust, TablesStay
    <3>2. \A k \in DOMAIN copies : CopyHolds(copies[k], k)'
      BY <2>2, <3>1, CopyStays DEF KeptHold, ListTypes
    <3> QED
      BY <2>2, <3>2 DEF KeptHold
  <2> QED
    BY <1>2, <2>1, <2>2 DEF Bust
<1>3. CASE Tick
  <2>1. UNCHANGED <<copies, lastBust>>
    BY <1>3 DEF Tick
  <2>2. \A k \in DOMAIN copies : CopyHolds(copies[k], k)'
    BY <1>3, <2>1, CopyStays DEF KeptHold, ListTypes
  <2> QED
    BY <2>1, <2>2 DEF KeptHold
<1>4. ASSUME NEW s \in Slots, ServeList(s) PROVE KeptHold'
  <2>1. TablesStay /\ UNCHANGED <<clock, lastBust, copies>>
    BY <1>4 DEF ServeList, TablesStay
  <2>2. \A k \in DOMAIN copies : CopyHolds(copies[k], k)'
    BY <2>1, CopyStays DEF KeptHold, ListTypes
  <2> QED
    BY <2>1, <2>2 DEF KeptHold
<1>5. ASSUME NEW s \in Slots, Keep(s) PROVE KeptHold'
  <2>1. TablesStay /\ UNCHANGED <<clock, lastBust>> /\ fetch[s].pc = "fetched"
    BY <1>5 DEF Keep, TablesStay
  <2> DEFINE key == Key(fetch[s].f)
             anew == [ans |-> fetch[s].ans, until |-> clock + Ttl]
  <2>2. anew.ans = fetch[s].ans /\ anew.until = clock + Ttl
    OBVIOUS
  <2>3. \A k \in DOMAIN copies' : copies'[k] = IF k = key THEN anew ELSE copies[k]
    BY <1>5 DEF Keep
  <2>4. \A k \in DOMAIN copies' : k = key \/ k \in DOMAIN copies
    BY <1>5 DEF Keep
  <2>5. Ttl \in Nat /\ clock \in Nat /\ Present \in Nat
    BY ListAssumption DEF Ttl, Present, TablesHold
  <2>6. /\ AnswersTo(fetch[s].ans, key) /\ fetch[s].ans.of >= lastBust
        /\ fetch[s].ans.of = Present \/ when[fetch[s].ans.of + 1] >= clock
    BY <2>1, AnswersKey DEF LoadsHold, LoadHolds, LapsesAfter
  <2> HIDE DEF anew, key
  <2>7. fetch[s].ans.of # Present => when[fetch[s].ans.of + 1] \in Nat
    <3>1. when \in Seq(Nat) /\ Len(when) = Present /\ fetch[s].ans.of \in 1 .. Present
      BY <2>6 DEF AnswersTo, TablesHold
    <3>2. fetch[s].ans.of # Present => fetch[s].ans.of + 1 \in 1 .. Len(when)
      BY <2>5, <3>1
    <3> QED
      BY <3>1, <3>2, ElementOfSeq
  <2>8. CopyHolds(anew, key) /\ anew.until \in Nat
    <3>1. anew.until \in Nat /\ anew.until <= clock + Ttl
      BY <2>2, <2>5
    <3>2. anew.ans.of = Present \/ when[anew.ans.of + 1] + Ttl >= anew.until
      BY <2>2, <2>5, <2>6, <2>7
    <3> QED
      BY <2>2, <2>6, <3>1, <3>2 DEF CopyHolds
  <2>9. \A c, k : CopyHolds(c, k) /\ c.until \in Nat => CopyHolds(c, k)'
    BY <2>1, CopyStays
  <2>10. ASSUME NEW k \in DOMAIN copies' PROVE CopyHolds(copies'[k], k) /\ copies'[k].until \in Nat
    <3>1. CASE k = key
      BY <2>3, <2>8, <3>1
    <3>2. CASE k # key
      BY <2>3, <2>4, <3>2 DEF KeptHold, ListTypes
    <3> QED
      BY <3>1, <3>2
  <2> QED
    BY <2>9, <2>10 DEF KeptHold
<1>6. ASSUME NEW s \in Slots, ServeListFails(s) PROVE KeptHold'
  <2>1. TablesStay /\ UNCHANGED <<clock, lastBust, copies>>
    BY <1>6 DEF ServeListFails, TablesStay
  <2>2. \A k \in DOMAIN copies : CopyHolds(copies[k], k)'
    BY <2>1, CopyStays DEF KeptHold, ListTypes
  <2> QED
    BY <2>1, <2>2 DEF KeptHold
<1>7. ASSUME NEW s \in Slots, OpenList(s) PROVE KeptHold'
  <2>1. TablesStay /\ UNCHANGED <<clock, lastBust, copies>>
    BY <1>7 DEF OpenList, Rest, TablesStay
  <2>2. \A k \in DOMAIN copies : CopyHolds(copies[k], k)'
    BY <2>1, CopyStays DEF KeptHold, ListTypes
  <2> QED
    BY <2>1, <2>2 DEF KeptHold
<1>8. ASSUME NEW s \in Slots, Mounted(s) PROVE KeptHold'
  <2>1. TablesStay /\ UNCHANGED <<clock, lastBust, copies>>
    BY <1>8 DEF Mounted, Rest, TablesStay
  <2>2. \A k \in DOMAIN copies : CopyHolds(copies[k], k)'
    BY <2>1, CopyStays DEF KeptHold, ListTypes
  <2> QED
    BY <2>1, <2>2 DEF KeptHold
<1>9. ASSUME NEW s \in Slots, ListArrived(s) PROVE KeptHold'
  <2>1. TablesStay /\ UNCHANGED <<clock, lastBust, copies>>
    BY <1>9 DEF ListArrived, Rest, TablesStay
  <2>2. \A k \in DOMAIN copies : CopyHolds(copies[k], k)'
    BY <2>1, CopyStays DEF KeptHold, ListTypes
  <2> QED
    BY <2>1, <2>2 DEF KeptHold
<1>10. ASSUME NEW s \in Slots, LoadFailed(s) PROVE KeptHold'
  <2>1. TablesStay /\ UNCHANGED <<clock, lastBust, copies>>
    BY <1>10 DEF LoadFailed, Rest, TablesStay
  <2>2. \A k \in DOMAIN copies : CopyHolds(copies[k], k)'
    BY <2>1, CopyStays DEF KeptHold, ListTypes
  <2> QED
    BY <2>1, <2>2 DEF KeptHold
<1>11. ASSUME NEW s \in Slots, NEW f \in Asked, Pick(s, f) PROVE KeptHold'
  <2>1. TablesStay /\ UNCHANGED <<clock, lastBust, copies>>
    BY <1>11 DEF Pick, Rest, TablesStay
  <2>2. \A k \in DOMAIN copies : CopyHolds(copies[k], k)'
    BY <2>1, CopyStays DEF KeptHold, ListTypes
  <2> QED
    BY <2>1, <2>2 DEF KeptHold
<1>12. CASE UNCHANGED listVars
  <2>1. TablesStay /\ UNCHANGED <<clock, lastBust, copies>>
    BY <1>12 DEF listVars, TablesStay
  <2>2. \A k \in DOMAIN copies : CopyHolds(copies[k], k)'
    BY <2>1, CopyStays DEF KeptHold, ListTypes
  <2> QED
    BY <2>1, <2>2 DEF KeptHold
<1> QED
  BY <1>1, <1>2, <1>3, <1>4, <1>5, <1>6, <1>7, <1>8, <1>9, <1>10, <1>11, <1>12 DEF ListNext

LEMMA LoadsNext ==
  ASSUME TablesHold, ListTypes, KeptHold, LoadsHold, ScreenHolds, [ListNext]_listVars
  PROVE  LoadsHold'
<1>1. ASSUME NEW r \in ListRows, Write(r) PROVE LoadsHold'
  <2>1. UNCHANGED <<fetch, asks, lastBust>>
    BY <1>1 DEF Write
  <2>2. \A l : LoadHolds(l) => LoadHolds(l)'
    BY <1>1, <2>1, LoadStays
  <2> QED
    BY <2>1, <2>2 DEF LoadsHold
<1>2. ASSUME NEW w \in owing, Bust(w) PROVE LoadsHold'
  <2>1. TablesStay /\ UNCHANGED <<fetch, asks, clock>>
    BY <1>2 DEF Bust, TablesStay
  <2>2. CASE lastBust' = lastBust
    <3>1. \A l : LoadHolds(l) => LoadHolds(l)'
      BY <2>1, <2>2, LoadStays
    <3> QED
      BY <2>1, <3>1 DEF LoadsHold
  <2>3. CASE \A s \in Slots : fetch[s].pc # "fetched"
    <3>1. \A ans, f : AnswersTo(ans, f) => AnswersTo(ans, f)'
      BY <2>1, AnswersStay
    <3>2. \A s \in Slots : fetch[s].pc \in {"fetched", "answered"} => AnswersTo(fetch[s].ans, fetch[s].f)
      BY DEF LoadsHold, LoadHolds
    <3>3. \A s \in Slots : fetch'[s].pc # "fetched" /\ fetch'[s].recent /\ fetch'[s].no <= asks'
      BY <2>1, <2>3 DEF LoadsHold
    <3> QED
      BY <2>1, <3>1, <3>2, <3>3 DEF LoadsHold, LoadHolds
  <2> QED
    BY <1>2, <2>2, <2>3 DEF Bust
<1>3. CASE Tick
  <2>1. UNCHANGED <<fetch, asks, lastBust>> /\ \A s \in Slots : fetch[s].pc # "fetched"
    BY <1>3 DEF Tick
  <2>2. \A l : LoadHolds(l) /\ l.pc # "fetched" => LoadHolds(l)'
    BY <1>3, <2>1, LoadStays
  <2> QED
    BY <2>1, <2>2 DEF LoadsHold
<1>4. ASSUME NEW s \in Slots, ServeList(s) PROVE LoadsHold'
  <2>1. TablesStay /\ UNCHANGED <<clock, lastBust>>
    BY <1>4 DEF ServeList, TablesStay
  <2>2. \A l : LoadHolds(l) => LoadHolds(l)'
    BY <2>1, LoadStays
  <2>3. asks \in Nat /\ \A q \in Slots : fetch[q].no \in Nat
    BY DEF ListTypes, AskRec
  <2>0. fetch[s].f \in Filters
    BY <1>4 DEF ServeList, ListTypes
  <2>4. OthersLoads(s) /\ fetch'[s].recent /\ fetch'[s].no = fetch[s].no /\ asks' = asks
    BY <1>4, <2>0, ListServeForm DEF ServeList
  <2>5. LoadHolds(fetch'[s])
    <3>1. /\ fetch'[s].f = fetch[s].f /\ AnswersTo(fetch'[s].ans, fetch[s].f)
          /\ fetch'[s].pc = "fetched" => fetch'[s].ans.of = Present
      BY <1>4, <2>0, ListServeForm
    <3> QED
      BY <3>1 DEF LoadHolds, LapsesAfter, TablesHold, Present
  <2> QED
    BY <2>2, <2>3, <2>4, <2>5 DEF OthersLoads, LoadsHold
<1>5. ASSUME NEW s \in Slots, Keep(s) PROVE LoadsHold'
  <2>1. TablesStay /\ UNCHANGED <<clock, lastBust>>
    BY <1>5 DEF Keep, TablesStay
  <2>2. \A l : LoadHolds(l) => LoadHolds(l)'
    BY <2>1, LoadStays
  <2>3. asks \in Nat /\ \A q \in Slots : fetch[q].no \in Nat
    BY DEF ListTypes, AskRec
  <2>4. LoadMoved(s, "answered") /\ OthersLoads(s) /\ asks' = asks
    BY <1>5, LoadForms DEF Keep, LoadMoved
  <2>5. LoadHolds(fetch'[s]) /\ fetch'[s].recent /\ fetch'[s].no = fetch[s].no
    BY <1>5, <2>4 DEF Keep, LoadMoved, LoadsHold, LoadHolds
  <2> QED
    BY <2>2, <2>3, <2>4, <2>5 DEF OthersLoads, LoadsHold
<1>6. ASSUME NEW s \in Slots, ServeListFails(s) PROVE LoadsHold'
  <2>1. TablesStay /\ UNCHANGED <<clock, lastBust>>
    BY <1>6 DEF ServeListFails, TablesStay
  <2>2. \A l : LoadHolds(l) => LoadHolds(l)'
    BY <2>1, LoadStays
  <2>3. asks \in Nat /\ \A q \in Slots : fetch[q].no \in Nat
    BY DEF ListTypes, AskRec
  <2>4. LoadMoved(s, "failed") /\ OthersLoads(s) /\ asks' = asks
    BY <1>6, LoadForms DEF ServeListFails, LoadMoved
  <2>5. LoadHolds(fetch'[s]) /\ fetch'[s].recent /\ fetch'[s].no = fetch[s].no
    BY <1>6, <2>4 DEF ServeListFails, LoadMoved, LoadsHold, LoadHolds
  <2> QED
    BY <2>2, <2>3, <2>4, <2>5 DEF OthersLoads, LoadsHold
<1>7. ASSUME NEW s \in Slots, OpenList(s) PROVE LoadsHold'
  <2>1. TablesStay /\ UNCHANGED <<clock, lastBust>>
    BY <1>7 DEF OpenList, Rest, TablesStay
  <2>2. \A l : LoadHolds(l) => LoadHolds(l)'
    BY <2>1, LoadStays
  <2>3. asks \in Nat /\ \A q \in Slots : fetch[q].no \in Nat
    BY DEF ListTypes, AskRec
  <2>4. OthersLoads(s) /\ asks' \in {asks, asks + 1}
    BY <1>7, OpenListForm DEF LoadSent, LoadOver
  <2>5. LoadHolds(fetch'[s]) /\ fetch'[s].recent /\ fetch'[s].no <= asks'
    BY <1>7, <2>3, OpenListForm DEF LoadSent, LoadOver, LoadHolds
  <2> QED
    BY <2>2, <2>3, <2>4, <2>5 DEF OthersLoads, LoadsHold
<1>8. ASSUME NEW s \in Slots, Mounted(s) PROVE LoadsHold'
  <2>1. TablesStay /\ UNCHANGED <<clock, lastBust>>
    BY <1>8 DEF Mounted, Rest, TablesStay
  <2>2. \A l : LoadHolds(l) => LoadHolds(l)'
    BY <2>1, LoadStays
  <2>3. asks \in Nat /\ \A q \in Slots : fetch[q].no \in Nat
    BY DEF ListTypes, AskRec
  <2>4. OthersLoads(s) /\ asks' \in {asks, asks + 1}
    BY <1>8, MountedForm DEF LoadSent, LoadOver
  <2>5. LoadHolds(fetch'[s]) /\ fetch'[s].recent /\ fetch'[s].no <= asks'
    BY <1>8, <2>3, MountedForm DEF LoadSent, LoadOver, LoadHolds
  <2> QED
    BY <2>2, <2>3, <2>4, <2>5 DEF OthersLoads, LoadsHold
<1>9. ASSUME NEW s \in Slots, ListArrived(s) PROVE LoadsHold'
  <2>1. TablesStay /\ UNCHANGED <<clock, lastBust>>
    BY <1>9 DEF ListArrived, Rest, TablesStay
  <2>2. \A l : LoadHolds(l) => LoadHolds(l)'
    BY <2>1, LoadStays
  <2>3. asks \in Nat /\ \A q \in Slots : fetch[q].no \in Nat
    BY DEF ListTypes, AskRec
  <2>4. OthersLoads(s) /\ asks' \in {asks, asks + 1}
    BY <1>9, ArrivedForm DEF LoadSent, LoadOver
  <2>5. LoadHolds(fetch'[s]) /\ fetch'[s].recent /\ fetch'[s].no <= asks'
    BY <1>9, <2>3, ArrivedForm DEF LoadSent, LoadOver, LoadHolds
  <2> QED
    BY <2>2, <2>3, <2>4, <2>5 DEF OthersLoads, LoadsHold
<1>10. ASSUME NEW s \in Slots, LoadFailed(s) PROVE LoadsHold'
  <2>1. TablesStay /\ UNCHANGED <<clock, lastBust>>
    BY <1>10 DEF LoadFailed, Rest, TablesStay
  <2>2. \A l : LoadHolds(l) => LoadHolds(l)'
    BY <2>1, LoadStays
  <2>3. asks \in Nat /\ \A q \in Slots : fetch[q].no \in Nat
    BY DEF ListTypes, AskRec
  <2>4. OthersLoads(s) /\ asks' \in {asks, asks + 1}
    BY <1>10, LoadFailedForm DEF LoadSent, LoadOver
  <2>5. LoadHolds(fetch'[s]) /\ fetch'[s].recent /\ fetch'[s].no <= asks'
    BY <1>10, <2>3, LoadFailedForm DEF LoadSent, LoadOver, LoadHolds
  <2> QED
    BY <2>2, <2>3, <2>4, <2>5 DEF OthersLoads, LoadsHold
<1>11. ASSUME NEW s \in Slots, NEW f \in Asked, Pick(s, f) PROVE LoadsHold'
  <2>1. TablesStay /\ UNCHANGED <<clock, lastBust>>
    BY <1>11 DEF Pick, Rest, TablesStay
  <2>2. \A l : LoadHolds(l) => LoadHolds(l)'
    BY <2>1, LoadStays
  <2>3. asks \in Nat /\ \A q \in Slots : fetch[q].no \in Nat
    BY DEF ListTypes, AskRec
  <2>6. CASE UNCHANGED <<fetch, asks>>
    BY <2>2, <2>6 DEF LoadsHold
  <2>7. CASE LoadSent(s, f)
    <3>1. OthersLoads(s) /\ asks' = asks + 1
      BY <2>7 DEF LoadSent
    <3>2. LoadHolds(fetch'[s]) /\ fetch'[s].recent /\ fetch'[s].no <= asks'
      BY <2>3, <2>7 DEF LoadSent, LoadHolds
    <3> QED
      BY <2>2, <2>3, <3>1, <3>2 DEF OthersLoads, LoadsHold
  <2> QED
    BY <1>11, <2>6, <2>7, PickedForm
<1>12. CASE UNCHANGED listVars
  <2>1. TablesStay /\ UNCHANGED <<clock, lastBust, fetch, asks>>
    BY <1>12 DEF listVars, TablesStay
  <2>2. \A l : LoadHolds(l) => LoadHolds(l)'
    BY <2>1, LoadStays
  <2> QED
    BY <2>1, <2>2 DEF LoadsHold
<1> QED
  BY <1>1, <1>2, <1>3, <1>4, <1>5, <1>6, <1>7, <1>8, <1>9, <1>10, <1>11, <1>12 DEF ListNext

LEMMA ScreenNext ==
  ASSUME TablesHold, ListTypes, KeptHold, LoadsHold, ScreenHolds, [ListNext]_listVars
  PROVE  ScreenHolds'
<1>1. ASSUME NEW r \in ListRows, Write(r) PROVE ScreenHolds'
  <2>1. UNCHANGED <<list, screen, fetch, asks>>
    BY <1>1 DEF Write
  <2>2. \A ans, f : AnswersTo(ans, f) => AnswersTo(ans, f)'
    BY <1>1, AnswersStay DEF TablesStay, Bust, Tick, listVars
  <2>3. Default' = Default /\ FromUrl(screen.url)' = FromUrl(screen.url)
    BY <2>1 DEF Default, FromUrl
  <2> QED
    BY <2>1, <2>2, <2>3 DEF ScreenHolds, Choosable, UrlFits, Alike
<1>2. ASSUME NEW w \in owing, Bust(w) PROVE ScreenHolds'
  <2>1. UNCHANGED <<list, screen, fetch, asks>>
    BY <1>2 DEF Bust
  <2>2. \A ans, f : AnswersTo(ans, f) => AnswersTo(ans, f)'
    BY <1>2, AnswersStay DEF TablesStay, Bust, Tick, listVars
  <2>3. Default' = Default /\ FromUrl(screen.url)' = FromUrl(screen.url)
    BY <2>1 DEF Default, FromUrl
  <2> QED
    BY <2>1, <2>2, <2>3 DEF ScreenHolds, Choosable, UrlFits, Alike
<1>3. CASE Tick
  <2>1. UNCHANGED <<list, screen, fetch, asks>>
    BY <1>3 DEF Tick
  <2>2. \A ans, f : AnswersTo(ans, f) => AnswersTo(ans, f)'
    BY <1>3, AnswersStay DEF TablesStay, Bust, Tick, listVars
  <2>3. Default' = Default /\ FromUrl(screen.url)' = FromUrl(screen.url)
    BY <2>1 DEF Default, FromUrl
  <2> QED
    BY <2>1, <2>2, <2>3 DEF ScreenHolds, Choosable, UrlFits, Alike
<1>4. ASSUME NEW s \in Slots, ServeList(s) PROVE ScreenHolds'
  <2>1. TablesStay /\ list' = list
    BY <1>4 DEF ServeList, TablesStay
  <2>2. \A ans, f : AnswersTo(ans, f) => AnswersTo(ans, f)'
    BY <2>1, AnswersStay
  <2>3. Default' = Default /\ \A url : FromUrl(url)' = FromUrl(url)
    BY <2>1 DEF Default, FromUrl
  <2>4. asks \in Nat /\ screen.no \in Nat /\ \A q \in Slots : fetch[q].no \in Nat /\ fetch[q].no <= asks
    BY DEF ListTypes, AskRec, ScreenRec, LoadsHold
  <2>0. fetch[s].pc # "idle" /\ UNCHANGED <<screen, asks>>
    BY <1>4 DEF ServeList
  <2>5. /\ OthersLoads(s) /\ fetch'[s].f = fetch[s].f /\ fetch'[s].no = fetch[s].no /\ fetch[s].pc # "idle"
        /\ UNCHANGED <<screen, asks>>
    <3>1. fetch[s].f \in Filters
      BY <2>0 DEF ListTypes
    <3> QED
      BY <1>4, <2>0, <3>1, ListServeForm
  <2> QED
    BY <2>1, <2>2, <2>3, <2>5 DEF OthersLoads, ScreenHolds, Choosable, UrlFits, Alike
<1>5. ASSUME NEW s \in Slots, Keep(s) PROVE ScreenHolds'
  <2>1. TablesStay /\ list' = list
    BY <1>5 DEF Keep, TablesStay
  <2>2. \A ans, f : AnswersTo(ans, f) => AnswersTo(ans, f)'
    BY <2>1, AnswersStay
  <2>3. Default' = Default /\ \A url : FromUrl(url)' = FromUrl(url)
    BY <2>1 DEF Default, FromUrl
  <2>4. asks \in Nat /\ screen.no \in Nat /\ \A q \in Slots : fetch[q].no \in Nat /\ fetch[q].no <= asks
    BY DEF ListTypes, AskRec, ScreenRec, LoadsHold
  <2>5. /\ OthersLoads(s) /\ fetch'[s].f = fetch[s].f /\ fetch'[s].no = fetch[s].no /\ fetch[s].pc # "idle"
        /\ UNCHANGED <<screen, asks>>
    BY <1>5, LoadForms DEF Keep, LoadMoved
  <2> QED
    BY <2>1, <2>2, <2>3, <2>5 DEF OthersLoads, ScreenHolds, Choosable, UrlFits, Alike
<1>6. ASSUME NEW s \in Slots, ServeListFails(s) PROVE ScreenHolds'
  <2>1. TablesStay /\ list' = list
    BY <1>6 DEF ServeListFails, TablesStay
  <2>2. \A ans, f : AnswersTo(ans, f) => AnswersTo(ans, f)'
    BY <2>1, AnswersStay
  <2>3. Default' = Default /\ \A url : FromUrl(url)' = FromUrl(url)
    BY <2>1 DEF Default, FromUrl
  <2>4. asks \in Nat /\ screen.no \in Nat /\ \A q \in Slots : fetch[q].no \in Nat /\ fetch[q].no <= asks
    BY DEF ListTypes, AskRec, ScreenRec, LoadsHold
  <2>5. /\ OthersLoads(s) /\ fetch'[s].f = fetch[s].f /\ fetch'[s].no = fetch[s].no /\ fetch[s].pc # "idle"
        /\ UNCHANGED <<screen, asks>>
    BY <1>6, LoadForms DEF ServeListFails, LoadMoved
  <2> QED
    BY <2>1, <2>2, <2>3, <2>5 DEF OthersLoads, ScreenHolds, Choosable, UrlFits, Alike
<1>7. ASSUME NEW s \in Slots, OpenList(s) PROVE ScreenHolds'
  <2>1. TablesStay /\ list' = list
    BY <1>7 DEF OpenList, Rest, TablesStay
  <2>2. \A ans, f : AnswersTo(ans, f) => AnswersTo(ans, f)'
    BY <2>1, AnswersStay
  <2>3. Default' = Default /\ \A url : FromUrl(url)' = FromUrl(url)
    BY <2>1 DEF Default, FromUrl
  <2>4. asks \in Nat /\ screen.no \in Nat /\ \A q \in Slots : fetch[q].no \in Nat /\ fetch[q].no <= asks
    BY DEF ListTypes, AskRec, ScreenRec, LoadsHold
  <2>5. /\ screen'.f = FromUrl(screen.url) /\ screen'.url = screen.url /\ screen'.no = 0 /\ screen'.recent = screen.recent
        /\ LoadSent(s, Default) /\ \A q \in Slots : fetch[q].pc = "idle"
        /\ screen'.open = IF list \in {"certs", "ysws"} THEN "opening" ELSE "yes"
    BY <1>7, OpenListForm
  <2>6. /\ asks' = asks + 1 /\ fetch'[s].f = Default
        /\ \A q \in Slots : q # s => fetch'[q].pc = "idle"
    BY <2>5 DEF LoadSent, OthersLoads
  <2>7. Choosable(screen'.f) /\ (list = "tickets" => Alike(Default, screen'.f))
    BY <2>5, FromUrlFits DEF ScreenHolds, ListTypes, Alike
  <2>8. list \notin {"certs", "ysws"} => list \in {"tickets", "assignments"}
    BY DEF TablesHold, ListKinds
  <2> QED
    BY <2>1, <2>3, <2>4, <2>5, <2>6, <2>7, <2>8 DEF ScreenHolds, Choosable, UrlFits, Alike
<1>8. ASSUME NEW s \in Slots, Mounted(s) PROVE ScreenHolds'
  <2>1. TablesStay /\ list' = list
    BY <1>8 DEF Mounted, Rest, TablesStay
  <2>2. \A ans, f : AnswersTo(ans, f) => AnswersTo(ans, f)'
    BY <2>1, AnswersStay
  <2>3. Default' = Default /\ \A url : FromUrl(url)' = FromUrl(url)
    BY <2>1 DEF Default, FromUrl
  <2>4. asks \in Nat /\ screen.no \in Nat /\ \A q \in Slots : fetch[q].no \in Nat /\ fetch[q].no <= asks
    BY DEF ListTypes, AskRec, ScreenRec, LoadsHold
  <2>5. /\ ScreenSame("yes") /\ screen'.ans = fetch[s].ans /\ screen'.no = fetch[s].no
        /\ screen'.recent = fetch[s].recent /\ fetch[s].pc = "answered" /\ screen.open = "opening"
    BY <1>8, MountedForm
  <2>6. /\ screen'.recent /\ Choosable(screen.f)' /\ UrlFits(screen.url)'
        /\ \A q \in Slots : fetch[q].pc # "idle" => fetch[q].f = Default
        /\ screen.f = FromUrl(screen.url) /\ asks >= 1 /\ list \in {"certs", "ysws"}
    BY <2>1, <2>5 DEF ScreenHolds, ScreenSame, LoadsHold, Choosable, UrlFits
  <2>7. CASE LoadSent(s, screen.f)
    <3>1. asks' = asks + 1 /\ fetch'[s].f = screen'.f /\ \A q \in Slots : q # s => fetch'[q] = fetch[q]
      BY <2>5, <2>7 DEF LoadSent, OthersLoads, ScreenSame
    <3>2. \A q \in Slots : fetch'[q].no = asks' => q = s
      BY <2>4, <3>1
    <3>3. screen'.no <= asks' /\ screen'.no # asks'
      BY <2>4, <2>5, <3>1
    <3> QED
      BY <2>4, <2>5, <2>6, <3>1, <3>2, <3>3 DEF ScreenHolds, ScreenSame, Alike
  <2>8. CASE /\ ~(list = "certs" /\ CertsAsked(screen.url)) /\ ~(list = "ysws" /\ YswsAsked(screen.url))
             /\ LoadOver(s) /\ asks' = asks
    <3>1. Alike(Default, screen.f)
      BY <2>6, <2>8, FromUrlFits DEF ScreenHolds, ListTypes, Alike
    <3>2. AnswersTo(fetch[s].ans, screen.f)
      <4>1. AnswersTo(fetch[s].ans, Default)
        BY <2>5, <2>6 DEF LoadsHold, LoadHolds
      <4> QED
        BY <3>1, <4>1, AnswersAlike
    <3>3. AnswersTo(screen.ans, screen.f)'
      BY <2>2, <2>5, <3>2 DEF ScreenSame
    <3>4. \A q \in Slots : fetch'[q].pc # "idle" => fetch'[q].f = Default
      BY <2>6, <2>8 DEF LoadOver, OthersLoads
    <3> QED
      BY <2>4, <2>5, <2>6, <2>8, <3>1, <3>3, <3>4 DEF ScreenHolds, ScreenSame, Alike
  <2> QED
    BY <1>8, <2>7, <2>8, MountedForm
<1>9. ASSUME NEW s \in Slots, ListArrived(s) PROVE ScreenHolds'
  <2>1. TablesStay /\ list' = list
    BY <1>9 DEF ListArrived, Rest, TablesStay
  <2>2. \A ans, f : AnswersTo(ans, f) => AnswersTo(ans, f)'
    BY <2>1, AnswersStay
  <2>3. Default' = Default /\ \A url : FromUrl(url)' = FromUrl(url)
    BY <2>1 DEF Default, FromUrl
  <2>4. asks \in Nat /\ screen.no \in Nat /\ \A q \in Slots : fetch[q].no \in Nat /\ fetch[q].no <= asks
    BY DEF ListTypes, AskRec, ScreenRec, LoadsHold
  <2>5. /\ ScreenSame("yes") /\ screen'.ans = fetch[s].ans /\ screen'.no = fetch[s].no
        /\ screen'.recent = fetch[s].recent /\ fetch[s].pc = "answered" /\ screen.open = "yes"
        /\ LoadOver(s) /\ asks' = asks
    BY <1>9, ArrivedForm
  <2>6. fetch[s].no = asks => AnswersTo(fetch[s].ans, screen.f)
    <3>1. AnswersTo(fetch[s].ans, fetch[s].f)
      BY <2>5 DEF LoadsHold, LoadHolds
    <3> QED
      BY <2>5, <3>1, AnswersAlike DEF ScreenHolds
  <2>7. screen'.no = asks' => AnswersTo(screen.ans, screen.f)'
    BY <2>2, <2>5, <2>6 DEF ScreenSame
  <2>8. screen'.recent /\ screen'.no <= asks'
    BY <2>4, <2>5 DEF LoadsHold
  <2> QED
    BY <2>1, <2>5, <2>7, <2>8 DEF LoadOver, OthersLoads, ScreenHolds, ScreenSame, Choosable, UrlFits, Alike
<1>10. ASSUME NEW s \in Slots, LoadFailed(s) PROVE ScreenHolds'
  <2>1. TablesStay /\ list' = list
    BY <1>10 DEF LoadFailed, Rest, TablesStay
  <2>2. \A ans, f : AnswersTo(ans, f) => AnswersTo(ans, f)'
    BY <2>1, AnswersStay
  <2>3. Default' = Default /\ \A url : FromUrl(url)' = FromUrl(url)
    BY <2>1 DEF Default, FromUrl
  <2>4. asks \in Nat /\ screen.no \in Nat /\ \A q \in Slots : fetch[q].no \in Nat /\ fetch[q].no <= asks
    BY DEF ListTypes, AskRec, ScreenRec, LoadsHold
  <2>5. /\ screen'.f = screen.f /\ screen'.url = screen.url /\ screen'.recent = screen.recent
        /\ LoadOver(s) /\ asks' = asks
        /\ \/ screen'.open = "no" /\ screen'.no = screen.no
           \/ screen'.open = screen.open /\ screen.open # "opening" /\ screen'.no = 0
           \/ screen' = screen /\ screen.open # "opening"
    BY <1>10, LoadFailedForm
  <2>6. CASE screen'.open = "no" /\ screen'.no = screen.no
    BY <2>1, <2>4, <2>5, <2>6 DEF ScreenHolds, Choosable, UrlFits
  <2>7. CASE screen'.open = screen.open /\ screen.open # "opening" /\ screen'.no = 0
    BY <2>1, <2>4, <2>5, <2>7 DEF LoadOver, OthersLoads, ScreenHolds, Choosable, UrlFits, Alike
  <2>8. CASE screen' = screen /\ screen.open # "opening"
    BY <2>1, <2>2, <2>4, <2>5, <2>8 DEF LoadOver, OthersLoads, ScreenHolds, Choosable, UrlFits, Alike
  <2> QED
    BY <2>5, <2>6, <2>7, <2>8
<1>11. ASSUME NEW s \in Slots, NEW f \in Asked, Pick(s, f) PROVE ScreenHolds'
  <2>1. TablesStay /\ list' = list
    BY <1>11 DEF Pick, Rest, TablesStay
  <2>2. \A ans, g : AnswersTo(ans, g) => AnswersTo(ans, g)'
    BY <2>1, AnswersStay
  <2>3. Default' = Default /\ \A url : FromUrl(url)' = FromUrl(url)
    BY <2>1 DEF Default, FromUrl
  <2>4. asks \in Nat /\ screen.no \in Nat /\ \A q \in Slots : fetch[q].no \in Nat /\ fetch[q].no <= asks
    BY DEF ListTypes, AskRec, ScreenRec, LoadsHold
  <2>5. /\ screen'.open = "yes" /\ screen.open = "yes" /\ screen'.f = f /\ screen'.url = Url(f)
        /\ screen'.ans = screen.ans /\ screen'.no = screen.no /\ screen'.recent = screen.recent
        /\ f \in Filters /\ Choosable(f)
        /\ IF list = "assignments" THEN UNCHANGED <<fetch, asks>> ELSE LoadSent(s, f)
    BY <1>11, PickedForm
  <2>6. Choosable(f)' /\ UrlFits(Url(f))
    BY <2>1, <2>5, UrlForm DEF Choosable
  <2>7. UrlFits(screen.url)' /\ Choosable(screen.f)'
    BY <2>1, <2>5, <2>6 DEF Choosable, UrlFits
  <2>8. CASE list = "assignments"
    <3>1. screen.no = asks => AnswersTo(screen.ans, f)
      BY <2>5, <2>8, AnswersAlike DEF ScreenHolds
    <3>2. screen.no = asks => AnswersTo(screen.ans, screen.f)'
      BY <2>2, <2>5, <3>1
    <3> QED
      BY <2>1, <2>5, <2>7, <2>8, <3>2 DEF ScreenHolds
  <2>9. CASE LoadSent(s, f)
    <3>1. asks' = asks + 1 /\ fetch'[s].f = f /\ \A q \in Slots : q # s => fetch'[q] = fetch[q]
      BY <2>9 DEF LoadSent, OthersLoads
    <3>2. \A q \in Slots : fetch'[q].no = asks' => q = s
      BY <2>4, <3>1
    <3>3. screen.no <= asks /\ screen'.no <= asks' /\ screen'.no # asks' /\ asks' >= 1 /\ screen.recent
      BY <2>4, <2>5, <3>1 DEF ScreenHolds
    <3> QED
      BY <2>4, <2>5, <2>7, <3>1, <3>2, <3>3 DEF ScreenHolds, Alike
  <2> QED
    BY <2>5, <2>8, <2>9
<1>12. CASE UNCHANGED listVars
  <2>1. UNCHANGED <<list, screen, fetch, asks>>
    BY <1>12 DEF listVars
  <2>2. \A ans, f : AnswersTo(ans, f) => AnswersTo(ans, f)'
    BY <1>12, AnswersStay DEF TablesStay, Bust, Tick, listVars
  <2>3. Default' = Default /\ FromUrl(screen.url)' = FromUrl(screen.url)
    BY <2>1 DEF Default, FromUrl
  <2> QED
    BY <2>1, <2>2, <2>3 DEF ScreenHolds, Choosable, UrlFits, Alike
<1> QED
  BY <1>1, <1>2, <1>3, <1>4, <1>5, <1>6, <1>7, <1>8, <1>9, <1>10, <1>11, <1>12 DEF ListNext

LEMMA ListAlways == ListSpec => []ListInv
<1>1. ListInit => ListInv
  <2> SUFFICES ASSUME ListInit PROVE ListInv
    OBVIOUS
  <2>1. PICK t \in [ListRows -> {"none", "pending"}] : past = <<t>>
    BY DEF ListInit
  <2>2. t \in [ListRows -> Stages]
    BY DEF Stages
  <2>3. past \in Seq([ListRows -> Stages]) /\ Len(past) = 1 /\ when \in Seq(Nat) /\ Len(when) = 1 /\ when[1] = 0
    BY <2>1, <2>2 DEF ListInit
  <2>4. TablesHold
    BY <2>3 DEF ListInit, TablesHold, Present
  <2>5. \A s \in Slots : fetch[s] = NotFetching
    BY DEF ListInit
  <2>6. DOMAIN copies = {} /\ asks = 0
    BY DEF ListInit
  <2>7. /\ screen.open = "no" /\ screen.f = Default /\ DOMAIN screen.url = {} /\ screen.no = 0 /\ screen.recent
        /\ screen \in ScreenRec(screen.url)
    BY DefaultIs, NotFetchingForm DEF ListInit, ScreenRec
  <2>8. fetch \in [Slots -> AskRec]
    BY NotFetchingForm DEF ListInit
  <2>9. ListTypes
    BY <2>5, <2>6, <2>7, <2>8, NotFetchingForm DEF ListTypes, UrlTyped
  <2>10. KeptHold /\ LoadsHold
    BY <2>5, <2>6, NotFetchingForm DEF KeptHold, LoadsHold, LoadHolds
  <2>11. ScreenHolds
    BY <2>6, <2>7, DefaultIs DEF ScreenHolds, Choosable, UrlFits
  <2> QED
    BY <2>4, <2>9, <2>10, <2>11 DEF ListInv
<1>2. ListInv /\ [ListNext]_listVars => ListInv'
  BY TablesNext, ListTypesNext, StillKept, LoadsNext, ScreenNext DEF ListInv
<1> QED
  BY <1>1, <1>2, PTL DEF ListSpec

(* For any rows, filters, writers and order of answers: a page whose newest  *)
(* load was the last to be answered shows what its filters pick of a table   *)
(* no older than a copy may be (certs-view.tsx:164-218, ysws-                *)
(* view.tsx:226-280, lib/cache.ts:3-39).                                     *)
THEOREM ListsShow == ListSpec => []ListsShowWhatIsAsked
<1>1. ListInv => ListsShowWhatIsAsked
  <2> SUFFICES ASSUME ListInv, screen.open = "yes", screen.no = asks PROVE ListsShowWhatIsAsked
    BY DEF ListsShowWhatIsAsked
  <2> DEFINE then == past[screen.ans.of]
             f == screen.f
             picked == {r \in ListRows : /\ then[r] # "none" /\ (f.status = "all" \/ then[r] = f.status)
                                         /\ f.only => r \in Named
                                         /\ f.but /\ ~f.only => r \notin Named}
  <2>1. /\ screen.ans.rows = Query(f, then).rows /\ screen.ans.oldest = Query(f, then).oldest
        /\ Choosable(f) /\ screen.recent
    BY DEF ListInv, ScreenHolds, AnswersTo
  <2>2. OnScreen = picked
    <3>1. CASE list = "certs"
      BY <2>1, <3>1 DEF OnScreen, Query, CertsQuery, Choosable
    <3>2. CASE list = "ysws"
      BY <2>1, <3>2 DEF OnScreen, Query, YswsQuery
    <3>3. CASE list = "assignments"
      BY <2>1, <3>3 DEF OnScreen, Query, AssignQuery, Choosable
    <3>4. CASE list = "tickets"
      BY <2>1, <3>4 DEF OnScreen, Query, TicketsQuery, Choosable
    <3> QED
      BY <3>1, <3>2, <3>3, <3>4 DEF ListInv, TablesHold, ListKinds
  <2>3. list \in {"certs", "ysws"} => screen.ans.oldest = screen.f.oldest
    BY <2>1 DEF Query, CertsQuery, YswsQuery
  <2> QED
    BY <2>1, <2>2, <2>3 DEF ListsShowWhatIsAsked
<1> QED
  BY <1>1, ListAlways, PTL

------------------------------------------------------------------------------
(* The pages together.                                                       *)

(* What a step of the run is to each of the pages.                           *)
PagesStep ==
  /\ [NotesNext]_noteVars /\ [CertPageNext]_certPageVars /\ [PayPageNext]_payPageVars
  /\ [ReviewPageNext]_reviewPageVars /\ [ListNext]_listVars

LEMMA PartsMoveThePages == [PartsNext]_PartsVars => PagesStep
<1>1. CASE UNCHANGED PartsVars
  BY <1>1 DEF PartsVars, PagesStep
<1>2. CASE PartsNext
  BY <1>2, Zenon DEF PartsNext, PagesStep
<1> QED
  BY <1>1, <1>2

(* For any notes, rows, payouts, devlogs and filters, in whatever order loads *)
(* and requests are answered: a page that is told of changes comes to show    *)
(* what the server has, the page of a ship cert shows the row it read and the *)
(* payouts page what it pays, a review's sheet is what was kept of it, and a  *)
(* list shows what its filters pick in a table there was (cert-notes.tsx,     *)
(* form.tsx, payouts-view.tsx, review.tsx, and the views of the lists).       *)
THEOREM PagesAlwaysKeep == PartsSpec => []PagesKeepTheirWord
<1>1. PartsInit => NotesInit /\ CertPageInit /\ PayPageInit /\ ReviewPageInit /\ ListInit
  BY Zenon DEF PartsInit
<1>2. [PartsNext]_PartsVars =>
        /\ [NotesNext]_noteVars /\ [CertPageNext]_certPageVars /\ [PayPageNext]_payPageVars
        /\ [ReviewPageNext]_reviewPageVars /\ [ListNext]_listVars
  BY PartsMoveThePages DEF PagesStep
<1>3. PartsSpec => NotesSpec /\ CertPageSpec /\ PayPageSpec /\ ReviewPageSpec /\ ListSpec
  BY <1>1, <1>2, PTL DEF PartsSpec, NotesSpec, CertPageSpec, PayPageSpec, ReviewPageSpec, ListSpec
<1> QED
  BY <1>3, NotesSettle, PageHonest, PayoutsGoAsShown, SheetIsRecorded, ListsShow, PTL
     DEF PagesKeepTheirWord

=============================================================================
