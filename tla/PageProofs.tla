----------------------------- MODULE PageProofs -----------------------------
(***************************************************************************)
(* Proofs about the pages of staff: a sitting of spot checks, for any lists  *)
(* drawn and number of requests that overlap; the pages of a user and of an  *)
(* assignment, for any visits, keys and changes; the page of a case, for any *)
(* number of loads; the page of a ticket, for any staff, files and requests; *)
(* and the form that adds a user, for any number of people and forms.        *)
(***************************************************************************)
EXTENDS StaffPages, FiniteSetTheorems, SequenceTheorems, TLAPS

------------------------------------------------------------------------------
(* The sitting.                                                              *)
USE SittingAssumption

(* A list begins with the ships first dealt.                                 *)
Continues(list) ==
  Len(dealt) <= Len(list) /\ \A i \in 1..Len(dealt) : list[i] = dealt[i]

(* The first n ships dealt were decided on by answered requests, and the     *)
(* page counts n answers or more.                                            *)
JudgedUpTo(n) ==
  (\A i \in 1..Len(dealt) : i <= n => dealt[i] \in judged) /\ n <= sheet.reviewed

AllJudged == (\A i \in 1..Len(dealt) : dealt[i] \in judged) /\ Len(dealt) <= sheet.reviewed

(* What is on screen goes on with the list dealt, or all of it was judged.   *)
SheetHolds ==
  /\ sheet.on # "sitting" => sheet.at = 1
  /\ sheet.on = "sitting" =>
       \/ sheet.list = <<>> /\ AllJudged
       \/ Continues(sheet.list) /\ JudgedUpTo(sheet.at - 1)

(* So does the list of every click still on its way.                         *)
HandHolds(h) ==
  /\ sheet.on = "sitting"
  /\ Continues(hand[h].list) /\ hand[h].at \in 1..Len(hand[h].list)
  /\ JudgedUpTo(hand[h].at - 1)
  /\ hand[h].pc \in {"adding", "answered"} => hand[h].list[hand[h].at] \in judged

HandsHold == \A h \in Hands : hand[h].pc # "idle" => HandHolds(h)

PageInv == SpotPageTypeOK /\ SheetHolds /\ HandsHold

------------------------------------------------------------------------------
LEMMA Joined ==
  ASSUME NEW s \in Seq(Decided), NEW t \in Seq(Decided)
  PROVE  /\ s \o t \in Seq(Decided) /\ Len(s) <= Len(s \o t)
         /\ \A i \in 1..Len(s) : (s \o t)[i] = s[i]
<1>1. Len(s) \in Nat /\ Len(t) \in Nat
  OBVIOUS
<1>2. s \o t \in Seq(Decided)
  BY ConcatProperties
<1>3. Len(s \o t) = Len(s) + Len(t)
  BY ConcatProperties
<1>4. \A i \in 1..Len(s) + Len(t) :
        (s \o t)[i] = IF i <= Len(s) THEN s[i] ELSE t[i - Len(s)]
  BY ConcatProperties
<1>5. \A i \in 1..Len(s) : (s \o t)[i] = s[i]
  BY <1>1, <1>4
<1> QED
  BY <1>1, <1>2, <1>3, <1>5

LEMMA DrawsType ==
  ASSUME checked \subseteq Decided, NEW n \in Nat, NEW s \in Draws(n)
  PROVE  s \in Seq(Decided)
<1> DEFINE left == Decided \ checked
           k == IF n < Cardinality(left) THEN n ELSE Cardinality(left)
<1>1. IsFiniteSet(left)
  BY FS_Subset
<1>2. Cardinality(left) \in Nat
  BY <1>1, FS_CardinalityType
<1>3. k \in Nat
  BY <1>2
<1>4. s \in [1..k -> left]
  BY DEF Draws
<1> HIDE DEF k
<1> QED
  BY <1>3, <1>4

LEMMA RestingType == Resting \in Hand /\ Resting.pc = "idle"
BY DEF Resting, Hand

LEMMA SpotPageInitOK == SpotPageInit => PageInv
<1> SUFFICES ASSUME SpotPageInit PROVE PageInv
  OBVIOUS
<1>1. sheet \in Sheet
  BY DEF SpotPageInit, Sheet
<1>2. SpotPageTypeOK
  BY <1>1, RestingType DEF SpotPageInit, SpotPageTypeOK
<1>3. SheetHolds /\ HandsHold
  BY RestingType DEF SpotPageInit, SheetHolds, HandsHold
<1> QED
  BY <1>2, <1>3 DEF PageInv

(* A click in flight keeps what it knows while the page goes on.             *)
LEMMA HandFrame ==
  ASSUME SpotPageTypeOK, SpotPageTypeOK', NEW h \in Hands, HandHolds(h), hand'[h] = hand[h],
         dealt' = dealt, judged \subseteq judged', sheet'.on = "sitting",
         sheet.reviewed <= sheet'.reviewed
  PROVE  HandHolds(h)'
<1>1. /\ hand[h].at \in Nat /\ sheet.reviewed \in Nat /\ sheet'.reviewed \in Nat
  BY DEF SpotPageTypeOK, Hand, Sheet
<1>2. Continues(hand[h].list)'
  BY DEF HandHolds, Continues
<1>3. JudgedUpTo(hand[h].at - 1)'
  BY <1>1 DEF HandHolds, JudgedUpTo
<1> QED
  BY <1>2, <1>3 DEF HandHolds

(* ... and so does what is on screen while nothing is put there.             *)
LEMMA SheetFrame ==
  ASSUME SpotPageTypeOK, SheetHolds, dealt' = dealt, judged \subseteq judged',
         sheet'.on = sheet.on, sheet'.at = sheet.at, sheet'.list = sheet.list,
         sheet'.reviewed = sheet.reviewed
  PROVE  SheetHolds'
BY DEF SheetHolds, AllJudged, Continues, JudgedUpTo

LEMMA TypesHold == PageInv /\ [SpotPageNext]_spotPageVars => SpotPageTypeOK'
<1> SUFFICES ASSUME PageInv, [SpotPageNext]_spotPageVars PROVE SpotPageTypeOK'
  OBVIOUS
<1>0. /\ checked \subseteq Decided /\ judged \subseteq Decided /\ dealt \in Seq(Decided)
      /\ sheet \in Sheet /\ hand \in [Hands -> Hand] /\ clicks \in 0..MaxClicks
      /\ \A h \in Hands : hand[h] \in Hand
      /\ HandsHold
  BY DEF PageInv, SpotPageTypeOK
<1>1. ASSUME NEW n \in HowMany, NEW extra \in Extras, StartSitting(n, extra)
      PROVE  SpotPageTypeOK'
  <2>1. sheet' \in Sheet
    BY <1>0, <1>1 DEF StartSitting, Sheet
  <2> QED
    BY <1>0, <1>1, <2>1 DEF StartSitting, SpotPageTypeOK
<1>2. ASSUME Started PROVE SpotPageTypeOK'
  <2>1. sheet.count \in Nat
    BY <1>0 DEF Sheet
  <2>2. PICK list \in Draws(sheet.count) \cup {<<>>} :
          sheet' = [sheet EXCEPT !.on = "sitting", !.list = list] /\ dealt' = list
    BY <1>2 DEF Started
  <2>3. list \in Seq(Decided)
    BY <1>0, <2>1, DrawsType, EmptySeq
  <2>4. sheet' \in Sheet
    BY <1>0, <2>2, <2>3 DEF Sheet
  <2> QED
    BY <1>0, <1>2, <2>2, <2>3, <2>4 DEF Started, SpotPageTypeOK
<1>3. ASSUME StartLost PROVE SpotPageTypeOK'
  <2>1. sheet' \in Sheet
    BY <1>0, <1>3 DEF StartLost, Sheet
  <2> QED
    BY <1>0, <1>3, <2>1 DEF StartLost, SpotPageTypeOK
<1>4. ASSUME NEW h \in Hands, NEW kind \in {"approve", "full", "keep"}, Send(h, kind)
      PROVE  SpotPageTypeOK'
  <2>1. sheet' \in Sheet
    BY <1>0, <1>4 DEF Send, Sheet
  <2>2. sheet.list \in Seq(Decided) /\ sheet.at \in Nat /\ sheet.extra \in Nat
    BY <1>0 DEF Sheet
  <2>3. hand' \in [Hands -> Hand]
    BY <1>0, <1>4, <2>2, RestingType DEF Send, Hand
  <2> QED
    BY <1>0, <1>4, <2>1, <2>3 DEF Send, SpotPageTypeOK
<1>5. ASSUME FlagDialog PROVE SpotPageTypeOK'
  <2>1. sheet' \in Sheet
    BY <1>0, <1>5 DEF FlagDialog, Sheet
  <2> QED
    BY <1>0, <1>5, <2>1 DEF FlagDialog, SpotPageTypeOK
<1>6. ASSUME NEW h \in Hands, hand[h].pc # "idle" PROVE Of(h) \in Decided
  <2>1. hand[h].list \in Seq(Decided)
    BY <1>0 DEF Hand
  <2>2. hand[h].at \in 1..Len(hand[h].list)
    BY <1>0, <1>6 DEF HandsHold, HandHolds
  <2>3. hand[h].list[hand[h].at] \in Decided
    BY <2>1, <2>2, ElementOfSeq
  <2> QED
    BY <2>3 DEF Of
<1>7. ASSUME NEW h \in Hands, Answered(h) PROVE SpotPageTypeOK'
  <2>2. PICK p \in {"adding", "answered"} : hand' = [hand EXCEPT ![h].pc = p]
    BY <1>7 DEF Answered
  <2>1. hand' \in [Hands -> Hand]
    BY <1>0, <2>2 DEF Hand
  <2> QED
    BY <1>0, <1>6, <1>7, <2>1 DEF Answered, SpotPageTypeOK
<1>8. ASSUME NEW h \in Hands, Drawn(h) PROVE SpotPageTypeOK'
  <2>1. hand[h].extra \in Nat
    BY <1>0 DEF Hand
  <2>2. PICK list \in Draws(hand[h].extra) \cup {<<>>} :
          hand' = [hand EXCEPT ![h].pc = "answered", ![h].more = list]
    BY <1>8 DEF Drawn
  <2>3. list \in Seq(Decided)
    BY <1>0, <2>1, DrawsType, EmptySeq
  <2>4. hand' \in [Hands -> Hand]
    <3>1. [hand[h] EXCEPT !.pc = "answered", !.more = list] \in Hand
      BY <1>0, <2>3 DEF Hand
    <3>2. hand' = [hand EXCEPT ![h] = [hand[h] EXCEPT !.pc = "answered", !.more = list]]
      BY <2>2
    <3> QED
      BY <1>0, <3>1, <3>2
  <2> QED
    BY <1>0, <1>8, <2>4 DEF Drawn, SpotPageTypeOK
<1>9. ASSUME NEW h \in Hands, Thrown(h) PROVE SpotPageTypeOK'
  <2>1. hand' \in [Hands -> Hand]
    BY <1>0, <1>9 DEF Thrown, Hand
  <2>2. checked' \subseteq Decided
    BY <1>0, <1>6, <1>9 DEF Thrown
  <2> QED
    BY <1>0, <1>9, <2>1, <2>2 DEF Thrown, SpotPageTypeOK
<1>10. ASSUME NEW h \in Hands, Advance(h) PROVE SpotPageTypeOK'
  <2> DEFINE long == hand[h].list \o hand[h].more
  <2>1. hand[h].list \in Seq(Decided) /\ hand[h].more \in Seq(Decided)
    BY <1>0 DEF Hand
  <2>2. hand[h].at \in Nat /\ sheet.list \in Seq(Decided) /\ <<>> \in Seq(Decided)
    BY <1>0, EmptySeq DEF Hand, Sheet
  <2>5. long \in Seq(Decided)
    BY <2>1, ConcatProperties
  <2> DEFINE on == hand[h].at < Len(hand[h].list)
             l == IF on THEN IF hand[h].extra > 0 THEN long ELSE sheet.list ELSE <<>>
             n == IF on THEN hand[h].at + 1 ELSE 1
             b == hand[h].kind = "approve" /\ sheet.why
             d == IF hand[h].kind = "approve" THEN sheet.dialog ELSE "none"
             r == sheet.reviewed + 1
  <2>6. sheet' = [sheet EXCEPT !.reviewed = r, !.submitting = FALSE, !.list = l, !.at = n,
                               !.dialog = d, !.why = b]
    BY <1>10 DEF Advance, Onward
  <2>7. l \in Seq(Decided) /\ n \in Nat \ {0} /\ b \in BOOLEAN
    BY <2>2, <2>5
  <2>8. d \in {"none", "full", "keep"} /\ r \in Nat
    BY <1>0 DEF Sheet
  <2> HIDE DEF l, n, b, d, r
  <2>3. sheet' \in Sheet
    BY <1>0, <2>6, <2>7, <2>8 DEF Sheet
  <2>4. hand' \in [Hands -> Hand]
    BY <1>0, <1>10, RestingType DEF Advance
  <2> QED
    BY <1>0, <1>10, <2>3, <2>4 DEF Advance, SpotPageTypeOK
<1>11. ASSUME NEW h \in Hands, SpotAlert(h) PROVE SpotPageTypeOK'
  <2>1. sheet' \in Sheet
    BY <1>0, <1>11 DEF SpotAlert, Sheet
  <2>2. hand' \in [Hands -> Hand]
    BY <1>0, <1>11, RestingType DEF SpotAlert
  <2> QED
    BY <1>0, <1>11, <2>1, <2>2 DEF SpotAlert, SpotPageTypeOK
<1>12. ASSUME NEW h \in Hands, Approve(h) \/ Flag(h)
       PROVE  \E kind \in {"approve", "full", "keep"} : Send(h, kind)
  BY <1>0, <1>12 DEF Approve, Flag, Sheet
<1>13. ASSUME UNCHANGED spotPageVars PROVE SpotPageTypeOK'
  BY <1>0, <1>13 DEF spotPageVars, SpotPageTypeOK
<1> QED
  BY <1>1, <1>2, <1>3, <1>4, <1>5, <1>7, <1>8, <1>9, <1>10, <1>11, <1>12, <1>13 DEF SpotPageNext

(* The page goes on by a click whose ship was judged: what it shows next is  *)
(* the list of the click, one further, or the end of all that was dealt.     *)
LEMMA AdvanceHolds ==
  ASSUME PageInv, SpotPageTypeOK', NEW h \in Hands, Advance(h)
  PROVE  SheetHolds' /\ HandsHold'
<1> DEFINE old == hand[h]
           long == old.list \o old.more
           on == old.at < Len(old.list)
<1>0. /\ SpotPageTypeOK /\ SheetHolds /\ HandsHold
      /\ old \in Hand /\ sheet \in Sheet /\ hand \in [Hands -> Hand]
  BY DEF PageInv, SpotPageTypeOK
<1>1. /\ old.list \in Seq(Decided) /\ old.more \in Seq(Decided) /\ old.at \in Nat
      /\ sheet.reviewed \in Nat /\ sheet.at \in Nat /\ sheet.list \in Seq(Decided)
      /\ dealt \in Seq(Decided) /\ Len(dealt) \in Nat /\ Len(old.list) \in Nat
  <2>1. old.list \in Seq(Decided) /\ old.more \in Seq(Decided) /\ old.at \in Nat
    BY <1>0 DEF Hand
  <2>2. sheet.reviewed \in Nat /\ sheet.at \in Nat /\ sheet.list \in Seq(Decided)
    BY <1>0 DEF Sheet
  <2>3. dealt \in Seq(Decided)
    BY <1>0 DEF SpotPageTypeOK
  <2> QED
    BY <2>1, <2>2, <2>3, LenProperties
<1>2. HandHolds(h) /\ old.pc = "answered"
  BY <1>0 DEF Advance, HandsHold
<1>3. /\ dealt' = dealt /\ judged' = judged /\ sheet'.on = "sitting"
      /\ sheet'.reviewed = sheet.reviewed + 1
      /\ sheet'.at = IF on THEN old.at + 1 ELSE 1
      /\ sheet'.list = IF ~on THEN <<>> ELSE IF old.extra > 0 THEN long ELSE sheet.list
      /\ hand' = [hand EXCEPT ![h] = Resting]
  BY <1>0, <1>2 DEF Advance, Onward, Sheet, HandHolds
<1>4. HandsHold'
  <2>1. ASSUME NEW g \in Hands, hand'[g].pc # "idle" PROVE HandHolds(g)'
    <3>1. g # h /\ hand'[g] = hand[g]
      BY <1>0, <1>3, <2>1, RestingType
    <3>2. HandHolds(g)
      BY <1>0, <2>1, <3>1 DEF HandsHold
    <3> QED
      BY <1>0, <1>1, <1>3, <3>1, <3>2, HandFrame
  <2> QED
    BY <2>1 DEF HandsHold
<1>5. \A i \in 1..Len(dealt) : i <= old.at => dealt[i] \in judged
  <2>1. /\ \A i \in 1..Len(dealt) : old.list[i] = dealt[i]
        /\ \A i \in 1..Len(dealt) : i <= old.at - 1 => dealt[i] \in judged
        /\ old.list[old.at] \in judged
    BY <1>2 DEF HandHolds, JudgedUpTo, Continues
  <2> SUFFICES ASSUME NEW i \in 1..Len(dealt), i <= old.at PROVE dealt[i] \in judged
    OBVIOUS
  <2>2. i = old.at \/ i <= old.at - 1
    BY <1>1
  <2> HIDE DEF old
  <2> QED
    BY <2>1, <2>2
<1>6. old.at <= sheet.reviewed + 1
  BY <1>1, <1>2 DEF HandHolds, JudgedUpTo
<1>7. CASE ~on
  <2>1. old.at = Len(old.list)
    BY <1>1, <1>2, <1>7 DEF HandHolds
  <2>2. \A i \in 1..Len(dealt) : dealt[i] \in judged
    BY <1>1, <1>2, <1>5, <2>1 DEF HandHolds, Continues
  <2>3. Len(dealt) <= sheet.reviewed + 1
    BY <1>1, <1>2, <1>6, <2>1 DEF HandHolds, Continues
  <2>4. sheet'.list = <<>> /\ AllJudged'
    BY <1>3, <1>7, <2>2, <2>3 DEF AllJudged
  <2>5. SheetHolds'
    BY <1>3, <2>4 DEF SheetHolds
  <2> QED
    BY <1>4, <2>5
<1>8. CASE on /\ old.extra > 0
  <2>1. Len(long) >= Len(old.list) /\ \A i \in 1..Len(old.list) : long[i] = old.list[i]
    BY <1>1, Joined
  <2>2. sheet'.list = long /\ sheet'.at = old.at + 1
    BY <1>3, <1>8
  <2>6. Len(long) \in Nat
    BY <1>1, ConcatProperties, LenProperties
  <2> HIDE DEF long
  <2>3. Len(dealt) <= Len(long) /\ \A i \in 1..Len(dealt) : long[i] = dealt[i]
    BY <1>1, <1>2, <2>1, <2>6 DEF HandHolds, Continues
  <2>4. sheet'.at - 1 = old.at
    BY <1>1, <2>2
  <2>5. SheetHolds'
    BY <1>3, <1>5, <1>6, <2>2, <2>3, <2>4 DEF SheetHolds, Continues, JudgedUpTo
  <2> QED
    BY <1>4, <2>5
<1>9. CASE on /\ ~(old.extra > 0)
  <2>1. sheet'.list = sheet.list /\ sheet'.at = old.at + 1
    BY <1>3, <1>9
  <2>2. sheet'.at - 1 = old.at
    BY <1>1, <2>1
  <2>3. CASE sheet.list = <<>> /\ AllJudged
    <3>1. AllJudged'
      BY <1>1, <1>3, <2>3 DEF AllJudged
    <3> QED
      BY <1>3, <1>4, <2>1, <2>3, <3>1 DEF SheetHolds
  <2>4. CASE Continues(sheet.list)
    <3>1. SheetHolds'
      BY <1>3, <1>5, <1>6, <2>1, <2>2, <2>4 DEF SheetHolds, Continues, JudgedUpTo
    <3> QED
      BY <1>4, <3>1
  <2> QED
    BY <1>0, <1>2, <2>3, <2>4 DEF SheetHolds, HandHolds
<1> QED
  BY <1>7, <1>8, <1>9

(* A request on its way takes a step of its own: the others stay as they     *)
(* are, and the page does.                                                   *)
LEMMA RequestHolds ==
  ASSUME PageInv, SpotPageTypeOK', NEW h \in Hands, Answered(h) \/ Drawn(h) \/ Thrown(h)
  PROVE  SheetHolds' /\ HandsHold'
<1>0. /\ SpotPageTypeOK /\ SheetHolds /\ HandsHold /\ hand \in [Hands -> Hand]
      /\ sheet \in Sheet /\ hand[h] \in Hand /\ sheet.reviewed \in Nat
  BY DEF PageInv, SpotPageTypeOK, Sheet
<1>1. dealt' = dealt /\ judged \subseteq judged' /\ sheet' = sheet
  BY DEF Answered, Drawn, Thrown
<1>2. hand[h].pc # "idle" /\ HandHolds(h)
  BY <1>0 DEF Answered, Drawn, Thrown, HandsHold
<1>3. \A g \in Hands : g # h => hand'[g] = hand[g]
  BY <1>0 DEF Answered, Drawn, Thrown
<1>4. hand'[h].list = hand[h].list /\ hand'[h].at = hand[h].at
  <2>1. CASE Answered(h)
    <3>1. PICK p \in {"adding", "answered"} : hand' = [hand EXCEPT ![h].pc = p]
      BY <2>1 DEF Answered
    <3> QED
      BY <1>0, <3>1 DEF Hand
  <2>2. CASE Drawn(h)
    <3>1. PICK more \in Draws(hand[h].extra) \cup {<<>>} :
            hand' = [hand EXCEPT ![h].pc = "answered", ![h].more = more]
      BY <2>2 DEF Drawn
    <3> QED
      BY <1>0, <3>1 DEF Hand
  <2>3. CASE Thrown(h)
    BY <1>0, <2>3 DEF Thrown, Hand
  <2> QED
    BY <2>1, <2>2, <2>3
<1>5. hand'[h].pc \in {"adding", "answered"} => hand[h].list[hand[h].at] \in judged'
  <2>1. CASE Answered(h)
    BY <2>1 DEF Answered, Of
  <2>2. CASE Drawn(h)
    BY <1>1, <1>2, <2>2 DEF Drawn, HandHolds
  <2>3. CASE Thrown(h)
    BY <1>0, <2>3 DEF Thrown, Hand
  <2> QED
    BY <2>1, <2>2, <2>3
<1>6. SheetHolds'
  BY <1>0, <1>1, SheetFrame
<1>7. ASSUME NEW g \in Hands, hand'[g].pc # "idle" PROVE HandHolds(g)'
  <2>1. CASE g = h
    <3>1. Continues(hand[h].list) /\ JudgedUpTo(hand[h].at - 1) /\ hand[h].at \in 1..Len(hand[h].list)
      BY <1>2 DEF HandHolds
    <3>2. sheet'.on = "sitting"
      BY <1>1, <1>2 DEF HandHolds
    <3> QED
      BY <1>1, <1>4, <1>5, <2>1, <3>1, <3>2 DEF HandHolds, Continues, JudgedUpTo
  <2>2. CASE g # h
    <3>1. hand'[g] = hand[g] /\ HandHolds(g)
      BY <1>0, <1>3, <1>7, <2>2 DEF HandsHold
    <3>2. sheet'.on = "sitting" /\ sheet.reviewed <= sheet'.reviewed
      BY <1>0, <1>1, <1>2 DEF HandHolds
    <3> QED
      BY <1>0, <1>1, <3>1, <3>2, HandFrame
  <2> QED
    BY <2>1, <2>2
<1> QED
  BY <1>6, <1>7 DEF HandsHold

(* A click works on what is on screen.                                       *)
LEMMA SendHolds ==
  ASSUME PageInv, SpotPageTypeOK', NEW h \in Hands, NEW kind \in {"approve", "full", "keep"},
         Send(h, kind)
  PROVE  SheetHolds' /\ HandsHold'
<1>0. /\ SpotPageTypeOK /\ SheetHolds /\ HandsHold /\ hand \in [Hands -> Hand]
      /\ sheet \in Sheet /\ sheet.reviewed \in Nat /\ sheet.at \in Nat \ {0}
  BY DEF PageInv, SpotPageTypeOK, Sheet
<1>1. /\ dealt' = dealt /\ judged' = judged /\ sheet'.on = sheet.on /\ sheet'.at = sheet.at
      /\ sheet'.list = sheet.list /\ sheet'.reviewed = sheet.reviewed
  BY <1>0 DEF Send, Sheet
<1>2. sheet.on = "sitting" /\ sheet.at <= Len(sheet.list) /\ Len(sheet.list) \in Nat
  BY <1>0, LenProperties DEF Send, OnScreen, Sheet
<1>3. Continues(sheet.list) /\ JudgedUpTo(sheet.at - 1)
  <2>1. sheet.list # <<>>
    BY <1>0, <1>2
  <2> QED
    BY <1>2, <2>1, <1>0 DEF SheetHolds
<1>4. /\ hand'[h].list = sheet.list /\ hand'[h].at = sheet.at /\ hand'[h].pc = "sent"
      /\ \A g \in Hands : g # h => hand'[g] = hand[g]
  BY <1>0 DEF Send, Resting
<1>5. SheetHolds'
  BY <1>0, <1>1, SheetFrame
<1>6. ASSUME NEW g \in Hands, hand'[g].pc # "idle" PROVE HandHolds(g)'
  <2>1. CASE g = h
    <3>1. sheet.at \in 1..Len(sheet.list)
      BY <1>0, <1>2
    <3> QED
      BY <1>1, <1>2, <1>3, <1>4, <2>1, <3>1 DEF HandHolds, Continues, JudgedUpTo
  <2>2. CASE g # h
    <3>1. hand'[g] = hand[g] /\ HandHolds(g)
      BY <1>0, <1>4, <1>6, <2>2 DEF HandsHold
    <3>2. sheet'.on = "sitting" /\ sheet.reviewed <= sheet'.reviewed /\ judged \subseteq judged'
      BY <1>0, <1>1, <1>2
    <3> QED
      BY <1>0, <1>1, <3>1, <3>2, HandFrame
  <2> QED
    BY <2>1, <2>2
<1> QED
  BY <1>5, <1>6 DEF HandsHold

(* An alert ends a request and leaves the page where it is.                  *)
LEMMA AlertHolds ==
  ASSUME PageInv, SpotPageTypeOK', NEW h \in Hands, SpotAlert(h)
  PROVE  SheetHolds' /\ HandsHold'
<1>0. /\ SpotPageTypeOK /\ SheetHolds /\ HandsHold /\ hand \in [Hands -> Hand]
      /\ sheet \in Sheet /\ sheet.reviewed \in Nat
  BY DEF PageInv, SpotPageTypeOK, Sheet
<1>1. /\ dealt' = dealt /\ judged' = judged /\ sheet'.on = sheet.on /\ sheet'.at = sheet.at
      /\ sheet'.list = sheet.list /\ sheet'.reviewed = sheet.reviewed
  BY <1>0 DEF SpotAlert, Sheet
<1>2. hand'[h].pc = "idle" /\ \A g \in Hands : g # h => hand'[g] = hand[g]
  BY <1>0, RestingType DEF SpotAlert
<1>3. SheetHolds'
  BY <1>0, <1>1, SheetFrame
<1>4. ASSUME NEW g \in Hands, hand'[g].pc # "idle" PROVE HandHolds(g)'
  <2>1. hand'[g] = hand[g] /\ HandHolds(g)
    BY <1>0, <1>2, <1>4 DEF HandsHold
  <2>2. sheet'.on = "sitting" /\ sheet.reviewed <= sheet'.reviewed /\ judged \subseteq judged'
    BY <1>0, <1>1, <2>1 DEF HandHolds
  <2> QED
    BY <1>0, <1>1, <2>1, <2>2, HandFrame
<1> QED
  BY <1>3, <1>4 DEF HandsHold

(* Before the list is dealt no request is on its way.                        *)
LEMMA StartHolds ==
  ASSUME PageInv, SpotPageTypeOK', sheet.on # "sitting", hand' = hand, judged' = judged,
         sheet'.at = sheet.at,
         sheet'.on = "sitting" => dealt' = sheet'.list
  PROVE  SheetHolds' /\ HandsHold'
<1>0. /\ SheetHolds /\ HandsHold /\ sheet' \in Sheet /\ dealt' \in Seq(Decided)
  BY DEF PageInv, SpotPageTypeOK
<1>1. sheet'.at = 1 /\ sheet'.reviewed \in Nat
  BY <1>0 DEF SheetHolds, Sheet
<1>2. HandsHold'
  BY <1>0 DEF HandsHold, HandHolds
<1>3. Len(dealt') \in Nat
  BY <1>0, LenProperties
<1>4. SheetHolds'
  BY <1>1, <1>3 DEF SheetHolds, Continues, JudgedUpTo
<1> QED
  BY <1>2, <1>4

LEMMA PageInvHolds == PageInv /\ [SpotPageNext]_spotPageVars => PageInv'
<1> SUFFICES ASSUME PageInv, [SpotPageNext]_spotPageVars PROVE PageInv'
  OBVIOUS
<1>0. SpotPageTypeOK' /\ SpotPageTypeOK /\ SheetHolds /\ HandsHold /\ sheet \in Sheet
  BY TypesHold DEF PageInv, SpotPageTypeOK
<1>1. ASSUME NEW n \in HowMany, NEW extra \in Extras, StartSitting(n, extra)
      PROVE  SheetHolds' /\ HandsHold'
  <2>1. sheet.on # "sitting" /\ hand' = hand /\ judged' = judged
    BY <1>1 DEF StartSitting
  <2>2. sheet'.at = sheet.at /\ sheet'.on = "loading"
    BY <1>0, <1>1 DEF StartSitting, Sheet
  <2> QED
    BY <1>0, <2>1, <2>2, StartHolds
<1>2. ASSUME Started PROVE SheetHolds' /\ HandsHold'
  <2>1. sheet.on # "sitting" /\ hand' = hand /\ judged' = judged
    BY <1>2 DEF Started
  <2>2. sheet'.at = sheet.at /\ dealt' = sheet'.list
    BY <1>0, <1>2 DEF Started, Sheet
  <2> QED
    BY <1>0, <2>1, <2>2, StartHolds
<1>3. ASSUME StartLost PROVE SheetHolds' /\ HandsHold'
  <2>1. sheet.on # "sitting" /\ hand' = hand /\ judged' = judged
    BY <1>3 DEF StartLost
  <2>2. sheet'.at = sheet.at /\ sheet'.on = "setup"
    BY <1>0, <1>3 DEF StartLost, Sheet
  <2> QED
    BY <1>0, <2>1, <2>2, StartHolds
<1>4. ASSUME FlagDialog \/ UNCHANGED spotPageVars PROVE SheetHolds' /\ HandsHold'
  <2>1. /\ dealt' = dealt /\ judged' = judged /\ hand' = hand
        /\ sheet'.on = sheet.on /\ sheet'.at = sheet.at
        /\ sheet'.list = sheet.list /\ sheet'.reviewed = sheet.reviewed /\ sheet.reviewed \in Nat
    BY <1>0, <1>4 DEF FlagDialog, spotPageVars, Sheet
  <2>2. SheetHolds'
    BY <1>0, <2>1, SheetFrame
  <2>3. ASSUME NEW g \in Hands, hand'[g].pc # "idle" PROVE HandHolds(g)'
    <3>1. hand'[g] = hand[g] /\ HandHolds(g)
      BY <1>0, <2>1, <2>3 DEF HandsHold
    <3>2. sheet'.on = "sitting" /\ sheet.reviewed <= sheet'.reviewed /\ judged \subseteq judged'
      BY <2>1, <3>1 DEF HandHolds
    <3> QED
      BY <1>0, <2>1, <3>1, <3>2, HandFrame
  <2> QED
    BY <2>2, <2>3 DEF HandsHold
<1>5. ASSUME NEW h \in Hands, Approve(h) \/ Flag(h) PROVE SheetHolds' /\ HandsHold'
  <2>1. PICK kind \in {"approve", "full", "keep"} : Send(h, kind)
    BY <1>0, <1>5 DEF Approve, Flag, Sheet
  <2> QED
    BY <1>0, <2>1, SendHolds
<1>6. ASSUME NEW h \in Hands, Answered(h) \/ Drawn(h) \/ Thrown(h)
      PROVE  SheetHolds' /\ HandsHold'
  BY <1>0, <1>6, RequestHolds
<1>7. ASSUME NEW h \in Hands, Advance(h) PROVE SheetHolds' /\ HandsHold'
  BY <1>0, <1>7, AdvanceHolds
<1>8. ASSUME NEW h \in Hands, SpotAlert(h) PROVE SheetHolds' /\ HandsHold'
  BY <1>0, <1>8, AlertHolds
<1> QED
  BY <1>0, <1>1, <1>2, <1>3, <1>4, <1>5, <1>6, <1>7, <1>8 DEF SpotPageNext, PageInv

LEMMA PageInvImplies == PageInv => NoShipPassedOver
<1> SUFFICES ASSUME PageInv PROVE NoShipPassedOver
  OBVIOUS
<1>0. /\ SheetHolds /\ sheet.at \in Nat \ {0} /\ sheet.reviewed \in Nat
      /\ sheet.list \in Seq(Decided) /\ dealt \in Seq(Decided)
  BY DEF PageInv, SpotPageTypeOK, Sheet
<1>1. Len(dealt) \in Nat /\ Len(sheet.list) \in Nat
  BY <1>0, LenProperties
<1>2. ASSUME OnScreen, NEW i \in 1..Len(dealt), i < sheet.at
      PROVE  sheet.list[i] = dealt[i] /\ dealt[i] \in judged
  <2>1. Continues(sheet.list) /\ JudgedUpTo(sheet.at - 1)
    BY <1>0, <1>2 DEF OnScreen, SheetHolds
  <2> QED
    BY <1>0, <1>1, <1>2, <2>1 DEF Continues, JudgedUpTo
<1>3. ASSUME Finished
      PROVE  (\A i \in 1..Len(dealt) : dealt[i] \in judged) /\ sheet.reviewed >= Len(dealt)
  <2>1. CASE AllJudged
    BY <1>0, <1>1, <2>1 DEF AllJudged
  <2>2. CASE Continues(sheet.list) /\ JudgedUpTo(sheet.at - 1)
    BY <1>0, <1>1, <1>3, <2>2 DEF Finished, Continues, JudgedUpTo
  <2> QED
    BY <1>0, <1>3, <2>1, <2>2 DEF Finished, SheetHolds
<1>4. ASSUME Finished PROVE Range(dealt) \subseteq judged
  <2>1. DOMAIN dealt = 1..Len(dealt)
    BY <1>0, LenProperties
  <2> QED
    BY <1>3, <1>4, <2>1 DEF Range
<1> QED
  BY <1>2, <1>3, <1>4 DEF NoShipPassedOver

(* The page's state has the types it is drawn from, whatever the answers.    *)
THEOREM SittingTypes == SpotPageSpec => []SpotPageTypeOK
<1>1. PageInv => SpotPageTypeOK
  BY DEF PageInv
<1> QED
  BY SpotPageInitOK, PageInvHolds, <1>1, PTL DEF SpotPageSpec

(* No ship first dealt is passed over in a sitting, and the page does not    *)
(* say that it is done before each was decided on (review.tsx:45-125).       *)
THEOREM NoneIsPassedOver == SpotPageSpec => []NoShipPassedOver
BY SpotPageInitOK, PageInvHolds, PageInvImplies, PTL DEF SpotPageSpec

------------------------------------------------------------------------------
(* The pages of a user and of an assignment                                  *)

(* The columns a control may change.                                         *)
Reach(c) ==
  CASE c = "edit" -> (ProfileColumns \ {"apikey"}) \cup Yubikeys
    [] c = "key" -> {"apikey"}
    [] c = "types" -> {"types"}
    [] c = "status" -> {"status"}
    [] c = "move" -> {"assignee", "status"}

(* What a control asks for; a toggle asks for the opposite of what is shown. *)
Asked(v, c, op, to) ==
  /\ \A f \in Columns : to[f] # AsIs => f \in Reach(c)
  /\ \A k \in Yubikeys : to[k] \in {AsIs, "gone"}
  /\ op = "toggle" => /\ c = "edit" /\ to["active"] = Other(Sees(v, "active"))
                      /\ \A f \in Columns \ {"active"} : to[f] = AsIs
  /\ op = "move" => c = "move"

(* The change of one column.                                                 *)
Only(f, x) == [NoChange EXCEPT ![f] = x]

LEMMA ChangeOf ==
  ASSUME NEW f \in Columns, NEW x \in Values
  PROVE  /\ Only(f, x) \in Changes
         /\ Only(f, x)[f] = x
         /\ \A g \in Columns \ {f} : Only(f, x)[g] = AsIs
  BY DEF NoChange, Changes, Only

LEMMA SightTypes ==
  ASSUME RecordTypeOK, NEW v \in Visits
  PROVE  /\ sight[v].row \in Records /\ sight[v].read \subseteq {"user", "keys"}
         /\ \A f \in Columns : Sees(v, f) \in Values
         /\ filed \in Records
         /\ \A f \in Columns : filed[f] \in Values
         /\ \A c \in Controls : asking[v][c] \in Requests \cup {Quiescent}
  BY DEF RecordTypeOK, Sees, Records

LEMMA EditsPress ==
  ASSUME RecordTypeOK, NEW v \in Visits, Edits(v)
  PROVE  \E c \in Controls, op \in Deeds, to \in Changes :
           Press(v, c, op, to) /\ Asked(v, c, op, to)
<1> DEFINE Goal == \E c \in Controls, op \in Deeds, to \in Changes :
                     Press(v, c, op, to) /\ Asked(v, c, op, to)
<1> SUFFICES Goal
  OBVIOUS
<1> USE DEF Controls, Deeds
<1>0. /\ {"active", "role", "skills", "notes", "apikey", "types", "status", "assignee"} \subseteq Columns
      /\ Yubikeys \subseteq Columns
      /\ {"yes", "no", "gone", "pending", Blank} \subseteq Values
      /\ Lowest \in Values /\ Ranked \subseteq Values /\ Writings \subseteq Values
      /\ Standings \subseteq Values /\ Assignees \subseteq Values
  BY ValuesAssumption DEF Columns, ProfileColumns, AssignedColumns, Values, Standings
<1>1. \A x : Other(x) \in {"yes", "no"}
  BY DEF Other
<1>e. /\ \A x : ActiveTo(x) = Only("active", x)
      /\ \A x : RoleTo(x) = Only("role", x) /\ SkillsTo(x) = Only("skills", x)
      /\ \A x : NotesTo(x) = Only("notes", x) /\ ApiKeyTo(x) = Only("apikey", x)
      /\ \A x : TypesTo(x) = Only("types", x) /\ StatusTo(x) = Only("status", x)
      /\ \A k : KeyGone(k) = Only(k, "gone")
      /\ AccessBack = Only("active", "yes") /\ NoApiKey = Only("apikey", Blank)
  BY DEF Only, ActiveTo, RoleTo, SkillsTo, NotesTo, ApiKeyTo, TypesTo, StatusTo, KeyGone, AccessBack, NoApiKey
<1>g. ASSUME NEW c \in Controls, NEW op \in Deeds, NEW to \in Changes,
             Press(v, c, op, to), Asked(v, c, op, to)
      PROVE  Goal
  BY <1>g
<1>2. ASSUME NEW f \in ProfileColumns \ {"apikey"}, NEW x \in Values, NEW op \in Deeds,
             op # "move", op = "toggle" => f = "active" /\ x = Other(Sees(v, "active"))
      PROVE  Asked(v, "edit", op, Only(f, x))
  <2>1. f \in Columns /\ f \notin Yubikeys
    BY YubikeysAssumption DEF Columns
  <2>2. \A g \in Columns \ {f} : Only(f, x)[g] = AsIs
    BY <2>1, ChangeOf
  <2>3. Only(f, x)[f] = x
    BY <2>1, ChangeOf
  <2> QED
    BY <1>0, <1>2, <2>1, <2>2, <2>3 DEF Asked, Reach
<1>3. CASE FlipActive(v)
  <2>1. ActiveTo(Other(Sees(v, "active"))) \in Changes
    BY <1>0, <1>1, ChangeOf, <1>e
  <2>2. Asked(v, "edit", "toggle", ActiveTo(Other(Sees(v, "active"))))
    BY <1>0, <1>1, <1>2, <1>e DEF ProfileColumns
  <2> QED
    BY <1>g, <1>3, <2>1, <2>2 DEF FlipActive
<1>4. CASE YoinkThem(v)
  <2>1. AllGone \in Changes
    BY <1>0 DEF AllGone, Changes
  <2>2. Asked(v, "edit", "yoink", AllGone)
    BY <1>0 DEF Asked, AllGone, Reach, ProfileColumns
  <2> QED
    BY <1>g, <1>4, <2>1, <2>2 DEF YoinkThem
<1>5. CASE BringBack(v)
  <2>1. AccessBack \in Changes
    BY <1>0, ChangeOf, <1>e
  <2>2. Asked(v, "edit", "unyoink", AccessBack)
    BY <1>0, <1>2, <1>e DEF ProfileColumns
  <2> QED
    BY <1>g, <1>5, <2>1, <2>2 DEF BringBack
<1>6. ASSUME NEW x \in Values, NEW op \in Deeds, op \notin {"toggle", "move"}, NEW c \in {"key", "types", "status"},
             NEW f \in Reach(c)
      PROVE  Asked(v, c, op, Only(f, x))
  <2>1. f \in Columns /\ f \notin Yubikeys
    BY <1>0, YubikeysAssumption DEF Reach, ProfileColumns, AssignedColumns
  <2>2. \A g \in Columns \ {f} : Only(f, x)[g] = AsIs
    BY <2>1, ChangeOf
  <2> QED
    BY <1>0, <1>6, <2>1, <2>2 DEF Asked
<1>7. CASE RevokeKey(v)
  <2>1. NoApiKey \in Changes
    BY <1>0, ChangeOf, <1>e
  <2>2. Asked(v, "key", "revoke", NoApiKey)
    BY <1>0, <1>6, <1>e DEF Reach
  <2> QED
    BY <1>g, <1>7, <2>1, <2>2 DEF RevokeKey
<1>8. ASSUME NEW role \in Ranked, Grant(v, role) PROVE Goal
  <2>1. RoleTo(role) \in Changes
    BY <1>0, ChangeOf, <1>e
  <2>2. Asked(v, "edit", "grant", RoleTo(role))
    BY <1>0, <1>2, <1>e DEF ProfileColumns
  <2> QED
    BY <1>g, <1>8, <2>1, <2>2 DEF Grant
<1>9. ASSUME NEW k \in Yubikeys, RemoveKey(v, k) PROVE Goal
  <2>1. KeyGone(k) \in Changes
    BY <1>0, ChangeOf, <1>e
  <2>2. Asked(v, "edit", "remove", KeyGone(k))
    <3>1. \A g \in Columns \ {k} : KeyGone(k)[g] = AsIs
      BY <1>0, ChangeOf, <1>e
    <3>2. KeyGone(k)[k] = "gone"
      BY <1>0, ChangeOf, <1>e
    <3> QED
      BY <1>0, <3>1, <3>2 DEF Asked, Reach
  <2> QED
    BY <1>g, <1>9, <2>1, <2>2 DEF RemoveKey
<1>10. ASSUME NEW x \in Writings \cup {Blank}, SaveSkills(v, x) \/ SaveNotes(v, x)
       PROVE Goal
  <2>1. SkillsTo(x) \in Changes /\ NotesTo(x) \in Changes
    BY <1>0, ChangeOf, <1>e
  <2>2. Asked(v, "edit", "skills", SkillsTo(x)) /\ Asked(v, "edit", "notes", NotesTo(x))
    BY <1>0, <1>2, <1>e DEF ProfileColumns
  <2> QED
    BY <1>g, <1>10, <2>1, <2>2 DEF SaveSkills, SaveNotes
<1>11. ASSUME NEW x \in Writings, RollKey(v, x) \/ SaveTypes(v, x)
       PROVE Goal
  <2>1. ApiKeyTo(x) \in Changes /\ TypesTo(x) \in Changes
    BY <1>0, ChangeOf, <1>e
  <2>2. Asked(v, "key", "roll", ApiKeyTo(x)) /\ Asked(v, "types", "types", TypesTo(x))
    BY <1>0, <1>6, <1>e DEF Reach
  <2> QED
    BY <1>g, <1>11, <2>1, <2>2 DEF RollKey, SaveTypes
<1>12. ASSUME NEW s \in Standings, Update(v, s) PROVE Goal
  <2>1. StatusTo(s) \in Changes
    BY <1>0, ChangeOf, <1>e
  <2>2. Asked(v, "status", "status", StatusTo(s))
    BY <1>0, <1>6, <1>e DEF Reach
  <2> QED
    BY <1>g, <1>12, <2>1, <2>2 DEF Update
<1>13. ASSUME NEW a \in Assignees, MoveTo(v, a) PROVE Goal
  <2>1. HandedTo(a) = [f \in Columns |-> IF f = "status" THEN "pending" ELSE IF f = "assignee" THEN a ELSE AsIs]
    BY <1>0 DEF HandedTo, NoChange
  <2>2. HandedTo(a) \in Changes
    BY <1>0, <2>1 DEF Changes
  <2>3. Asked(v, "move", "move", HandedTo(a))
    BY <1>0, <2>1, YubikeysAssumption DEF Asked, Reach, AssignedColumns
  <2> QED
    BY <1>g, <1>13, <2>2, <2>3 DEF MoveTo
<1> QED
  BY <1>3, <1>4, <1>5, <1>7, <1>8, <1>9, <1>10, <1>11, <1>12, <1>13 DEF Edits

LEMMA CarriedTypes ==
  ASSUME NEW row \in Records, NEW to \in Changes
  PROVE  With(row, to) \in Records
  BY ValuesAssumption DEF With, Records, Changes

LEMMA CarriedOne ==
  ASSUME NEW row \in Records, NEW to \in Changes, NEW f \in Columns
  PROVE  /\ to[f] = AsIs => With(row, to)[f] = row[f]
         /\ f \in Yubikeys => With(row, to)[f] \in {row[f], to[f]}
         /\ f \in Yubikeys /\ to[f] = "gone" => With(row, to)[f] # "there"
         /\ f \notin Yubikeys /\ to[f] # AsIs => With(row, to)[f] = to[f]
<1>1. "gone" # AsIs
  BY ValuesAssumption DEF Values
<1>2. With(row, to)[f] = IF to[f] # AsIs /\ (f \in Yubikeys => row[f] = "there")
                          THEN to[f] ELSE row[f]
  BY DEF With
<1> QED
  BY <1>1, <1>2

LEMMA ShownHow ==
  ASSUME NEW v, NEW r
  PROVE  /\ r.op = "toggle" => ShownAfter(v, r) = [sight[v].row EXCEPT !["active"] = Other(@)]
         /\ r.op = "move" => ShownAfter(v, r) = [g \in Columns |-> IF g \in AssignedColumns THEN r.back[g] ELSE Sees(v, g)]
         /\ r.op \notin {"toggle", "move"} => ShownAfter(v, r) = With(sight[v].row, r.to)
  BY Zenon DEF ShownAfter

LEMMA ShownMoved ==
  ASSUME NEW v, NEW r, r.op = "move", NEW f \in Columns
  PROVE  ShownAfter(v, r)[f] = IF f \in AssignedColumns THEN r.back[f] ELSE Sees(v, f)
<1>1. ShownAfter(v, r) = [g \in Columns |-> IF g \in AssignedColumns THEN r.back[g] ELSE Sees(v, g)]
  BY ShownHow, ZenonT(40)
<1> QED
  BY <1>1 DEF Sees

LEMMA ShownTypes ==
  ASSUME RecordTypeOK, NEW v \in Visits, NEW r \in Requests
  PROVE  ShownAfter(v, r) \in Records
<1>1. sight[v].row \in Records /\ \A f \in Columns : Sees(v, f) \in Values
  BY SightTypes
<1>2. r.to \in Changes /\ r.back \in Records
  BY DEF Requests
<1>3. With(sight[v].row, r.to) \in Records
  BY <1>1, <1>2, CarriedTypes
<1>4. \A x : Other(x) \in Values
  BY DEF Other, Values
<1>5. [sight[v].row EXCEPT !["active"] = Other(@)] \in Records
  BY <1>1, <1>4 DEF Records
<1>6. [f \in Columns |-> IF f \in AssignedColumns THEN r.back[f] ELSE Sees(v, f)] \in Records
  BY <1>1, <1>2 DEF Records
<1> QED
  BY <1>3, <1>5, <1>6 DEF ShownAfter

LEMMA LoadingTypes ==
  ASSUME NEW l \in Loadings, NEW n \in Nat, NEW b \in BOOLEAN
  PROVE  /\ LogBegun(l, n, b) \in Loadings
         /\ l.asked > 0 => LogServed(l, n) \in Loadings
         /\ l.asked > 0 => LogLost(l) \in Loadings
         /\ LogShown(l, n) \in Loadings
<1>1. (l.late \/ b) \in BOOLEAN
  BY DEF Loadings
<1>2. l.asked + 1 \in Nat /\ (l.asked > 0 => l.asked - 1 \in Nat)
  BY DEF Loadings
<1>3. l.answers \cup {n} \in SUBSET Nat /\ l.answers \ {n} \in SUBSET Nat
  BY DEF Loadings
<1>4. LogBegun(l, n, b) \in Loadings
  BY <1>1, <1>2 DEF Loadings, LogBegun
<1>5. l.asked > 0 => LogServed(l, n) \in Loadings
  BY <1>2, <1>3 DEF Loadings, LogServed
<1>6. l.asked > 0 => LogLost(l) \in Loadings
  BY <1>2 DEF Loadings, LogLost
<1>7. LogShown(l, n) \in Loadings
  BY <1>3 DEF Loadings, LogShown
<1> QED
  BY <1>4, <1>5, <1>6, <1>7

LEMMA RecordTypeFirst == RecordInit => RecordTypeOK
<1> SUFFICES ASSUME RecordInit PROVE RecordTypeOK
  OBVIOUS
<1>1. \A there \in SUBSET Yubikeys : FirstRow(there) \in Records
  BY ValuesAssumption DEF FirstRow, Records, Values, Standings
<1>2. filed \in Records
  BY <1>1 DEF RecordInit
<1> QED
  BY <1>2 DEF RecordInit, RecordTypeOK, Loadings

LEMMA RecordTypeStep == RecordTypeOK /\ [RecordNext]_recordVars => RecordTypeOK'
<1> SUFFICES ASSUME RecordTypeOK, [RecordNext]_recordVars PROVE RecordTypeOK'
  OBVIOUS
<1> USE DEF RecordTypeOK
<1>1. ASSUME NEW v \in Visits, NEW query \in Queries, ReadFor(v, query) PROVE RecordTypeOK'
  <2>1. query \in {"user", "keys"}
    BY <1>1 DEF Queries
  <2>2. [f \in Columns |-> IF f \in Selects(query) THEN filed[f] ELSE sight[v].row[f]] \in Records
    BY <1>1 DEF Records
  <2>3. sight' \in [Visits -> [read : SUBSET {"user", "keys"}, row : Records]]
    BY <1>1, <2>1, <2>2 DEF ReadFor
  <2> QED
    BY <1>1, <2>3 DEF ReadFor
<1>2. ASSUME NEW v \in Visits, Edits(v) PROVE RecordTypeOK'
  <2>1. PICK c \in Controls, op \in Deeds, to \in Changes : Press(v, c, op, to)
    BY <1>2, EditsPress
  <2>2. [f \in Columns |-> Blank] \in Records
    BY DEF Records, Values
  <2>3. [pc |-> "sent", op |-> op, to |-> to, at |-> 0, back |-> [f \in Columns |-> Blank]] \in Requests
    BY <2>2 DEF Requests
  <2>4. asking' \in [Visits -> [Controls -> Requests \cup {Quiescent}]]
    BY <2>1, <2>3 DEF Press
  <2> QED
    BY <2>1, <2>4 DEF Press
<1>3. ASSUME NEW v \in Visits, NEW c \in Controls, Carry(v, c) PROVE RecordTypeOK'
  <2>1. asking[v][c] \in Requests
    BY <1>3 DEF Carry, Quiescent
  <2>2. filed' \in Records
    BY <1>3, <2>1, CarriedTypes DEF Carry, Requests
  <2>3. [asking[v][c] EXCEPT !.pc = "written", !.back = filed'] \in Requests
    BY <2>1, <2>2 DEF Requests
  <2>4. asking' \in [Visits -> [Controls -> Requests \cup {Quiescent}]]
    BY <1>3, <2>3 DEF Carry
  <2>5. knows' \in [Columns -> SUBSET Visits]
    BY <1>3 DEF Carry
  <2> QED
    BY <1>3, <2>2, <2>4, <2>5 DEF Carry
<1>4. ASSUME NEW v \in Visits, NEW c \in Controls, Enter(v, c) PROVE RecordTypeOK'
  <2>1. asking[v][c] \in Requests
    BY <1>4 DEF Enter, Quiescent
  <2>2. trail' \in Nat
    BY <1>4 DEF Enter
  <2>3. [asking[v][c] EXCEPT !.pc = "ok", !.at = trail'] \in Requests
    BY <2>1, <2>2 DEF Requests
  <2>4. asking' \in [Visits -> [Controls -> Requests \cup {Quiescent}]]
    BY <1>4, <2>3 DEF Enter
  <2> QED
    BY <1>4, <2>2, <2>4 DEF Enter
<1>5. ASSUME NEW v \in Visits, NEW c \in Controls, TakeIn(v, c) PROVE RecordTypeOK'
  <2>1. asking[v][c] \in Requests
    BY <1>5 DEF TakeIn, Quiescent
  <2>2. ShownAfter(v, asking[v][c]) \in Records
    BY <2>1, ShownTypes
  <2>3. sight' \in [Visits -> [read : SUBSET {"user", "keys"}, row : Records]]
    BY SMTT(30), <1>5, <2>2 DEF TakeIn
  <2>4. asking' \in [Visits -> [Controls -> Requests \cup {Quiescent}]]
    BY <1>5 DEF TakeIn
  <2>5. asking[v][c].at \in Nat
    BY <2>1 DEF Requests
  <2>6. Looking(v) \in BOOLEAN
    BY DEF Looking
  <2> DEFINE l == LogBegun(logging[v], asking[v][c].at, Looking(v))
  <2>7. l \in Loadings
    BY <2>5, <2>6, LoadingTypes
  <2>8. logging' = [logging EXCEPT ![v] = l] \/ logging' = logging
    BY <1>5 DEF TakeIn
  <2> HIDE DEF l
  <2>9. logging' \in [Visits -> Loadings]
    BY <2>7, <2>8
  <2> QED
    BY <1>5, <2>3, <2>4, <2>9 DEF TakeIn
<1>6. ASSUME NEW v \in Visits, NEW c \in Controls, Unheard(v, c) PROVE RecordTypeOK'
  <2>1. asking' \in [Visits -> [Controls -> Requests \cup {Quiescent}]]
    BY <1>6 DEF Unheard
  <2> QED
    BY <1>6, <2>1 DEF Unheard
<1>7. ASSUME NEW v \in Visits, ServeLog(v) PROVE RecordTypeOK'
  <2> DEFINE l == LogServed(logging[v], trail)
  <2>1. l \in Loadings
    BY <1>7, LoadingTypes DEF ServeLog
  <2>2. logging' = [logging EXCEPT ![v] = l]
    BY <1>7 DEF ServeLog
  <2> HIDE DEF l
  <2>3. logging' \in [Visits -> Loadings]
    BY <2>1, <2>2
  <2> QED
    BY <1>7, <2>3 DEF ServeLog
<1>8. ASSUME NEW v \in Visits, FailLog(v) PROVE RecordTypeOK'
  <2> DEFINE l == LogLost(logging[v])
  <2>1. l \in Loadings
    BY <1>8, LoadingTypes DEF FailLog
  <2>2. logging' = [logging EXCEPT ![v] = l]
    BY <1>8 DEF FailLog
  <2> HIDE DEF l
  <2>3. logging' \in [Visits -> Loadings]
    BY <2>1, <2>2
  <2> QED
    BY <1>8, <2>3 DEF FailLog
<1>9. ASSUME NEW v \in Visits, NEW n \in logging[v].answers, ShowLog(v, n) PROVE RecordTypeOK'
  <2> DEFINE l == LogShown(logging[v], n)
  <2>1. l \in Loadings
    <3>1. n \in Nat
      BY DEF Loadings
    <3> QED
      BY <3>1, LoadingTypes
  <2>2. logging' = [logging EXCEPT ![v] = l]
    BY <1>9 DEF ShowLog
  <2> HIDE DEF l
  <2>3. logging' \in [Visits -> Loadings]
    BY <2>1, <2>2
  <2> QED
    BY <1>9, <2>3 DEF ShowLog
<1>10. ASSUME NEW f \in Columns, ChangedElsewhere(f) PROVE RecordTypeOK'
  <2>1. Becomes(f) \subseteq Values
    BY DEF Becomes, Values
  <2>2. filed' \in Records
    BY <1>10, <2>1 DEF ChangedElsewhere, Records
  <2> QED
    BY <1>10, <2>2 DEF ChangedElsewhere
<1>11. CASE UNCHANGED recordVars
  BY <1>11 DEF recordVars
<1> QED
  BY <1>1, <1>2, <1>3, <1>4, <1>5, <1>6, <1>7, <1>8, <1>9, <1>10, <1>11 DEF RecordNext

(* Logs loaded one at a time show what the page's last change left there.    *)
LogIsNear(l, last) ==
  /\ l.own \leq last
  /\ \/ l.late
     \/ l.asked = 0 /\ l.answers = {} /\ l.shows \geq l.own
     \/ l.asked = 1 /\ l.answers = {}
     \/ l.asked = 0 /\ \E n \in Nat : l.answers = {n} /\ n \geq l.own

LogsAreNear ==
  \A v \in Visits :
    /\ LogIsNear(logging[v], trail)
    /\ \A c \in Controls : Awaits(v, c) => asking[v][c].at \leq trail

LEMMA ZeroIsNear ==
  ASSUME NEW l, l.asked = 0, l.answers = {}, l.shows = 0, l.own = 0
  PROVE  LogIsNear(l, 0)
<1>1. l.own \leq 0 /\ l.asked = 0 /\ l.answers = {} /\ l.shows \geq l.own
  OBVIOUS
<1> QED
  BY <1>1, Zenon DEF LogIsNear

LEMMA LogKept ==
  ASSUME NEW l \in Loadings, NEW last \in Nat, LogIsNear(l, last), NEW n \in Nat
  PROVE  /\ n \geq last => LogIsNear(l, n)
         /\ n \leq last => LogIsNear(LogBegun(l, n, l.asked > 0 \/ l.answers # {}), last)
         /\ l.asked > 0 => LogIsNear(LogServed(l, last), last)
         /\ l.asked > 0 => LogIsNear(LogLost(l), last)
         /\ n \in l.answers => LogIsNear(LogShown(l, n), last)
<1>0. /\ l = [asked |-> l.asked, answers |-> l.answers, shows |-> l.shows, own |-> l.own, late |-> l.late]
      /\ l.asked \in Nat /\ l.own \in Nat /\ l.shows \in Nat /\ l.answers \subseteq Nat /\ l.late \in BOOLEAN
  BY DEF Loadings
<1>1. n \geq last => LogIsNear(l, n)
  BY <1>0 DEF LogIsNear
<1>2. ASSUME n \leq last
      PROVE  LogIsNear(LogBegun(l, n, l.asked > 0 \/ l.answers # {}), last)
  <2> DEFINE m == LogBegun(l, n, l.asked > 0 \/ l.answers # {})
  <2>1. m.asked = l.asked + 1 /\ m.answers = l.answers /\ m.own = n
    BY <1>0 DEF LogBegun
  <2>2. m.late = (l.late \/ (l.asked > 0 \/ l.answers # {}))
    BY <1>0 DEF LogBegun
  <2> HIDE DEF m
  <2>3. m.late \/ (l.asked = 0 /\ l.answers = {})
    <3>1. CASE l.asked > 0 \/ l.answers # {}
      BY <2>2, <3>1, Zenon
    <3>2. CASE ~(l.asked > 0 \/ l.answers # {})
      BY <1>0, <3>2
    <3> QED
      BY <3>1, <3>2
  <2> QED
    BY <1>0, <1>2, <2>1, <2>3 DEF LogIsNear, m
<1>3. ASSUME l.asked > 0 PROVE LogIsNear(LogServed(l, last), last)
  <2> DEFINE m == LogServed(l, last)
  <2>1. m.asked = l.asked - 1 /\ m.answers = l.answers \cup {last} /\ m.own = l.own /\ m.late = l.late
    BY <1>0 DEF LogServed
  <2> HIDE DEF m
  <2>2. l.late \/ (l.asked = 1 /\ l.answers = {})
    BY <1>0, <1>3 DEF LogIsNear
  <2>3. m.late \/ (m.asked = 0 /\ m.answers = {last} /\ last \geq m.own)
    BY <1>0, <2>1, <2>2 DEF LogIsNear
  <2> QED
    BY <1>0, <2>1, <2>3 DEF LogIsNear, m
<1>4. ASSUME l.asked > 0 PROVE LogIsNear(LogLost(l), last)
  BY <1>0 DEF LogIsNear, LogLost
<1>5. ASSUME n \in l.answers PROVE LogIsNear(LogShown(l, n), last)
  <2> DEFINE m == LogShown(l, n)
  <2>1. m.asked = l.asked /\ m.answers = l.answers \ {n} /\ m.own = l.own /\ m.late = l.late /\ m.shows = n
    BY <1>0 DEF LogShown
  <2> HIDE DEF m
  <2>2. l.late \/ (l.asked = 0 /\ l.answers = {n} /\ n \geq l.own)
    BY <1>0, <1>5 DEF LogIsNear
  <2>3. m.late \/ (m.asked = 0 /\ m.answers = {} /\ m.shows \geq m.own)
    BY <1>0, <2>1, <2>2
  <2> QED
    BY <1>0, <2>1, <2>3 DEF LogIsNear, m
<1> QED
  BY <1>1, <1>2, <1>3, <1>4, <1>5

LEMMA LogsStep ==
  RecordTypeOK /\ LogsAreNear /\ [RecordNext]_recordVars => LogsAreNear'
<1> SUFFICES ASSUME RecordTypeOK, LogsAreNear, [RecordNext]_recordVars,
                    NEW w \in Visits
             PROVE  (/\ LogIsNear(logging[w], trail)
                     /\ \A c \in Controls : Awaits(w, c) => asking[w][c].at \leq trail)'
  BY DEF LogsAreNear
<1> DEFINE Goal == /\ LogIsNear(logging'[w], trail')
                   /\ \A c \in Controls : asking'[w][c].pc # "none" => asking'[w][c].at \leq trail'
<1> SUFFICES Goal
  BY DEF Awaits
<1>0. /\ LogIsNear(logging[w], trail) /\ logging[w] \in Loadings /\ trail \in Nat
      /\ \A c \in Controls : asking[w][c].pc # "none" => asking[w][c].at \leq trail
      /\ \A v \in Visits, c \in Controls : asking[v][c] \in Requests \cup {Quiescent}
  BY DEF LogsAreNear, RecordTypeOK, Awaits
<1>t. /\ logging \in [Visits -> Loadings]
      /\ asking \in [Visits -> [Controls -> Requests \cup {Quiescent}]]
  BY DEF RecordTypeOK
<1>1. ASSUME NEW v \in Visits, NEW query \in Queries, ReadFor(v, query) PROVE Goal
  BY <1>0, <1>1 DEF ReadFor
<1>2. ASSUME NEW v \in Visits, Edits(v) PROVE Goal
  <2>1. PICK c \in Controls, op \in Deeds, to \in Changes : Press(v, c, op, to)
    BY <1>2, EditsPress
  <2> QED
    BY <1>0, <1>t, <2>1 DEF Press
<1>3. ASSUME NEW v \in Visits, NEW c \in Controls, Carry(v, c) PROVE Goal
  <2>1. asking[v][c] \in Requests
    BY <1>0, <1>3 DEF Carry, Quiescent
  <2>2. asking'[v][c].at = asking[v][c].at
    BY <1>3, <1>t, <2>1 DEF Carry, Requests
  <2>3. \A u \in Visits, d \in Controls : u # v \/ d # c => asking'[u][d] = asking[u][d]
    BY <1>3, <1>t DEF Carry
  <2>4. asking[v][c].pc # "none"
    BY <1>3 DEF Carry
  <2> QED
    BY <1>0, <1>3, <2>2, <2>3, <2>4 DEF Carry
<1>4. ASSUME NEW v \in Visits, NEW c \in Controls, Enter(v, c) PROVE Goal
  <2>1. asking[v][c] \in Requests
    BY <1>0, <1>4 DEF Enter, Quiescent
  <2>2. asking'[v][c].at = trail'
    BY <1>4, <1>t, <2>1 DEF Enter, Requests
  <2>3. \A u \in Visits, d \in Controls : u # v \/ d # c => asking'[u][d] = asking[u][d]
    BY <1>4, <1>t DEF Enter
  <2>4. trail' \in Nat /\ trail' \geq trail
    BY <1>0, <1>4 DEF Enter
  <2>5. LogIsNear(logging[w], trail')
    BY <1>0, <2>4, LogKept
  <2>6. \A u \in Visits, d \in Controls : asking[u][d].pc # "none" => asking[u][d].at \in Nat
    BY <1>0 DEF Requests, Quiescent
  <2> QED
    BY <1>0, <1>4, <2>2, <2>3, <2>4, <2>5, <2>6 DEF Enter
<1>5. ASSUME NEW v \in Visits, NEW c \in Controls, TakeIn(v, c) PROVE Goal
  <2>1. asking[v][c] \in Requests
    BY <1>0, <1>5 DEF TakeIn, Quiescent
  <2>2. \A u \in Visits, d \in Controls : asking'[u][d] = asking[u][d] \/ asking'[u][d].pc = "none"
    BY <1>5, <1>t DEF TakeIn, Quiescent
  <2>3. asking[v][c].at \in Nat
    BY <2>1 DEF Requests
  <2>4. CASE v = w
    <3> DEFINE l == LogBegun(logging[w], asking[w][c].at, logging[w].asked > 0 \/ logging[w].answers # {})
    <3>1. asking[w][c].at \leq trail
      BY <1>0, <1>5, <2>4 DEF TakeIn
    <3>2. LogIsNear(l, trail)
      BY <1>0, <2>3, <2>4, <3>1, LogKept
    <3>3. logging' = [logging EXCEPT ![w] = l] \/ logging' = logging
      BY <1>5, <2>4 DEF TakeIn, Looking
    <3> HIDE DEF l
    <3>4. logging'[w] = l \/ logging'[w] = logging[w]
      BY <1>t, <3>3
    <3> QED
      BY <1>0, <1>5, <2>2, <3>2, <3>4 DEF TakeIn
  <2>5. CASE v # w
    <3>1. logging'[w] = logging[w]
      BY <1>5, <1>t, <2>5 DEF TakeIn
    <3> QED
      BY <1>0, <1>5, <2>2, <3>1 DEF TakeIn
  <2> QED
    BY <2>4, <2>5
<1>6. ASSUME NEW v \in Visits, NEW c \in Controls, Unheard(v, c) PROVE Goal
  <2>1. \A u \in Visits, d \in Controls : asking'[u][d] = asking[u][d] \/ asking'[u][d].pc = "none"
    BY <1>6, <1>t DEF Unheard, Quiescent
  <2> QED
    BY <1>0, <1>6, <2>1 DEF Unheard
<1>7. ASSUME NEW v \in Visits, ServeLog(v) PROVE Goal
  <2> DEFINE l == LogServed(logging[v], trail)
  <2>1. v = w => LogIsNear(l, trail)
    BY <1>0, <1>7, LogKept DEF ServeLog
  <2>2. logging' = [logging EXCEPT ![v] = l]
    BY <1>7 DEF ServeLog
  <2> HIDE DEF l
  <2>3. logging'[w] = IF v = w THEN l ELSE logging[w]
    BY <1>t, <2>2
  <2> QED
    BY <1>0, <1>7, <2>1, <2>3 DEF ServeLog
<1>8. ASSUME NEW v \in Visits, FailLog(v) PROVE Goal
  <2> DEFINE l == LogLost(logging[v])
  <2>1. v = w => LogIsNear(l, trail)
    BY <1>0, <1>8, LogKept DEF FailLog
  <2>2. logging' = [logging EXCEPT ![v] = l]
    BY <1>8 DEF FailLog
  <2> HIDE DEF l
  <2>3. logging'[w] = IF v = w THEN l ELSE logging[w]
    BY <1>t, <2>2
  <2> QED
    BY <1>0, <1>8, <2>1, <2>3 DEF FailLog
<1>9. ASSUME NEW v \in Visits, NEW n \in logging[v].answers, ShowLog(v, n) PROVE Goal
  <2> DEFINE l == LogShown(logging[v], n)
  <2>0. n \in Nat
    BY <1>t DEF Loadings
  <2>1. v = w => LogIsNear(l, trail)
    BY <1>0, <2>0, LogKept
  <2>2. logging' = [logging EXCEPT ![v] = l]
    BY <1>9 DEF ShowLog
  <2> HIDE DEF l
  <2>3. logging'[w] = IF v = w THEN l ELSE logging[w]
    BY <1>t, <2>2
  <2> QED
    BY <1>0, <1>9, <2>1, <2>3 DEF ShowLog
<1>10. ASSUME NEW f \in Columns, ChangedElsewhere(f) PROVE Goal
  BY <1>0, <1>10 DEF ChangedElsewhere
<1>11. CASE UNCHANGED recordVars
  BY <1>0, <1>11 DEF recordVars
<1> QED
  BY <1>1, <1>2, <1>3, <1>4, <1>5, <1>6, <1>7, <1>8, <1>9, <1>10, <1>11 DEF RecordNext

(* A request is made on a page all of which was read.                        *)
RequestsAreAsked ==
  \A v \in Visits, c \in Controls : Awaits(v, c) =>
    AllRead(v) /\ Asked(v, c, asking[v][c].op, asking[v][c].to)

(* A reassignment that met no other request of its page is alone.            *)
MovesAreAlone ==
  \A v \in Visits \ tangled : Awaits(v, "move") =>
    \A c \in Controls \ {"move"} : ~Awaits(v, c)

(* What an answer still to be shown puts on the page is what the row has.    *)
Foretells(r, f, x) ==
  r.pc \in {"written", "ok"} =>
    /\ r.to[f] # AsIs => Same(f, r.to[f], x)
    /\ r.op = "move" /\ f \in AssignedColumns => r.back[f] = x

Erred(f) == IF f = "apikey" THEN "untold" ELSE "told"

KnownIsShown ==
  \A v \in Visits \ tangled, f \in Columns : v \in knows[f] =>
    /\ OnItsWay(v, f) \/ Erred(f) \in failed[v] \/ Same(f, Sees(v, f), filed[f])
    /\ \A c \in Controls : Foretells(asking[v][c], f, filed[f])

RecordInv ==
  RecordTypeOK /\ LogsAreNear /\ RequestsAreAsked /\ MovesAreAlone /\ KnownIsShown

(* Two controls that may change one column are the standing and the move.    *)
LEMMA ReachesApart ==
  ASSUME NEW c \in Controls, NEW d \in Controls, c # d,
         NEW f, f \in Reach(c), f \in Reach(d)
  PROVE  c = "move" \/ d = "move"
  BY YubikeysAssumption DEF Controls, Reach, ProfileColumns, AssignedColumns

LEMMA RequestsStep ==
  RecordInv /\ [RecordNext]_recordVars => RequestsAreAsked'
<1> SUFFICES ASSUME RecordInv, [RecordNext]_recordVars,
                    NEW w \in Visits, NEW d \in Controls, Awaits(w, d)'
             PROVE  (AllRead(w) /\ Asked(w, d, asking[w][d].op, asking[w][d].to))'
  BY DEF RequestsAreAsked
<1> DEFINE Goal == (AllRead(w) /\ Asked(w, d, asking[w][d].op, asking[w][d].to))'
<1>0. RecordTypeOK /\ RequestsAreAsked
  BY DEF RecordInv
<1>t. /\ asking \in [Visits -> [Controls -> Requests \cup {Quiescent}]]
      /\ sight \in [Visits -> [read : SUBSET {"user", "keys"}, row : Records]]
      /\ asking[w][d] \in Requests \cup {Quiescent}
  BY <1>0 DEF RecordTypeOK
(* A step that leaves the request, what is read and the shown state.         *)
<1>k. ASSUME Awaits(w, d), asking'[w][d].op = asking[w][d].op, asking'[w][d].to = asking[w][d].to,
             sight'[w].read = sight[w].read, surface' = surface,
             d = "edit" => sight'[w].row["active"] = sight[w].row["active"]
      PROVE  Goal
  <2>1. AllRead(w) /\ Asked(w, d, asking[w][d].op, asking[w][d].to)
    BY <1>0, <1>k DEF RequestsAreAsked
  <2> QED
    BY <1>k, <2>1 DEF AllRead, Queries, Profile, Asked, Sees
<1>1. ASSUME NEW v \in Visits, NEW query \in Queries, ReadFor(v, query) PROVE Goal
  <2>1. ~AllRead(v)
    BY <1>1 DEF ReadFor, AllRead
  <2>2. Awaits(w, d)
    BY <1>1 DEF ReadFor, Awaits
  <2>3. v # w
    BY <1>0, <2>1, <2>2 DEF RequestsAreAsked
  <2>4. sight'[w] = sight[w]
    BY <1>1, <1>t, <2>3 DEF ReadFor
  <2> QED
    BY <1>1, <1>k, <2>2, <2>4 DEF ReadFor
<1>2. ASSUME NEW v \in Visits, Edits(v) PROVE Goal
  <2>1. PICK c \in Controls, op \in Deeds, to \in Changes : Press(v, c, op, to) /\ Asked(v, c, op, to)
    BY <1>0, <1>2, EditsPress
  <2>2. CASE v = w /\ c = d
    <3>1. asking'[w][d].op = op /\ asking'[w][d].to = to
      BY <1>t, <2>1, <2>2 DEF Press
    <3>2. AllRead(w) /\ sight' = sight /\ surface' = surface
      BY <2>1, <2>2 DEF Press, Usable
    <3> QED
      BY <2>1, <2>2, <3>1, <3>2 DEF AllRead, Queries, Profile, Asked, Sees
  <2>3. CASE ~(v = w /\ c = d)
    <3>1. asking'[w][d] = asking[w][d] /\ sight' = sight /\ surface' = surface
      BY <1>t, <2>1, <2>3 DEF Press
    <3>2. Awaits(w, d)
      BY <3>1 DEF Awaits
    <3> QED
      BY <1>k, <3>1, <3>2
  <2> QED
    BY <2>2, <2>3
<1>3. ASSUME NEW v \in Visits, NEW c \in Controls, Carry(v, c) PROVE Goal
  <2>1. /\ asking'[w][d].op = asking[w][d].op /\ asking'[w][d].to = asking[w][d].to
        /\ Awaits(w, d)
    <3>1. CASE v = w /\ c = d
      <4>1. asking[w][d] \in Requests
        BY <1>3, <1>t, <3>1 DEF Carry, Quiescent
      <4>2. Awaits(w, d)
        BY <1>3, <3>1 DEF Carry, Awaits
      <4> QED
        BY <1>3, <1>t, <3>1, <4>1, <4>2 DEF Carry, Requests
    <3>2. CASE ~(v = w /\ c = d)
      <4>1. asking'[w][d] = asking[w][d]
        BY <1>3, <1>t, <3>2 DEF Carry
      <4> QED
        BY <4>1 DEF Awaits
    <3> QED
      BY <3>1, <3>2
  <2> QED
    BY <1>3, <1>k, <2>1 DEF Carry
<1>4. ASSUME NEW v \in Visits, NEW c \in Controls, Enter(v, c) PROVE Goal
  <2>1. /\ asking'[w][d].op = asking[w][d].op /\ asking'[w][d].to = asking[w][d].to
        /\ Awaits(w, d)
    <3>1. CASE v = w /\ c = d
      <4>1. asking[w][d] \in Requests
        BY <1>4, <1>t, <3>1 DEF Enter, Quiescent
      <4>2. Awaits(w, d)
        BY <1>4, <3>1 DEF Enter, Awaits
      <4> QED
        BY <1>4, <1>t, <3>1, <4>1, <4>2 DEF Enter, Requests
    <3>2. CASE ~(v = w /\ c = d)
      <4>1. asking'[w][d] = asking[w][d]
        BY <1>4, <1>t, <3>2 DEF Enter
      <4> QED
        BY <4>1 DEF Awaits
    <3> QED
      BY <3>1, <3>2
  <2> QED
    BY <1>4, <1>k, <2>1 DEF Enter
<1>5. ASSUME NEW v \in Visits, NEW c \in Controls, TakeIn(v, c) PROVE Goal
  <2>1. ~(v = w /\ c = d)
    BY <1>5, <1>t DEF TakeIn, Quiescent, Awaits
  <2>2. asking'[w][d] = asking[w][d]
    BY <1>5, <1>t, <2>1 DEF TakeIn
  <2>3. Awaits(w, d)
    BY <2>2 DEF Awaits
  <2>4. sight'[w].read = sight[w].read
    BY <1>5, <1>t DEF TakeIn
  <2>5. ASSUME d = "edit" PROVE sight'[w].row["active"] = sight[w].row["active"]
    <3>1. CASE v # w
      BY <1>5, <1>t, <3>1 DEF TakeIn
    <3>2. CASE v = w
      <4> DEFINE r == asking[w][c]
      <4>1. r \in Requests /\ c # "edit"
        BY <1>5, <1>t, <2>1, <2>5, <3>2 DEF TakeIn, Quiescent
      <4>2. Asked(w, c, r.op, r.to)
        BY <1>0, <1>5, <3>2 DEF RequestsAreAsked, TakeIn, Awaits
      <4>3. "active" \in Columns /\ "active" \notin Reach(c) /\ "active" \notin AssignedColumns
        BY <4>1, YubikeysAssumption DEF Columns, ProfileColumns, AssignedColumns, Reach, Controls
      <4>4. r.op # "toggle" /\ r.to["active"] = AsIs
        BY <4>1, <4>2, <4>3 DEF Asked
      <4>5. r.to \in Changes /\ sight[w].row \in Records
        BY <1>0, <4>1, SightTypes DEF Requests
      <4>6. With(sight[w].row, r.to)["active"] = sight[w].row["active"]
        BY <4>3, <4>4, <4>5, CarriedOne
      <4>7. ShownAfter(w, r)["active"] = sight[w].row["active"]
        <5>1. CASE r.op = "move"
          <6>1. ShownAfter(w, r)["active"] = Sees(w, "active")
            BY <4>3, <5>1, ShownMoved
          <6> QED
            BY <6>1 DEF Sees
        <5>2. CASE r.op # "move"
          <6>1. ShownAfter(w, r) = With(sight[w].row, r.to)
            BY <4>4, <5>2, ShownHow, Zenon
          <6> QED
            BY <4>6, <6>1
        <5> QED
          BY <5>1, <5>2
      <4>8. sight'[w].row = ShownAfter(w, r)
        BY <1>5, <1>t, <3>2 DEF TakeIn
      <4> QED
        BY <4>7, <4>8
    <3> QED
      BY <3>1, <3>2
  <2> QED
    BY <1>5, <1>k, <2>2, <2>3, <2>4, <2>5 DEF TakeIn
<1>6. ASSUME NEW v \in Visits, NEW c \in Controls, Unheard(v, c) PROVE Goal
  <2>1. asking'[w][d] = asking[w][d] \/ asking'[w][d] = Quiescent
    BY <1>6, <1>t DEF Unheard
  <2>2. asking'[w][d] = asking[w][d] /\ Awaits(w, d)
    BY <2>1 DEF Quiescent, Awaits
  <2> QED
    BY <1>6, <1>k, <2>2 DEF Unheard
<1>7. ASSUME UNCHANGED <<surface, sight, asking>> PROVE Goal
  BY <1>7, <1>k DEF Awaits
<1> QED
  BY <1>1, <1>2, <1>3, <1>4, <1>5, <1>6, <1>7
  DEF RecordNext, ServeLog, FailLog, ShowLog, ChangedElsewhere, recordVars

LEMMA MovesStep ==
  RecordInv /\ [RecordNext]_recordVars => MovesAreAlone'
<1> SUFFICES ASSUME RecordInv, [RecordNext]_recordVars,
                    NEW w \in Visits, w \notin tangled', Awaits(w, "move")',
                    NEW d \in Controls, d # "move", Awaits(w, d)'
             PROVE  FALSE
  BY DEF MovesAreAlone
<1> "move" \in Controls
  BY DEF Controls
<1>t. /\ asking \in [Visits -> [Controls -> Requests \cup {Quiescent}]]
      /\ w \notin tangled => ~(Awaits(w, "move") /\ Awaits(w, d))
  BY DEF RecordInv, RecordTypeOK, MovesAreAlone
<1>k. ASSUME tangled' = tangled, \A c \in Controls : Awaits(w, c)' => Awaits(w, c)
      PROVE  FALSE
  BY <1>t, <1>k
<1>2. ASSUME NEW v \in Visits, Edits(v) PROVE FALSE
  <2>1. PICK c \in Controls, op \in Deeds, to \in Changes : Press(v, c, op, to)
    BY <1>2, EditsPress DEF RecordInv
  <2>2. \A e \in Controls : Awaits(w, e)' => Awaits(w, e) \/ (v = w /\ c = e)
    BY <1>t, <2>1 DEF Press, Awaits
  <2>3. w \notin tangled
    BY <2>1 DEF Press
  <2>4. v = w => ~((c = "move" /\ \E e \in Controls : Awaits(v, e)) \/ Awaits(v, "move"))
    BY <2>1 DEF Press
  <2> QED
    BY <1>t, <2>2, <2>3, <2>4
<1>3. ASSUME NEW v \in Visits, NEW c \in Controls, Carry(v, c) \/ Enter(v, c) PROVE FALSE
  <2>1. asking[v][c].pc # "none" /\ tangled' = tangled
    BY <1>3 DEF Carry, Enter
  <2>2. \A e \in Controls : Awaits(w, e)' => Awaits(w, e)
    BY <1>3, <1>t, <2>1 DEF Carry, Enter, Awaits
  <2> QED
    BY <1>k, <2>1, <2>2
<1>4. ASSUME NEW v \in Visits, NEW c \in Controls, TakeIn(v, c) \/ Unheard(v, c) PROVE FALSE
  <2>1. \A e \in Controls : Awaits(w, e)' => Awaits(w, e)
    BY SMTT(30), <1>4, <1>t DEF TakeIn, Unheard, Awaits, Quiescent
  <2> QED
    BY <1>4, <1>k, <2>1 DEF TakeIn, Unheard
<1>5. ASSUME UNCHANGED <<asking, tangled>> PROVE FALSE
  BY <1>5, <1>k DEF Awaits
<1> QED
  BY <1>2, <1>3, <1>4, <1>5
  DEF RecordNext, ReadFor, ServeLog, FailLog, ShowLog, ChangedElsewhere, recordVars

LEMMA TakenIsTold ==
  ASSUME RecordInv, NEW v \in Visits \ tangled, NEW c \in Controls, TakeIn(v, c),
         NEW f \in Columns, v \in knows[f]
  PROVE  \/ /\ asking[v][c].to[f] = AsIs
            /\ ShownAfter(v, asking[v][c])[f] = Sees(v, f)
         \/ Same(f, ShownAfter(v, asking[v][c])[f], filed[f])
<1> DEFINE r == asking[v][c]
           shown == ShownAfter(v, asking[v][c])
<1>1. r \in Requests /\ sight[v].row \in Records
  BY SightTypes DEF RecordInv, TakeIn, Quiescent
<1>2. Asked(v, c, r.op, r.to)
  BY DEF RecordInv, RequestsAreAsked, TakeIn, Awaits
<1>3. /\ r.to[f] # AsIs => Same(f, r.to[f], filed[f])
      /\ r.op = "move" /\ f \in AssignedColumns => r.back[f] = filed[f]
  BY DEF RecordInv, KnownIsShown, Foretells, TakeIn
<1>4. r.to \in Changes /\ sight[v].row[f] = Sees(v, f)
  BY <1>1 DEF Requests, Sees
<1> HIDE DEF r
<1>5. CASE r.op = "toggle"
  <2>1. shown = [sight[v].row EXCEPT !["active"] = Other(@)]
    BY <1>5, ShownHow, Zenon DEF r
  <2>2. f \in DOMAIN sight[v].row
    BY <1>1 DEF Records
  <2>3. shown[f] = IF f = "active" THEN Other(sight[v].row["active"]) ELSE sight[v].row[f]
    BY <2>1, <2>2
  <2> HIDE DEF shown
  <2>4. CASE f = "active"
    <3>1. shown[f] = r.to[f] /\ r.to[f] # AsIs
      BY <1>2, <1>5, <2>3, <2>4, ValuesAssumption DEF Asked, Sees, Other, Values
    <3> QED
      BY <1>3, <3>1 DEF r, shown
  <2>5. CASE f # "active"
    BY <1>2, <1>4, <1>5, <2>3, <2>5 DEF Asked, r, shown
  <2> QED
    BY <2>4, <2>5
<1>6. CASE r.op = "move"
  <2>1. r.op = "move" /\ shown = ShownAfter(v, r)
    BY <1>6 DEF r
  <2> HIDE DEF shown
  <2>2. shown[f] = IF f \in AssignedColumns THEN r.back[f] ELSE Sees(v, f)
    BY <2>1, ShownMoved
  <2>3. CASE f \in AssignedColumns
    BY <1>3, <1>6, <2>2, <2>3 DEF Same, r, shown
  <2>4. CASE f \notin AssignedColumns
    <3>1. f \notin Reach("move")
      BY <2>4 DEF Reach, AssignedColumns
    <3>2. r.to[f] = AsIs
      BY <1>2, <1>6, <3>1 DEF Asked
    <3> QED
      BY <2>2, <2>4, <3>2 DEF r, shown
  <2> QED
    BY <2>3, <2>4
<1>7. CASE r.op \notin {"toggle", "move"}
  <2>1. shown = With(sight[v].row, r.to)
    BY <1>7, ShownHow, Zenon DEF r
  <2>2. /\ r.to[f] = AsIs => shown[f] = sight[v].row[f]
        /\ f \in Yubikeys => shown[f] \in {sight[v].row[f], r.to[f]}
        /\ f \in Yubikeys /\ r.to[f] = "gone" => shown[f] # "there"
        /\ f \notin Yubikeys /\ r.to[f] # AsIs => shown[f] = r.to[f]
    BY <1>1, <1>4, <2>1, CarriedOne
  <2> HIDE DEF shown
  <2>3. CASE r.to[f] = AsIs
    BY <1>4, <2>2, <2>3 DEF r, shown
  <2>4. CASE r.to[f] # AsIs
    <3>1. f \in Yubikeys => r.to[f] = "gone"
      BY <1>2, <2>4 DEF Asked
    <3>2. Same(f, shown[f], filed[f])
      BY <1>3, <2>2, <2>4, <3>1 DEF Same
    <3> QED
      BY <3>2 DEF shown
  <2> QED
    BY <2>3, <2>4
<1> QED
  BY <1>5, <1>6, <1>7

LEMMA CarriedIsTold ==
  ASSUME RecordInv, NEW v \in Visits, NEW c \in Controls, Carry(v, c), NEW f \in Columns
  PROVE  /\ asking[v][c].to[f] = AsIs => filed'[f] = filed[f]
         /\ asking[v][c].to[f] # AsIs => Same(f, asking[v][c].to[f], filed'[f])
<1> DEFINE r == asking[v][c]
<1>1. r \in Requests /\ filed \in Records
  BY SightTypes DEF RecordInv, Carry, Quiescent
<1>2. Asked(v, c, r.op, r.to)
  BY DEF RecordInv, RequestsAreAsked, Carry, Awaits
<1>3. filed' = With(filed, r.to)
  BY DEF Carry
<1>4. r.to \in Changes
  BY <1>1 DEF Requests
<1> HIDE DEF r
<1>5. /\ r.to[f] = AsIs => filed'[f] = filed[f]
      /\ f \in Yubikeys /\ r.to[f] = "gone" => filed'[f] # "there"
      /\ f \notin Yubikeys /\ r.to[f] # AsIs => filed'[f] = r.to[f]
  BY <1>1, <1>3, <1>4, CarriedOne
<1>6. f \in Yubikeys /\ r.to[f] # AsIs => r.to[f] = "gone"
  BY <1>2 DEF Asked
<1>7. r.to[f] # AsIs => Same(f, r.to[f], filed'[f])
  BY <1>5, <1>6 DEF Same
<1> QED
  BY <1>5, <1>7 DEF r

LEMMA KnownStep ==
  RecordInv /\ [RecordNext]_recordVars => KnownIsShown'
<1> SUFFICES ASSUME RecordInv, [RecordNext]_recordVars,
                    NEW w \in Visits, w \notin tangled', NEW f \in Columns, w \in knows'[f]
             PROVE  (/\ OnItsWay(w, f) \/ Erred(f) \in failed[w] \/ Same(f, Sees(w, f), filed[f])
                     /\ \A d \in Controls : Foretells(asking[w][d], f, filed[f]))'
  BY DEF KnownIsShown
<1> DEFINE Goal == /\ OnItsWay(w, f)' \/ Erred(f) \in failed'[w] \/ Same(f, Sees(w, f)', filed'[f])
                   /\ \A d \in Controls : Foretells(asking'[w][d], f, filed'[f])
<1> SUFFICES Goal
  BY DEF Foretells, Same, Erred
<1>t. /\ asking \in [Visits -> [Controls -> Requests \cup {Quiescent}]]
      /\ sight \in [Visits -> [read : SUBSET {"user", "keys"}, row : Records]]
      /\ filed \in Records /\ knows \in [Columns -> SUBSET Visits]
      /\ failed \in [Visits -> SUBSET {"told", "untold"}]
      /\ \A v \in Visits, c \in Controls : asking[v][c] \in Requests \cup {Quiescent}
      /\ "move" \in Controls
  BY DEF RecordInv, RecordTypeOK, Controls
(* What held before, of a page that knew the column.                         *)
<1>o. w \notin tangled /\ w \in knows[f] =>
        /\ OnItsWay(w, f) \/ Erred(f) \in failed[w] \/ Same(f, Sees(w, f), filed[f])
        /\ \A d \in Controls : Foretells(asking[w][d], f, filed[f])
  BY DEF RecordInv, KnownIsShown
<1>k. ASSUME w \notin tangled, w \in knows[f], filed'[f] = filed[f],
             asking'[w] = asking[w], failed[w] \subseteq failed'[w],
             sight'[w].row[f] = sight[w].row[f]
      PROVE  Goal
  BY <1>k, <1>o DEF OnItsWay, Sees
<1>1. ASSUME NEW v \in Visits, NEW query \in Queries, ReadFor(v, query) PROVE Goal
  <2>1. ~AllRead(v)
    BY <1>1 DEF ReadFor, AllRead
  <2>2. \A c \in Controls : asking[v][c].pc = "none"
    BY <2>1 DEF RecordInv, RequestsAreAsked, Awaits
  <2>3. CASE v = w /\ f \in Selects(query)
    <3>1. sight'[w].row[f] = filed[f] /\ filed' = filed /\ asking' = asking
      BY <1>1, <1>t, <2>3 DEF ReadFor
    <3>2. \A d \in Controls : Foretells(asking'[w][d], f, filed'[f])
      BY <2>2, <2>3, <3>1 DEF Foretells
    <3>3. Same(f, Sees(w, f)', filed'[f])
      BY <3>1 DEF Same, Sees
    <3> QED
      BY <3>2, <3>3
  <2>4. CASE ~(v = w /\ f \in Selects(query))
    <3>1. w \in knows[f]
      BY <1>1, <2>4 DEF ReadFor
    <3>2. sight'[w].row[f] = sight[w].row[f]
      BY <1>1, <1>t, <2>4 DEF ReadFor
    <3> QED
      BY <1>1, <1>k, <3>1, <3>2 DEF ReadFor
  <2> QED
    BY <2>3, <2>4
<1>2. ASSUME NEW v \in Visits, Edits(v) PROVE Goal
  <2>1. PICK c \in Controls, op \in Deeds, to \in Changes : Press(v, c, op, to)
    BY <1>2, EditsPress DEF RecordInv
  <2>2. /\ w \notin tangled /\ filed' = filed /\ sight' = sight /\ failed' = failed /\ knows' = knows
        /\ asking[v][c].pc = "none"
    BY <2>1 DEF Press, Awaits
  <2>3. \A d \in Controls : asking'[w][d] = asking[w][d] \/ (v = w /\ d = c /\ asking'[w][d].pc = "sent")
    BY <1>t, <2>1 DEF Press
  <2>4. OnItsWay(w, f) => OnItsWay(w, f)'
    BY <2>2, <2>3 DEF OnItsWay
  <2>5. \A d \in Controls : Foretells(asking'[w][d], f, filed'[f])
    BY <1>o, <2>2, <2>3 DEF Foretells
  <2> QED
    BY <1>o, <2>2, <2>4, <2>5 DEF Sees
<1>3. ASSUME NEW v \in Visits, NEW c \in Controls, Carry(v, c) PROVE Goal
  <2> DEFINE r == asking[v][c]
  <2>1. r \in Requests /\ Awaits(v, c)
    BY <1>3, <1>t DEF Carry, Quiescent, Awaits
  <2>2. /\ asking'[v][c].pc = "written" /\ asking'[v][c].to = r.to /\ asking'[v][c].op = r.op
        /\ asking'[v][c].back = filed'
    BY <1>3, <1>t, <2>1 DEF Carry, Requests
  <2>3. \A d \in Controls : v # w \/ d # c => asking'[w][d] = asking[w][d]
    BY <1>3, <1>t DEF Carry
  <2>4. /\ tangled' = tangled /\ sight' = sight /\ failed' = failed
        /\ r.pc = "sent"
        /\ knows'[f] = IF r.to[f] # AsIs THEN {v} ELSE knows[f]
    BY <1>3 DEF Carry
  <2>5. /\ r.to[f] = AsIs => filed'[f] = filed[f]
        /\ r.to[f] # AsIs => Same(f, r.to[f], filed'[f])
    BY <1>3, CarriedIsTold
  <2> HIDE DEF r
  <2>6. v = w => Foretells(asking'[w][c], f, filed'[f])
    BY <2>2, <2>5 DEF Foretells
  <2>7. CASE r.to[f] = AsIs
    <3>1. w \in knows[f] /\ w \notin tangled
      BY <2>4, <2>7
    <3>2. OnItsWay(w, f) => OnItsWay(w, f)'
      BY <2>2, <2>3, <2>4, <2>7 DEF OnItsWay, r
    <3>3. \A d \in Controls : v # w \/ d # c => Foretells(asking'[w][d], f, filed'[f])
      BY <1>o, <2>3, <2>5, <2>7, <3>1
    <3> QED
      BY <1>o, <2>4, <2>5, <2>6, <2>7, <3>1, <3>2, <3>3 DEF Sees
  <2>8. CASE r.to[f] # AsIs
    <3>1. v = w
      BY <2>4, <2>8
    <3>2. OnItsWay(w, f)'
      BY <2>2, <2>8, <3>1 DEF OnItsWay
    <3>3. ASSUME NEW d \in Controls, d # c PROVE Foretells(asking'[w][d], f, filed'[f])
      <4> DEFINE q == asking[w][d]
      <4>1. asking'[w][d] = q
        BY <2>3, <3>3
      <4>2. CASE Awaits(w, d)
        <5>1. Asked(w, d, q.op, q.to) /\ Asked(w, c, r.op, r.to)
          BY <2>1, <3>1, <4>2 DEF RecordInv, RequestsAreAsked, r
        <5>2. c # "move" /\ d # "move"
          BY <2>1, <2>4, <3>1, <3>3, <4>2 DEF RecordInv, MovesAreAlone
        <5>3. f \in Reach(c) /\ f \notin Reach(d)
          BY <2>8, <3>3, <5>1, <5>2, ReachesApart DEF Asked
        <5>4. q.to[f] = AsIs /\ q.op # "move"
          BY <5>1, <5>2, <5>3 DEF Asked
        <5> QED
          BY <4>1, <5>4 DEF Foretells
      <4>3. CASE ~Awaits(w, d)
        BY <4>1, <4>3 DEF Foretells, Awaits
      <4> QED
        BY <4>2, <4>3
    <3> QED
      BY <2>6, <3>1, <3>2, <3>3
  <2> QED
    BY <2>7, <2>8
<1>4. ASSUME NEW v \in Visits, NEW c \in Controls, Enter(v, c) PROVE Goal
  <2> DEFINE r == asking[v][c]
  <2>1. r \in Requests /\ r.pc = "written"
    BY <1>4, <1>t DEF Enter, Quiescent
  <2>2. /\ asking'[v][c].pc = "ok" /\ asking'[v][c].to = r.to /\ asking'[v][c].op = r.op
        /\ asking'[v][c].back = r.back
    BY <1>4, <1>t, <2>1 DEF Enter, Requests
  <2>3. \A d \in Controls : v # w \/ d # c => asking'[w][d] = asking[w][d]
    BY <1>4, <1>t DEF Enter
  <2>4. filed' = filed /\ tangled' = tangled /\ sight' = sight /\ failed' = failed /\ knows' = knows
    BY <1>4 DEF Enter
  <2>5. OnItsWay(w, f) => OnItsWay(w, f)'
    BY <2>2, <2>3 DEF OnItsWay
  <2>6. \A d \in Controls : Foretells(asking[w][d], f, filed[f]) => Foretells(asking'[w][d], f, filed'[f])
    BY <2>1, <2>2, <2>3, <2>4 DEF Foretells
  <2> QED
    BY <1>o, <2>4, <2>5, <2>6 DEF Sees
<1>5. ASSUME NEW v \in Visits, NEW c \in Controls, TakeIn(v, c) PROVE Goal
  <2>1. filed' = filed /\ tangled' = tangled /\ failed' = failed /\ knows' = knows
    BY <1>5 DEF TakeIn
  <2>2. \A d \in Controls : asking'[w][d] = IF v = w /\ d = c THEN Quiescent ELSE asking[w][d]
    BY <1>5, <1>t DEF TakeIn
  <2>3. \A d \in Controls : Foretells(asking'[w][d], f, filed'[f])
    BY <1>o, <2>1, <2>2 DEF Foretells, Quiescent
  <2>4. CASE v # w
    BY <1>5, <1>k, <1>t, <2>1, <2>4 DEF TakeIn
  <2>5. CASE v = w
    <3>1. Sees(w, f)' = ShownAfter(w, asking[w][c])[f]
      BY <1>5, <1>t, <2>5 DEF TakeIn, Sees
    <3>2. \/ /\ asking[w][c].to[f] = AsIs
             /\ ShownAfter(w, asking[w][c])[f] = Sees(w, f)
          \/ Same(f, ShownAfter(w, asking[w][c])[f], filed[f])
      BY <1>5, <2>1, <2>5, TakenIsTold
    <3>3. asking[w][c].to[f] = AsIs /\ OnItsWay(w, f) => OnItsWay(w, f)'
      BY <2>2 DEF OnItsWay
    <3> QED
      BY <1>o, <2>1, <2>3, <3>1, <3>2, <3>3
  <2> QED
    BY <2>4, <2>5
<1>6. ASSUME NEW v \in Visits, NEW c \in Controls, Unheard(v, c) PROVE Goal
  <2>1. filed' = filed /\ tangled' = tangled /\ sight' = sight /\ knows' = knows
    BY <1>6 DEF Unheard
  <2>2. \A d \in Controls : asking'[w][d] = IF v = w /\ d = c THEN Quiescent ELSE asking[w][d]
    BY <1>6, <1>t DEF Unheard
  <2>3. \A d \in Controls : Foretells(asking'[w][d], f, filed'[f])
    BY <1>o, <2>1, <2>2 DEF Foretells, Quiescent
  <2>4. failed[w] \subseteq failed'[w]
    BY <1>6, <1>t DEF Unheard
  <2>5. CASE v # w \/ asking[w][c].to[f] = AsIs
    <3>1. OnItsWay(w, f) => OnItsWay(w, f)'
      BY <2>2, <2>5 DEF OnItsWay
    <3> QED
      BY <1>o, <2>1, <2>3, <2>4, <3>1 DEF Sees
  <2>6. CASE v = w /\ asking[w][c].to[f] # AsIs
    <3>1. f \in Reach(c)
      BY <1>6, <2>6 DEF RecordInv, RequestsAreAsked, Asked, Unheard
    <3>2. f = "apikey" <=> c = "key"
      BY <3>1, YubikeysAssumption DEF Reach, Controls, ProfileColumns
    <3>3. Erred(f) \in failed'[w]
      BY <1>6, <1>t, <2>6, <3>2 DEF Unheard, Erred
    <3> QED
      BY <2>3, <3>3
  <2> QED
    BY <2>5, <2>6
<1>7. ASSUME NEW g \in Columns, ChangedElsewhere(g) PROVE Goal
  <2>1. f # g
    BY <1>7, <1>t DEF ChangedElsewhere
  <2>2. filed'[f] = filed[f] /\ w \in knows[f]
    BY <1>7, <1>t, <2>1 DEF ChangedElsewhere
  <2> QED
    BY <1>7, <1>k, <2>2 DEF ChangedElsewhere
<1>8. ASSUME UNCHANGED <<filed, sight, asking, knows, failed, tangled>> PROVE Goal
  BY <1>8, <1>k
<1> QED
  BY <1>1, <1>2, <1>3, <1>4, <1>5, <1>6, <1>7, <1>8
  DEF RecordNext, ServeLog, FailLog, ShowLog, recordVars

LEMMA RecordFirst == RecordInit => RecordInv
<1> SUFFICES ASSUME RecordInit PROVE RecordInv
  OBVIOUS
<1>1. RecordTypeOK
  BY RecordTypeFirst
<1>2. \A v \in Visits, c \in Controls : ~Awaits(v, c)
  BY DEF RecordInit, Awaits, Quiescent
<1>3. "move" \in Controls
  BY DEF Controls
<1>4. LogsAreNear
  <2>1. \A v \in Visits : LogIsNear(logging[v], trail)
    <3>1. \A v \in Visits :
            logging[v].asked = 0 /\ logging[v].answers = {} /\ logging[v].shows = 0 /\ logging[v].own = 0
      BY DEF RecordInit
    <3>2. trail = 0
      BY DEF RecordInit
    <3> QED
      BY <3>1, <3>2, ZeroIsNear
  <2> QED
    BY <1>2, <2>1, Zenon DEF LogsAreNear
<1>5. RequestsAreAsked /\ MovesAreAlone
  BY <1>2, <1>3 DEF RequestsAreAsked, MovesAreAlone
<1>6. KnownIsShown
  BY DEF KnownIsShown, RecordInit
<1> QED
  BY <1>1, <1>4, <1>5, <1>6 DEF RecordInv

LEMMA RecordStep == RecordInv /\ [RecordNext]_recordVars => RecordInv'
  BY RecordTypeStep, LogsStep, RequestsStep, MovesStep, KnownStep DEF RecordInv

(* The pages of users and assignments keep the types of what they show, of   *)
(* what they asked for and of their logs, and the row keeps its own          *)
(* (user-profile.tsx, useAssignmentActions.tsx).                             *)
THEOREM RecordTypes == RecordSpec => []RecordTypeOK
<1>1. RecordInit => RecordTypeOK
  BY RecordTypeFirst
<1>2. RecordTypeOK /\ [RecordNext]_recordVars => RecordTypeOK'
  BY RecordTypeStep
<1> QED
  BY <1>1, <1>2, PTL DEF RecordSpec

(* Whatever number of pages: the one that made or read the last change of a  *)
(* column shows what the row has, and its log has its own last change, with  *)
(* the exceptions RecordIsShown names (user-profile.tsx:70-215,              *)
(* useAssignmentActions.tsx:87-181).                                         *)
THEOREM RecordsShown == RecordSpec => []RecordIsShown
<1>1. ASSUME RecordInv, NEW v \in Visits
      PROVE  ~Looking(v) /\ ~logging[v].late => logging[v].shows >= logging[v].own
  <2> DEFINE l == logging[v]
  <2>1. l.asked \in Nat /\ LogIsNear(l, trail)
    BY <1>1 DEF RecordInv, RecordTypeOK, LogsAreNear, Loadings
  <2> QED
    BY <2>1 DEF LogIsNear, Looking
<1>2. ASSUME RecordInv, NEW v \in Visits, v \notin tangled, NEW f \in Columns, v \in knows[f]
      PROVE  \/ OnItsWay(v, f)
             \/ (IF f = "apikey" THEN "untold" ELSE "told") \in failed[v]
             \/ Same(f, Sees(v, f), filed[f])
  BY <1>2 DEF RecordInv, KnownIsShown, Erred
<1>3. RecordInv => RecordIsShown
  BY <1>1, <1>2 DEF RecordIsShown
<1>4. RecordInit => RecordInv
  BY RecordFirst
<1>5. RecordInv /\ [RecordNext]_recordVars => RecordInv'
  BY RecordStep
<1> QED
  BY <1>3, <1>4, <1>5, PTL DEF RecordSpec

------------------------------------------------------------------------------
(* The page of a case                                                        *)

Answers == {"idle", "sent", "read", "ok", "bad", "thrown"}
Kinds == {"toggle", "fp"}

LoadRec == [pc : {"idle", "sent", "read", "thrown"}, no : Nat, ver : Nat]
InTime(f) == fetched[f].no <= sends /\ fetched[f].ver <= Version

CaseTypes ==
  /\ statuses \in Seq(Statuses) /\ sends \in Nat /\ mine \in 0..Version
  /\ view \in [ver : 0..Version, last : 0..sends, dialog : BOOLEAN, reason : BOOLEAN,
               toggling : BOOLEAN, marking : BOOLEAN, failed : BOOLEAN]
  /\ change \in [Kinds -> [pc : Answers, to : Statuses, ver : 0..Version]]
  /\ fetched \in [Fetches -> LoadRec] /\ \A f \in Fetches : InTime(f)

(* What the last load has read, and what the page shows once it was the last *)
(* to be answered, is no older than the last change the page was told of.    *)
CaseInv ==
  /\ CaseTypes
  /\ \A f \in Fetches : fetched[f].pc = "read" /\ fetched[f].no = sends => fetched[f].ver >= mine
  /\ view.last = sends => view.ver >= mine

LEMMA VersionIsNat == ASSUME statuses \in Seq(Statuses) PROVE Version \in Nat
BY DEF Version

LEMMA CaseInitHolds == CasePageInit => CaseInv
<1> SUFFICES ASSUME CasePageInit PROVE CaseInv
  OBVIOUS
<1>1. statuses \in Seq(Statuses) /\ Version = 1
  BY DEF CasePageInit, Version, Statuses
<1>2. view \in [ver : 0..1, last : 0..1, dialog : BOOLEAN, reason : BOOLEAN,
                toggling : BOOLEAN, marking : BOOLEAN, failed : BOOLEAN]
  BY DEF CasePageInit
<1>3. change \in [Kinds -> [pc : Answers, to : Statuses, ver : 0..1]]
  BY DEF CasePageInit, NotAsked, Kinds, Answers, Statuses
<1>4. fetched \in [Fetches -> LoadRec]
  <2>0. \A r \in LoadRec : [r EXCEPT !.pc = "sent", !.no = 1] \in LoadRec
    BY DEF LoadRec
  <2>1. NoFetch \in LoadRec
    BY DEF NoFetch, LoadRec
  <2> DEFINE first == [NoFetch EXCEPT !.pc = "sent", !.no = 1]
  <2>2. fetched = [f \in Fetches |-> IF \A g \in Fetches : f <= g THEN first ELSE NoFetch]
    BY DEF CasePageInit
  <2>3. first \in LoadRec
    BY <2>0, <2>1
  <2> HIDE DEF first
  <2> QED
    BY <2>1, <2>2, <2>3
<1>5. \A f \in Fetches : /\ fetched[f].pc # "read"
                         /\ fetched[f].no <= 1 /\ fetched[f].ver <= 1
  BY DEF CasePageInit, NoFetch
<1> QED
  BY <1>1, <1>2, <1>3, <1>4, <1>5 DEF CasePageInit, CaseInv, CaseTypes, InTime

(* The case gets another status: what was known of it stays known.           *)
LEMMA WrittenOn ==
  ASSUME CaseTypes, NEW to \in Statuses, statuses' = Append(statuses, to)
  PROVE  statuses' \in Seq(Statuses) /\ Version' = Version + 1 /\ Version \in Nat
BY VersionIsNat DEF CaseTypes, Version

LEMMA CaseKept == CaseInv /\ [CasePageNext]_casePageVars => CaseInv'
<1> SUFFICES ASSUME CaseInv, [CasePageNext]_casePageVars PROVE CaseInv'
  OBVIOUS
<1>0. CaseTypes /\ Version \in Nat /\ sends \in Nat
  BY VersionIsNat DEF CaseInv, CaseTypes
<1>a. ASSUME UNCHANGED statuses PROVE Version' = Version
  BY <1>a DEF Version
<1>1. CASE Toggle \/ MarkFalsePositive
  <2>1. PICK w \in Kinds, flag \in {"toggling", "marking"} : Click(w, flag)
    BY <1>1 DEF Toggle, MarkFalsePositive, Kinds
  <2>2. UNCHANGED <<statuses, fetched, sends, mine>> /\ Version' = Version
    BY <2>1, <1>a DEF Click
  <2>3. view' \in [ver : 0..Version, last : 0..sends, dialog : BOOLEAN, reason : BOOLEAN,
                   toggling : BOOLEAN, marking : BOOLEAN, failed : BOOLEAN]
        /\ view'.ver = view.ver /\ view'.last = view.last
    BY <2>1, <1>0 DEF Click, CaseTypes
  <2>4. change' \in [Kinds -> [pc : Answers, to : Statuses, ver : 0..Version]]
    BY <2>1, <1>0 DEF Click, CaseTypes, NotAsked, Answers, Statuses
  <2> QED
    BY <2>2, <2>3, <2>4, <1>0 DEF CaseInv, CaseTypes, InTime
<1>2. CASE FpDialog
  <2>1. UNCHANGED <<statuses, change, fetched, sends, mine>> /\ Version' = Version
    BY <1>2, <1>a DEF FpDialog
  <2>2. view' \in [ver : 0..Version, last : 0..sends, dialog : BOOLEAN, reason : BOOLEAN,
                   toggling : BOOLEAN, marking : BOOLEAN, failed : BOOLEAN]
        /\ view'.ver = view.ver /\ view'.last = view.last
    BY <1>2, <1>0 DEF FpDialog, CaseTypes
  <2> QED
    BY <2>1, <2>2, <1>0 DEF CaseInv, CaseTypes, InTime, LoadRec
<1>3. CASE ServerReads \/ \E w \in Kinds : ServerFails(w)
  <2>1. UNCHANGED <<statuses, view, fetched, sends, mine>> /\ Version' = Version
    BY <1>3, <1>a DEF ServerReads, ServerFails
  <2>2. change' \in [Kinds -> [pc : Answers, to : Statuses, ver : 0..Version]]
    <3>1. CASE ServerReads
      <4>1. change["toggle"] \in [pc : Answers, to : Statuses, ver : 0..Version]
        BY <1>0 DEF CaseTypes, Kinds
      <4>2. PICK to \in Statuses :
              change' = [change EXCEPT !["toggle"].pc = "read", !["toggle"].to = to]
        BY <3>1 DEF ServerReads, Statuses
      <4> QED
        BY <4>1, <4>2, <1>0 DEF CaseTypes, Kinds, Answers
    <3>2. CASE \E w \in Kinds : ServerFails(w)
      BY <3>2, <1>0 DEF ServerFails, CaseTypes, Answers
    <3> QED
      BY <3>1, <3>2, <1>3
  <2> QED
    BY <2>1, <2>2, <1>0 DEF CaseInv, CaseTypes, InTime, LoadRec
<1>4. CASE OtherStaff
  <2>1. statuses' \in Seq(Statuses) /\ Version' = Version + 1
    BY <1>4, <1>0, WrittenOn DEF OtherStaff
  <2>2. UNCHANGED <<view, change, fetched, sends, mine>>
    BY <1>4 DEF OtherStaff
  <2> QED
    BY <2>1, <2>2, <1>0 DEF CaseInv, CaseTypes, InTime, LoadRec
<1>5. ASSUME NEW w \in Kinds, NEW answered \in BOOLEAN, ServerWrites(w, answered) PROVE CaseInv'
  <2>1. statuses' \in Seq(Statuses) /\ Version' = Version + 1
    <3>1. (IF w = "toggle" THEN change[w].to ELSE "false_positive") \in Statuses
      BY <1>0 DEF CaseTypes, Statuses
    <3> QED
      BY <1>5, <3>1, <1>0, WrittenOn DEF ServerWrites
  <2>2. UNCHANGED <<view, fetched, sends, mine>>
    BY <1>5 DEF ServerWrites
  <2>3. change' \in [Kinds -> [pc : Answers, to : Statuses, ver : 0..Version']]
    <3>1. change \in [Kinds -> [pc : Answers, to : Statuses, ver : 0..Version']]
      BY <2>1, <1>0 DEF CaseTypes
    <3>2. Version + 1 \in 0..Version' /\ {"ok", "thrown"} \subseteq Answers
      BY <2>1, <1>0 DEF Answers
    <3> QED
      BY <1>5, <3>1, <3>2 DEF ServerWrites
  <2> QED
    BY <2>1, <2>2, <2>3, <1>0 DEF CaseInv, CaseTypes, InTime, LoadRec
<1>6. ASSUME NEW f \in Fetches, Read(f) PROVE CaseInv'
  <2>1. UNCHANGED <<statuses, view, change, sends, mine>> /\ Version' = Version
    BY <1>6, <1>a DEF Read
  <2>2. fetched' = [fetched EXCEPT ![f] = [@ EXCEPT !.pc = "read", !.ver = Version]]
    BY <1>6 DEF Read
  <2>3. fetched' \in [Fetches -> LoadRec]
    <3> DEFINE read == [fetched[f] EXCEPT !.pc = "read", !.ver = Version]
    <3>1. \A r \in LoadRec :
            [r EXCEPT !.pc = "read", !.ver = Version] \in LoadRec
      BY <1>0 DEF LoadRec
    <3>2. read \in LoadRec
      BY <3>1, <1>0 DEF CaseTypes
    <3>3. fetched' = [fetched EXCEPT ![f] = read]
      BY <2>2
    <3> HIDE DEF read
    <3> QED
      BY <3>2, <3>3, <1>0 DEF CaseTypes
  <2>4. \A g \in Fetches : \/ fetched'[g] = fetched[g]
                           \/ fetched'[g].ver = Version /\ fetched'[g].no = fetched[g].no
    BY <2>2, <1>0 DEF CaseTypes, LoadRec
  <2>5. Version >= mine
    BY <1>0 DEF CaseTypes
  <2> QED
    BY <2>1, <2>3, <2>4, <2>5, <1>0, SMTT(30) DEF CaseInv, CaseTypes, InTime
<1>7. ASSUME NEW f \in Fetches, ShowCase(f) \/ LoadThrows(f) PROVE CaseInv'
  <2>1. UNCHANGED <<statuses, change, sends, mine>> /\ Version' = Version
    BY <1>7, <1>a DEF ShowCase, LoadThrows
  <2>2. fetched' = [fetched EXCEPT ![f] = NoFetch]
    BY <1>7 DEF ShowCase, LoadThrows
  <2>3. fetched' \in [Fetches -> LoadRec]
    BY <2>2, <1>0 DEF CaseTypes, NoFetch, LoadRec
  <2>4. \A g \in Fetches : fetched'[g] = fetched[g] \/ fetched'[g] = [pc |-> "idle", no |-> 0, ver |-> 0]
    BY <2>2, <1>0 DEF CaseTypes, NoFetch, LoadRec
  <2>5. view' \in [ver : 0..Version, last : 0..sends, dialog : BOOLEAN, reason : BOOLEAN,
                   toggling : BOOLEAN, marking : BOOLEAN, failed : BOOLEAN]
    <3> DEFINE V == [ver : 0..Version, last : 0..sends, dialog : BOOLEAN, reason : BOOLEAN,
                     toggling : BOOLEAN, marking : BOOLEAN, failed : BOOLEAN]
    <3> SUFFICES view' \in V
      OBVIOUS
    <3>1. \A x \in V : /\ \A v \in 0..Version : [x EXCEPT !.ver = v] \in V
                       /\ \A n \in 0..sends : [x EXCEPT !.last = n] \in V
                       /\ [x EXCEPT !.failed = TRUE] \in V
      OBVIOUS
    <3>2. view \in V /\ fetched[f].ver \in 0..Version /\ fetched[f].no \in 0..sends
      BY <1>0 DEF CaseTypes, InTime, LoadRec
    <3>3. CASE ShowCase(f)
      <4>1. view' = [[view EXCEPT !.ver = fetched[f].ver] EXCEPT !.last = fetched[f].no]
        BY <3>3 DEF ShowCase
      <4> HIDE DEF V
      <4> QED
        BY <3>1, <3>2, <4>1
    <3>4. CASE LoadThrows(f)
      <4>1. view' = [view EXCEPT !.failed = TRUE]
        BY <3>4 DEF LoadThrows
      <4> HIDE DEF V
      <4> QED
        BY <3>1, <3>2, <4>1
    <3> QED
      BY <1>7, <3>3, <3>4
  <2>6. view'.last = sends => view'.ver >= mine
    BY <1>7, <1>0 DEF CaseTypes, CaseInv, ShowCase, LoadThrows, LoadRec, InTime
  <2> QED
    BY <2>1, <2>3, <2>4, <2>5, <2>6, <1>0 DEF CaseInv, CaseTypes, InTime
<1>8. ASSUME NEW w \in Kinds, NEW f \in Fetches, DoneThenLoad(w, f) PROVE CaseInv'
  <2>1. UNCHANGED statuses /\ sends' = sends + 1 /\ Version' = Version
    BY <1>8, <1>a DEF DoneThenLoad, LoadCase
  <2>2. mine' \in 0..Version
    BY <1>8, <1>0 DEF DoneThenLoad, Told, CaseTypes
  <2>3. view' \in [ver : 0..Version, last : 0..sends, dialog : BOOLEAN, reason : BOOLEAN,
                   toggling : BOOLEAN, marking : BOOLEAN, failed : BOOLEAN]
    BY <1>8, <1>0 DEF CaseTypes, DoneThenLoad, Quietly
  <2>4. fetched' = [fetched EXCEPT ![f] = [pc |-> "sent", no |-> sends + 1, ver |-> 0]]
    BY <1>8 DEF DoneThenLoad, LoadCase
  <2>5. fetched' \in [Fetches -> LoadRec]
    BY <2>4, <1>0 DEF CaseTypes, LoadRec
  <2>6. \A g \in Fetches : /\ fetched'[g].pc = "read" => fetched'[g].no <= sends
                           /\ fetched'[g].no <= sends + 1 /\ fetched'[g].ver <= Version
    BY <2>4, <1>0 DEF CaseTypes, LoadRec, InTime
  <2>7. change' \in [Kinds -> [pc : Answers, to : Statuses, ver : 0..Version]]
    BY <1>8, <1>0 DEF DoneThenLoad, CaseTypes, NotAsked, Answers, Statuses
  <2>8. view' \in [ver : 0..Version, last : 0..sends + 1, dialog : BOOLEAN, reason : BOOLEAN,
                   toggling : BOOLEAN, marking : BOOLEAN, failed : BOOLEAN]
        /\ view'.last # sends + 1
    BY <2>3, <1>0
  <2> QED
    BY <2>1, <2>2, <2>5, <2>6, <2>7, <2>8, <1>0 DEF CaseInv, CaseTypes, InTime, LoadRec
<1>9. ASSUME NEW w \in Kinds, CaseAlert(w) PROVE CaseInv'
  <2>1. UNCHANGED <<statuses, fetched, sends, mine>> /\ Version' = Version
    BY <1>9, <1>a DEF CaseAlert
  <2>2. view' \in [ver : 0..Version, last : 0..sends, dialog : BOOLEAN, reason : BOOLEAN,
                   toggling : BOOLEAN, marking : BOOLEAN, failed : BOOLEAN]
        /\ view'.ver = view.ver /\ view'.last = view.last
    BY <1>9, <1>0 DEF CaseAlert, CaseTypes
  <2>3. change' \in [Kinds -> [pc : Answers, to : Statuses, ver : 0..Version]]
    BY <1>9, <1>0 DEF CaseAlert, CaseTypes, NotAsked, Answers, Statuses
  <2> QED
    BY <2>1, <2>2, <2>3, <1>0 DEF CaseInv, CaseTypes, InTime, LoadRec
<1>10. CASE UNCHANGED casePageVars
  <2>1. Version' = Version
    BY <1>10, <1>a DEF casePageVars
  <2> QED
    BY <1>10, <2>1 DEF casePageVars, CaseInv, CaseTypes, InTime
<1> QED
  BY <1>1, <1>2, <1>3, <1>4, <1>5, <1>6, <1>7, <1>8, <1>9, <1>10 DEF CasePageNext, Kinds

(* Page, loads and requests keep their types for any number of loads on      *)
(* their way (case.tsx).                                                     *)
THEOREM CasePageTypes == CasePageSpec => []CasePageTypeOK
<1>1. CaseInv => CasePageTypeOK
  BY DEF CaseInv, CaseTypes, CasePageTypeOK, Kinds, Answers, LoadRec
<1> QED
  BY CaseInitHolds, CaseKept, <1>1, PTL DEF CasePageSpec

(* However loads, changes of this page and changes of colleagues fall, once  *)
(* the last load was the last to be answered the page shows a case no older  *)
(* than the last change it was told of (case.tsx:16-25, 42-71).              *)
THEOREM CaseStaysCurrent == CasePageSpec => []CaseIsCurrent
<1>1. CaseInv => CaseIsCurrent
  BY DEF CaseInv, CaseIsCurrent
<1> QED
  BY CaseInitHolds, CaseKept, <1>1, PTL DEF CasePageSpec

------------------------------------------------------------------------------
(* The page of a ticket                                                      *)

TaskPc == {"idle", "auth", "post", "read", "stored", "told", "ok", "bad", "loading", "loaded"}
TaskRec ==
  [kind : {"none", "send", "assign", "close", "load"}, pc : TaskPc, text : Wordings,
   files : SUBSET Papers, no : Nat, list : SUBSET Staffers, add : SUBSET Staffers,
   drop : SUBSET Staffers, base : Nat, rash : BOOLEAN, open : BOOLEAN]
ReplyRec == [no : Nat, text : Wordings, files : SUBSET Papers]
FaceRec ==
  [on : BOOLEAN, open : BOOLEAN, who : SUBSET Staffers, ver : Nat, newest : Nat,
   assigning : BOOLEAN, closing : BOOLEAN]
EarRec == [at : {"on", "off", "closed"}, tries : Nat, news : Nat]
RowRec == [open : BOOLEAN, who : SUBSET Staffers, ver : Nat]

TasksTyped == task \in [Tabs -> TaskRec]
TicketTypes ==
  /\ ticketRow \in RowRec /\ TasksTyped
  /\ replies \subseteq ReplyRec
  /\ inThread \in [asker : Seq(ReplyRec), staff : Seq(ReplyRec)]
  /\ composer \in [text : Wordings, files : SUBSET Papers, no : Nat]
  /\ face \in FaceRec
  /\ ear \in EarRec /\ ear.tries <= MaxRecon /\ (ear.at # "closed" => ear.tries < MaxRecon)
  /\ botOk \in BOOLEAN /\ botUp \in BOOLEAN /\ meant \subseteq Staffers /\ foreign \in Nat

(* What a request keeps while it goes on.                                    *)
Alike(t) ==
  /\ task'[t].kind = task[t].kind /\ task'[t].text = task[t].text
  /\ task'[t].files = task[t].files /\ task'[t].no = task[t].no /\ task'[t].list = task[t].list
  /\ task'[t].add = task[t].add /\ task'[t].drop = task[t].drop /\ task'[t].base = task[t].base
  /\ task'[t].rash = task[t].rash
OthersStay(t) == \A q \in Tabs : q # t => task'[q] = task[q]

LEMMA UnaskedType ==
  Unasked \in TaskRec /\ Unasked.kind = "none" /\ Unasked.pc = "idle" /\ Unasked.base = 0
BY DEF Unasked, TaskRec, TaskPc, Wordings

LEMMA GoesOn ==
  ASSUME TasksTyped, NEW t \in Tabs, NEW pc \in TaskPc, Goes(t, pc)
  PROVE  TasksTyped' /\ OthersStay(t) /\ task'[t].pc = pc /\ Alike(t)
<1>1. task[t] \in TaskRec
  BY DEF TasksTyped
<1> DEFINE w == [task[t] EXCEPT !.pc = pc]
<1>2. /\ w \in TaskRec /\ w.pc = pc
      /\ w.kind = task[t].kind /\ w.text = task[t].text
      /\ w.files = task[t].files /\ w.no = task[t].no /\ w.list = task[t].list
      /\ w.add = task[t].add /\ w.drop = task[t].drop /\ w.base = task[t].base
      /\ w.rash = task[t].rash
  BY <1>1 DEF TaskRec
<1>3. task' = [task EXCEPT ![t] = w]
  BY DEF Goes
<1> HIDE DEF w
<1>4. TasksTyped' /\ OthersStay(t) /\ task'[t] = w
  BY <1>2, <1>3 DEF TasksTyped, OthersStay
<1> QED
  BY <1>2, <1>4 DEF Alike

LEMMA GoesOver ==
  ASSUME TasksTyped, NEW t \in Tabs, Over(t)
  PROVE  TasksTyped' /\ OthersStay(t) /\ task'[t] = Unasked
BY UnaskedType DEF Over, TasksTyped, OthersStay

LEMMA TicketFirst == TicketPageInit => TicketTypes
<1> SUFFICES ASSUME TicketPageInit PROVE TicketTypes
  OBVIOUS
<1>1. ticketRow \in RowRec /\ meant \subseteq Staffers /\ foreign \in Nat
  BY DEF TicketPageInit, RowRec
<1>2. TasksTyped
  BY UnaskedType DEF TicketPageInit, TasksTyped
<1>3. inThread \in [asker : Seq(ReplyRec), staff : Seq(ReplyRec)] /\ replies \subseteq ReplyRec
  <2>1. inThread = [asker |-> <<>>, staff |-> <<>>] /\ replies = {}
    BY DEF TicketPageInit
  <2>2. <<>> \in Seq(ReplyRec)
    OBVIOUS
  <2> QED
    BY <2>1, <2>2
<1>4. composer \in [text : Wordings, files : SUBSET Papers, no : Nat] /\ face \in FaceRec
  BY DEF TicketPageInit, Wordings, FaceRec
<1>5. ear \in EarRec /\ ear.tries <= MaxRecon /\ ear.tries < MaxRecon
  <2>1. ear = [at |-> "on", tries |-> 0, news |-> 0]
    BY DEF TicketPageInit
  <2>2. 0 <= MaxRecon /\ 0 < MaxRecon
    BY ReconAssumption
  <2>3. ear \in EarRec /\ ear.tries = 0
    BY <2>1 DEF EarRec
  <2> QED
    BY <2>2, <2>3
<1>6. botOk \in BOOLEAN /\ botUp \in BOOLEAN
  BY DEF TicketPageInit
<1> QED
  BY <1>1, <1>2, <1>3, <1>4, <1>5, <1>6 DEF TicketTypes

LEMMA EmittedType ==
  ASSUME TicketTypes
  PROVE  Emitted \in EarRec /\ Emitted.at = ear.at /\ Emitted.tries = ear.tries
<1>1. ear \in EarRec
  BY DEF TicketTypes
<1>2. \A n \in Nat : /\ [ear EXCEPT !.news = n] \in EarRec /\ [ear EXCEPT !.news = n].at = ear.at
                    /\ [ear EXCEPT !.news = n].tries = ear.tries
  BY <1>1 DEF EarRec
<1>3. PICK n \in Nat : Emitted = [ear EXCEPT !.news = n]
  <2>1. ear.news \in Nat /\ ear.news + 1 \in Nat
    BY <1>1 DEF EarRec
  <2>2. CASE ear.at = "on"
    <3>1. Emitted = [ear EXCEPT !.news = ear.news + 1]
      BY <2>2 DEF Emitted
    <3> QED
      BY <2>1, <3>1
  <2>3. CASE ear.at # "on"
    <3>1. Emitted = [ear EXCEPT !.news = ear.news]
      BY <2>3 DEF Emitted
    <3> QED
      BY <2>1, <3>1
  <2> QED
    BY <2>2, <2>3
<1> QED
  BY <1>2, <1>3

(* The page freed for the next change or closing.                            *)
LEMMA FreedType ==
  ASSUME NEW t, NEW as \in FaceRec
  PROVE  /\ Freed(t, as) \in FaceRec /\ Freed(t, as).who = as.who /\ Freed(t, as).ver = as.ver
         /\ Freed(t, as).newest = as.newest /\ (Freed(t, as).on <=> as.on)
<1>1. /\ [as EXCEPT !.assigning = FALSE] \in FaceRec
      /\ [as EXCEPT !.assigning = FALSE].who = as.who /\ [as EXCEPT !.assigning = FALSE].ver = as.ver
      /\ [as EXCEPT !.assigning = FALSE].newest = as.newest /\ ([as EXCEPT !.assigning = FALSE].on <=> as.on)
  BY DEF FaceRec
<1>2. /\ [as EXCEPT !.closing = FALSE] \in FaceRec
      /\ [as EXCEPT !.closing = FALSE].who = as.who /\ [as EXCEPT !.closing = FALSE].ver = as.ver
      /\ [as EXCEPT !.closing = FALSE].newest = as.newest /\ ([as EXCEPT !.closing = FALSE].on <=> as.on)
  BY DEF FaceRec
<1>3. CASE task[t].kind = "assign"
  BY <1>1, <1>3, Zenon DEF Freed
<1>4. CASE task[t].kind = "close"
  <2>1. Freed(t, as) = [as EXCEPT !.closing = FALSE]
    BY <1>4 DEF Freed
  <2> QED
    BY <1>2, <2>1, Zenon
<1>5. CASE task[t].kind \notin {"assign", "close"}
  <2>1. Freed(t, as) = as
    BY <1>5 DEF Freed
  <2> QED
    BY <2>1
<1> QED
  BY <1>3, <1>4, <1>5

LEMMA Replaced ==
  ASSUME TasksTyped, NEW t \in Tabs, NEW w \in TaskRec, task' = [task EXCEPT ![t] = w]
  PROVE  TasksTyped' /\ OthersStay(t) /\ task'[t] = w
BY DEF TasksTyped, OthersStay

LEMMA EarMoved ==
  \A e \in EarRec, a \in {"on", "off", "closed"}, n \in Nat :
    /\ [e EXCEPT !.at = a, !.tries = n] \in EarRec
    /\ [e EXCEPT !.at = a, !.tries = n].at = a /\ [e EXCEPT !.at = a, !.tries = n].tries = n
    /\ [e EXCEPT !.tries = n, !.at = a] = [e EXCEPT !.at = a, !.tries = n]
<1> SUFFICES ASSUME NEW e \in EarRec, NEW a \in {"on", "off", "closed"}, NEW n \in Nat
    PROVE  /\ [e EXCEPT !.at = a, !.tries = n] \in EarRec
           /\ [e EXCEPT !.at = a, !.tries = n].at = a /\ [e EXCEPT !.at = a, !.tries = n].tries = n
           /\ [e EXCEPT !.tries = n, !.at = a] = [e EXCEPT !.at = a, !.tries = n]
  OBVIOUS
<1>1. /\ [e EXCEPT !.at = a, !.tries = n] \in EarRec
      /\ [e EXCEPT !.at = a, !.tries = n].at = a /\ [e EXCEPT !.at = a, !.tries = n].tries = n
  BY DEF EarRec
<1>2. [e EXCEPT !.tries = n, !.at = a] = [e EXCEPT !.at = a, !.tries = n]
  BY DEF EarRec
<1> QED
  BY <1>1, <1>2

LEMMA RowMoved ==
  \A r \in RowRec, who \in SUBSET Staffers :
    /\ [r EXCEPT !.who = who, !.ver = @ + 1] \in RowRec
    /\ [r EXCEPT !.who = who, !.ver = @ + 1].who = who
    /\ [r EXCEPT !.who = who, !.ver = @ + 1].ver = r.ver + 1
<1> SUFFICES ASSUME NEW r \in RowRec, NEW who \in SUBSET Staffers
    PROVE  /\ [r EXCEPT !.who = who, !.ver = @ + 1] \in RowRec
           /\ [r EXCEPT !.who = who, !.ver = @ + 1].who = who
           /\ [r EXCEPT !.who = who, !.ver = @ + 1].ver = r.ver + 1
  OBVIOUS
<1>1. \A n \in Nat : /\ [r EXCEPT !.who = who, !.ver = n] \in RowRec
                    /\ [r EXCEPT !.who = who, !.ver = n].who = who
                    /\ [r EXCEPT !.who = who, !.ver = n].ver = n
  BY DEF RowRec
<1>2. r.ver + 1 \in Nat
  BY DEF RowRec
<1> QED
  BY <1>1, <1>2

(* Requests as they are sent.                                                *)
LEMMA SendTask ==
  ASSUME TicketTypes, NEW t \in Tabs,
         task' = [task EXCEPT ![t] = [Unasked EXCEPT !.kind = "send", !.pc = "auth",
                    !.no = composer.no, !.text = composer.text, !.files = composer.files]]
  PROVE  /\ TasksTyped' /\ OthersStay(t)
         /\ task'[t].kind = "send" /\ task'[t].pc = "auth" /\ task'[t].no = composer.no
         /\ task'[t].base = 0
<1> DEFINE w == [Unasked EXCEPT !.kind = "send", !.pc = "auth",
                    !.no = composer.no, !.text = composer.text, !.files = composer.files]
<1>1. composer.no \in Nat /\ composer.text \in Wordings /\ composer.files \in SUBSET Papers
  BY DEF TicketTypes
<1>2. w \in TaskRec
  BY <1>1, Zenon DEF Unasked, TaskRec, TaskPc
<1>3. w.kind = "send" /\ w.pc = "auth" /\ w.no = composer.no /\ w.base = 0
  BY Zenon DEF Unasked
<1>4. task' = [task EXCEPT ![t] = w]
  OBVIOUS
<1> HIDE DEF w
<1> QED
  BY <1>2, <1>3, <1>4 DEF TicketTypes, TasksTyped, OthersStay

LEMMA PlainTask ==
  ASSUME TasksTyped, NEW t \in Tabs, NEW kind \in {"close", "load"}, NEW pc \in {"post", "loading"},
         task' = [task EXCEPT ![t] = [Unasked EXCEPT !.kind = kind, !.pc = pc]]
  PROVE  /\ TasksTyped' /\ OthersStay(t)
         /\ task'[t].kind = kind /\ task'[t].pc = pc /\ task'[t].base = 0
<1> DEFINE w == [Unasked EXCEPT !.kind = kind, !.pc = pc]
<1>1. \A r \in TaskRec : LET v == [r EXCEPT !.kind = kind, !.pc = pc] IN
          v \in TaskRec /\ v.kind = kind /\ v.pc = pc /\ v.base = r.base
  BY DEF TaskRec, TaskPc
<1>2. w \in TaskRec /\ w.kind = kind /\ w.pc = pc /\ w.base = 0
  BY <1>1, UnaskedType
<1>3. task' = [task EXCEPT ![t] = w]
  OBVIOUS
<1> HIDE DEF w
<1> QED
  BY <1>2, <1>3 DEF TasksTyped, OthersStay

(* A change of assignees; those under way are rash from now on.              *)
LEMMA ChangeTask ==
  ASSUME TicketTypes, NEW t \in Tabs, NEW add \in SUBSET Staffers, NEW drop \in SUBSET Staffers,
         Change(t, add, drop)
  PROVE  /\ TasksTyped'
         /\ task'[t].kind = "assign" /\ task'[t].pc = "post" /\ task'[t].add = add
         /\ task'[t].drop = drop /\ task'[t].list = (face.who \cup add) \ drop
         /\ task'[t].base = face.ver /\ (task'[t].rash <=> Rash)
         /\ \A q \in Tabs : q # t =>
              /\ task'[q].kind = task[q].kind /\ task'[q].pc = task[q].pc
              /\ task'[q].text = task[q].text /\ task'[q].files = task[q].files
              /\ task'[q].no = task[q].no /\ task'[q].list = task[q].list
              /\ task'[q].base = task[q].base /\ (task'[q].rash <=> task[q].kind = "assign")
<1> DEFINE w == [Unasked EXCEPT !.kind = "assign", !.pc = "post", !.add = add, !.drop = drop,
                    !.list = (face.who \cup add) \ drop, !.base = face.ver, !.rash = Rash]
           old(q) == [task[q] EXCEPT !.rash = task[q].kind = "assign"]
<1>1. face.who \in SUBSET Staffers /\ face.ver \in Nat /\ Rash \in BOOLEAN
  BY DEF TicketTypes, FaceRec, Rash
<1>2. w \in TaskRec
  <2>1. (face.who \cup add) \ drop \in SUBSET Staffers
    BY <1>1
  <2> QED
    BY <1>1, <2>1, Zenon DEF Unasked, TaskRec, TaskPc, Wordings
<1>3. /\ w.kind = "assign" /\ w.pc = "post" /\ w.add = add /\ w.drop = drop
      /\ w.list = (face.who \cup add) \ drop /\ w.base = face.ver /\ (w.rash <=> Rash)
  BY Zenon DEF Unasked
<1>4. \A r \in TaskRec, b \in BOOLEAN :
        LET v == [r EXCEPT !.rash = b] IN
          /\ v \in TaskRec /\ v.kind = r.kind /\ v.pc = r.pc /\ v.text = r.text
          /\ v.files = r.files /\ v.no = r.no /\ v.list = r.list /\ v.base = r.base
          /\ (v.rash <=> b)
  BY DEF TaskRec
<1>5. \A q \in Tabs :
        /\ old(q) \in TaskRec /\ old(q).kind = task[q].kind /\ old(q).pc = task[q].pc
        /\ old(q).text = task[q].text /\ old(q).files = task[q].files /\ old(q).no = task[q].no
        /\ old(q).list = task[q].list /\ old(q).base = task[q].base
        /\ (old(q).rash <=> task[q].kind = "assign")
  <2> SUFFICES ASSUME NEW q \in Tabs
        PROVE  /\ old(q) \in TaskRec /\ old(q).kind = task[q].kind /\ old(q).pc = task[q].pc
               /\ old(q).text = task[q].text /\ old(q).files = task[q].files /\ old(q).no = task[q].no
               /\ old(q).list = task[q].list /\ old(q).base = task[q].base
               /\ (old(q).rash <=> task[q].kind = "assign")
    OBVIOUS
  <2>1. task[q] \in TaskRec /\ (task[q].kind = "assign") \in BOOLEAN
    BY DEF TicketTypes, TasksTyped
  <2> QED
    BY <2>1, <1>4, ZenonT(30)
<1>6. task' = [q \in Tabs |-> IF q = t THEN w ELSE old(q)]
  BY DEF Change
<1> HIDE DEF w, old
<1> QED
  BY <1>2, <1>3, <1>5, <1>6 DEF TasksTyped

(* A load's answer.                                                          *)
LEMMA ServeTask ==
  ASSUME TicketTypes, NEW t \in Tabs, ServeTicket(t)
  PROVE  /\ TasksTyped' /\ OthersStay(t)
         /\ task'[t].pc = "loaded" /\ task'[t].kind = task[t].kind /\ task'[t].no = task[t].no
         /\ task'[t].list = ticketRow.who /\ task'[t].base = ticketRow.ver
         /\ (task'[t].rash <=> task[t].rash)
<1> DEFINE w == [task[t] EXCEPT !.pc = "loaded", !.list = ticketRow.who, !.base = ticketRow.ver,
                                !.open = ticketRow.open]
<1>1. task[t] \in TaskRec /\ ticketRow.who \in SUBSET Staffers /\ ticketRow.ver \in Nat
      /\ ticketRow.open \in BOOLEAN
  BY DEF TicketTypes, TasksTyped, RowRec
<1>2. w \in TaskRec
  BY <1>1 DEF TaskRec, TaskPc
<1>3. /\ w.pc = "loaded" /\ w.kind = task[t].kind /\ w.no = task[t].no
      /\ w.list = ticketRow.who /\ w.base = ticketRow.ver /\ (w.rash <=> task[t].rash)
  BY <1>1 DEF TaskRec
<1>4. task' = [task EXCEPT ![t] = w]
  BY DEF ServeTicket
<1> HIDE DEF w
<1> QED
  BY <1>2, <1>3, <1>4 DEF TicketTypes, TasksTyped, OthersStay

LEMMA UploadTask ==
  ASSUME TicketTypes, NEW t \in Tabs, NEW up \in SUBSET task[t].files,
         task' = [task EXCEPT ![t].pc = "post", ![t].files = up]
  PROVE  /\ TasksTyped' /\ OthersStay(t)
         /\ task'[t].pc = "post" /\ task'[t].kind = task[t].kind /\ task'[t].no = task[t].no
         /\ task'[t].base = task[t].base
<1> DEFINE w == [task[t] EXCEPT !.pc = "post", !.files = up]
<1>1. task[t] \in TaskRec /\ up \in SUBSET Papers
  BY DEF TicketTypes, TasksTyped, TaskRec
<1>2. w \in TaskRec
  BY <1>1 DEF TaskRec, TaskPc
<1>3. w.pc = "post" /\ w.kind = task[t].kind /\ w.no = task[t].no /\ w.base = task[t].base
  BY <1>1 DEF TaskRec
<1>4. task' = [task EXCEPT ![t] = w]
  OBVIOUS
<1> HIDE DEF w
<1> QED
  BY <1>2, <1>3, <1>4, Replaced DEF TicketTypes

LEMMA ReplyType == ASSUME TasksTyped, NEW t \in Tabs PROVE Reply(t) \in ReplyRec
BY DEF TasksTyped, TaskRec, Reply, ReplyRec

LEMMA TicketTypesKept == TicketTypes /\ [TicketPageNext]_ticketPageVars => TicketTypes'
<1> SUFFICES ASSUME TicketTypes, [TicketPageNext]_ticketPageVars PROVE TicketTypes'
  OBVIOUS
<1>0. TasksTyped /\ face \in FaceRec /\ ticketRow \in RowRec /\ ear \in EarRec /\ foreign \in Nat
  BY DEF TicketTypes
<1> DEFINE Rest == UNCHANGED <<ticketRow, replies, inThread, composer, face, ear, botOk, botUp, meant, foreign>>
<1>a. ASSUME TasksTyped', Rest PROVE TicketTypes'
  BY <1>a DEF TicketTypes
<1>b. ASSUME TasksTyped', face' \in FaceRec,
             UNCHANGED <<ticketRow, replies, inThread, composer, ear, botOk, botUp, meant, foreign>>
      PROVE  TicketTypes'
  BY <1>b DEF TicketTypes
<1>c. ASSUME NEW t \in Tabs, NEW pc \in TaskPc, Goes(t, pc) PROVE TasksTyped'
  BY <1>0, <1>c, GoesOn
<1>d. ASSUME NEW t \in Tabs, Over(t) PROVE TasksTyped'
  BY <1>0, <1>d, GoesOver
<1>e. ear' \in {ear, Emitted} => /\ ear' \in EarRec /\ ear'.tries <= MaxRecon
                               /\ (ear'.at # "closed" => ear'.tries < MaxRecon)
  BY EmittedType DEF TicketTypes
<1>1. ASSUME NEW text \in Wordings, Compose(text) PROVE TicketTypes'
  <2>1. composer' \in [text : Wordings, files : SUBSET Papers, no : Nat]
    BY <1>1 DEF Compose, TicketTypes
  <2> QED
    BY <1>1, <2>1 DEF Compose, ComposerOnly, RowsAlone, Outside, TicketTypes, TasksTyped
<1>2. CASE Format
  <2>1. composer' \in [text : Wordings, files : SUBSET Papers, no : Nat]
    BY <1>2 DEF Format, TicketTypes, Wordings
  <2> QED
    BY <1>2, <2>1 DEF Format, ComposerOnly, RowsAlone, Outside, TicketTypes, TasksTyped
<1>3. ASSUME NEW p \in Papers, Attach(p) \/ Detach(p) PROVE TicketTypes'
  <2>1. PICK fs \in SUBSET Papers : composer' = [composer EXCEPT !.files = fs]
    <3>1. composer.files \in SUBSET Papers
      BY DEF TicketTypes
    <3>2. CASE Attach(p)
      <4>1. composer.files \cup {p} \in SUBSET Papers
        BY <3>1
      <4> QED
        BY <3>2, <4>1 DEF Attach
    <3>3. CASE Detach(p)
      <4>1. composer.files \ {p} \in SUBSET Papers
        BY <3>1
      <4> QED
        BY <3>3, <4>1 DEF Detach
    <3> QED
      BY <1>3, <3>2, <3>3
  <2>2. composer' \in [text : Wordings, files : SUBSET Papers, no : Nat]
    BY <2>1 DEF TicketTypes
  <2> QED
    BY <1>3, <2>2 DEF Attach, Detach, ComposerOnly, RowsAlone, Outside, TicketTypes, TasksTyped
<1>4. ASSUME NEW t \in Tabs, SendReply(t) PROVE TicketTypes'
  <2>1. TasksTyped'
    BY <1>4, SendTask DEF SendReply
  <2>2. composer' \in [text : Wordings, files : SUBSET Papers, no : Nat]
    <3>1. composer.no + 1 \in Nat
      BY DEF TicketTypes
    <3> QED
      BY <1>4, <3>1 DEF SendReply, Wordings
  <2> QED
    BY <1>4, <2>1, <2>2 DEF SendReply, RowsAlone, Outside, TicketTypes
<1>5. ASSUME NEW t \in Tabs, Uploads(t) PROVE TicketTypes'
  <2>1. TasksTyped'
    BY <1>5, <1>d, UploadTask DEF Uploads
  <2> QED
    BY <1>5, <2>1, <1>a DEF Uploads, RowsAlone, Outside
<1>6. ASSUME NEW t \in Tabs, ReadTicket(t) \/ DoneLoadAgain(t) PROVE TicketTypes'
  <2>1. PICK pc \in TaskPc : Goes(t, pc)
    BY <1>6 DEF ReadTicket, DoneLoadAgain, TaskPc
  <2>2. TasksTyped'
    BY <2>1, <1>c
  <2> QED
    BY <1>6, <2>2, <1>a DEF ReadTicket, DoneLoadAgain, RowsAlone, Outside
<1>7. ASSUME NEW t \in Tabs, StoreReply(t) PROVE TicketTypes'
  <2>1. TasksTyped'
    BY <1>7, <1>c DEF StoreReply, TaskPc
  <2>2. replies' \subseteq ReplyRec
    BY <1>7, <1>0, ReplyType DEF StoreReply, TicketTypes
  <2> QED
    BY <1>7, <2>1, <2>2 DEF StoreReply, Outside, TicketTypes
<1>8. ASSUME NEW t \in Tabs, BridgeAsker(t) PROVE TicketTypes'
  <2>1. TasksTyped'
    BY <1>8, <1>c DEF BridgeAsker, TaskPc
  <2>2. inThread' \in [asker : Seq(ReplyRec), staff : Seq(ReplyRec)]
    <3>1. inThread \in [asker : Seq(ReplyRec), staff : Seq(ReplyRec)] /\ Reply(t) \in ReplyRec
      BY <1>0, ReplyType DEF TicketTypes
    <3>2. \/ inThread' = inThread
          \/ inThread' = [inThread EXCEPT !.asker = Append(inThread.asker, Reply(t))]
      BY <1>8 DEF BridgeAsker
    <3>3. inThread.asker \in Seq(ReplyRec) /\ Append(inThread.asker, Reply(t)) \in Seq(ReplyRec)
      BY <3>1
    <3> QED
      BY <3>1, <3>2, <3>3
  <2> QED
    BY <1>8, <2>1, <2>2 DEF BridgeAsker, Outside, TicketTypes
<1>9. ASSUME NEW t \in Tabs, BridgeStaff(t) PROVE TicketTypes'
  <2>1. TasksTyped'
    BY <1>9, <1>c DEF BridgeStaff, TaskPc
  <2>2. inThread' \in [asker : Seq(ReplyRec), staff : Seq(ReplyRec)] /\ ear' \in {ear, Emitted}
    <3>1. inThread \in [asker : Seq(ReplyRec), staff : Seq(ReplyRec)] /\ Reply(t) \in ReplyRec
      BY <1>0, ReplyType DEF TicketTypes
    <3>2. /\ \/ inThread' = inThread
             \/ inThread' = [inThread EXCEPT !.staff = Append(inThread.staff, Reply(t))]
          /\ ear' \in {ear, Emitted}
      BY <1>9 DEF BridgeStaff
    <3>3. inThread.staff \in Seq(ReplyRec) /\ Append(inThread.staff, Reply(t)) \in Seq(ReplyRec)
      BY <3>1
    <3> QED
      BY <3>1, <3>2, <3>3
  <2> QED
    BY <1>9, <2>1, <2>2, <1>e DEF BridgeStaff, TicketTypes
<1>10. ASSUME NEW t \in Tabs, NEW add \in SUBSET Staffers, NEW drop \in SUBSET Staffers,
              Change(t, add, drop)
       PROVE  TicketTypes'
  <2>1. TasksTyped'
    BY <1>10, ChangeTask
  <2>2. face' \in FaceRec
    BY <1>10, <1>0 DEF Change, FaceRec
  <2> QED
    BY <1>10, <2>1, <2>2, <1>b DEF Change, RowsAlone, Outside
<1>11. ASSUME NEW t \in Tabs, WriteList(t) PROVE TicketTypes'
  <2>1. TasksTyped'
    BY <1>11, <1>c DEF WriteList, TaskPc
  <2>2. ear' \in {ear, Emitted}
    BY <1>11 DEF WriteList, RowsAlone
  <2>3. ticketRow' \in RowRec /\ meant' \subseteq Staffers /\ UNCHANGED <<replies, inThread, foreign>>
    <3>0. task[t].list \in SUBSET Staffers /\ task[t].add \in SUBSET Staffers
          /\ ticketRow.who \in SUBSET Staffers
      BY <1>0 DEF TasksTyped, TaskRec, RowRec
    <3>1. CASE RowsAlone
      BY <3>1 DEF RowsAlone, TicketTypes
    <3>2. CASE ticketRow' = [ticketRow EXCEPT !.who = task[t].list, !.ver = @ + 1]
      <4>1. ticketRow' \in RowRec
        BY <3>0, <3>2, <1>0, RowMoved
      <4>2. meant' \subseteq Staffers /\ UNCHANGED <<replies, inThread, foreign>>
        BY <1>11, <3>0 DEF WriteList, RowsAlone, TicketTypes
      <4> QED
        BY <4>1, <4>2
    <3> QED
      BY <1>11, <3>1, <3>2 DEF WriteList
  <2> QED
    BY <1>11, <2>1, <2>2, <2>3, <1>e DEF WriteList, TicketTypes
<1>12. ASSUME NEW t \in Tabs, CloseTicket(t) PROVE TicketTypes'
  <2>1. TasksTyped'
    BY <1>0, <1>12, PlainTask DEF CloseTicket
  <2>2. face' \in FaceRec
    BY <1>12, <1>0 DEF CloseTicket, FaceRec
  <2> QED
    BY <1>12, <2>1, <2>2, <1>b DEF CloseTicket, RowsAlone, Outside
<1>13. ASSUME NEW t \in Tabs, WriteClosed(t) PROVE TicketTypes'
  <2>1. TasksTyped'
    BY <1>13, <1>c DEF WriteClosed, TaskPc
  <2>2. ear' \in {ear, Emitted}
    BY <1>13 DEF WriteClosed
  <2>3. ticketRow' \in RowRec
    BY <1>0, <1>13 DEF WriteClosed, RowRec
  <2> QED
    BY <1>13, <2>1, <2>2, <2>3, <1>e DEF WriteClosed, TicketTypes
<1>14. ASSUME NEW t \in Tabs, Hear(t) PROVE TicketTypes'
  <2>1. TasksTyped'
    BY <1>0, <1>14, PlainTask DEF Hear
  <2>2. ear' \in EarRec /\ ear'.at = ear.at /\ ear'.tries = ear.tries
    BY <1>0, <1>14 DEF Hear, EarRec
  <2> QED
    BY <1>14, <2>1, <2>2 DEF Hear, RowsAlone, TicketTypes
<1>15. ASSUME NEW t \in Tabs, ClosedAnswered(t) \/ LoadRefused(t) PROVE TicketTypes'
  <2>1. TasksTyped'
    BY <1>15, <1>d DEF ClosedAnswered, LoadRefused
  <2>2. face' \in FaceRec
    <3>1. CASE ClosedAnswered(t)
      BY <3>1, <1>0 DEF ClosedAnswered, FaceRec
    <3>2. CASE LoadRefused(t)
      <4>1. Freed(t, face) \in FaceRec
        BY <1>0, FreedType
      <4> QED
        BY <3>2, <4>1 DEF LoadRefused, FaceRec
    <3> QED
      BY <1>15, <3>1, <3>2
  <2> QED
    BY <1>15, <2>1, <2>2, <1>b DEF ClosedAnswered, LoadRefused, RowsAlone, Outside
<1>16. ASSUME NEW t \in Tabs, Unanswered(t) PROVE TicketTypes'
  <2>1. TasksTyped'
    BY <1>16, <1>d DEF Unanswered
  <2>2. face' \in FaceRec
    BY <1>16, <1>0, FreedType DEF Unanswered
  <2>3. foreign' \in Nat
    BY <1>16, <1>0 DEF Unanswered, RowRec
  <2> QED
    BY <1>16, <2>1, <2>2, <2>3 DEF Unanswered, Outside, TicketTypes
<1>17. ASSUME NEW t \in Tabs, ServeTicket(t) PROVE TicketTypes'
  <2>1. TasksTyped'
    BY <1>17, ServeTask
  <2> QED
    BY <1>17, <2>1, <1>a DEF ServeTicket, RowsAlone, Outside
<1>18. ASSUME NEW t \in Tabs, LoadShown(t) PROVE TicketTypes'
  <2>1. TasksTyped'
    BY <1>18, <1>d DEF LoadShown
  <2>2. face' \in FaceRec
    <3>1. Freed(t, face) \in FaceRec
      BY <1>0, FreedType
    <3>2. task[t] \in TaskRec
      BY <1>0 DEF TasksTyped
    <3> QED
      BY <1>18, <3>1, <3>2 DEF LoadShown, FaceRec, TaskRec
  <2> QED
    BY <1>18, <2>1, <2>2, <1>b DEF LoadShown, RowsAlone, Outside
<1>19. CASE BotFlaps \/ CheckHealth
  BY <1>19 DEF BotFlaps, CheckHealth, SocketOnly, RowsAlone, TicketTypes, TasksTyped
<1>20. CASE Connects \/ Disconnects \/ ConnectError
  <2>1. /\ ear' \in EarRec /\ ear'.tries <= MaxRecon
        /\ (ear'.at # "closed" => ear'.tries < MaxRecon)
    <3>0. ear.tries \in Nat /\ MaxRecon \in Nat /\ 0 < MaxRecon
      BY <1>0, ReconAssumption DEF EarRec
    <3>1. CASE Connects
      <4>1. ear' = [ear EXCEPT !.at = "on", !.tries = 0] /\ 0 \in Nat /\ "on" \in {"on", "off", "closed"}
        BY <3>1 DEF Connects
      <4>2. ear' \in EarRec /\ ear'.at = "on" /\ ear'.tries = 0
        BY <1>0, <4>1, EarMoved, Zenon
      <4> QED
        BY <3>0, <4>2
    <3>2. CASE Disconnects
      BY <1>0, <3>0, <3>2 DEF Disconnects, EarRec, TicketTypes
    <3>3. CASE ConnectError
      <4>1. ear.tries < MaxRecon
        BY <3>3 DEF ConnectError, TicketTypes
      <4>2. CASE ear.tries + 1 >= MaxRecon
        <5>1. ear' = [ear EXCEPT !.tries = ear.tries + 1, !.at = "closed"]
          BY <3>3, <4>2 DEF ConnectError
        <5>2. ear' \in EarRec /\ ear'.at = "closed" /\ ear'.tries = ear.tries + 1
          <6>1. ear.tries + 1 \in Nat /\ "closed" \in {"on", "off", "closed"}
            BY <3>0
          <6> DEFINE n == ear.tries + 1
          <6>2. ear' = [ear EXCEPT !.tries = n, !.at = "closed"] /\ n \in Nat
            BY <5>1, <6>1
          <6> HIDE DEF n
          <6>3. ear' = [ear EXCEPT !.at = "closed", !.tries = n]
            BY <1>0, <6>1, <6>2, EarMoved, Zenon
          <6> DEFINE e == [ear EXCEPT !.at = "closed", !.tries = n]
          <6>4. e \in EarRec /\ e.at = "closed" /\ e.tries = n /\ ear' = e
            <7>1. ear' = e
              BY <6>3
            <7>2. e \in EarRec /\ e.at = "closed" /\ e.tries = n
              BY <1>0, <6>1, <6>2, EarMoved, Zenon
            <7> QED
              BY <7>1, <7>2
          <6> HIDE DEF e
          <6>5. ear' \in EarRec /\ ear'.at = "closed" /\ ear'.tries = n
            BY <6>4
          <6> QED
            BY <6>5 DEF n
        <5> QED
          BY <3>0, <4>1, <5>2
      <4>3. CASE ~(ear.tries + 1 >= MaxRecon)
        <5>1. ear' = [ear EXCEPT !.tries = ear.tries + 1, !.at = "off"]
          BY <3>3, <4>3 DEF ConnectError
        <5>2. ear' \in EarRec /\ ear'.at = "off" /\ ear'.tries = ear.tries + 1
          <6>1. ear.tries + 1 \in Nat /\ "off" \in {"on", "off", "closed"}
            BY <3>0
          <6> DEFINE n == ear.tries + 1
          <6>2. ear' = [ear EXCEPT !.tries = n, !.at = "off"] /\ n \in Nat
            BY <5>1, <6>1
          <6> HIDE DEF n
          <6>3. ear' = [ear EXCEPT !.at = "off", !.tries = n]
            BY <1>0, <6>1, <6>2, EarMoved, Zenon
          <6> DEFINE e == [ear EXCEPT !.at = "off", !.tries = n]
          <6>4. e \in EarRec /\ e.at = "off" /\ e.tries = n /\ ear' = e
            <7>1. ear' = e
              BY <6>3
            <7>2. e \in EarRec /\ e.at = "off" /\ e.tries = n
              BY <1>0, <6>1, <6>2, EarMoved, Zenon
            <7> QED
              BY <7>1, <7>2
          <6> HIDE DEF e
          <6>5. ear' \in EarRec /\ ear'.at = "off" /\ ear'.tries = n
            BY <6>4
          <6> QED
            BY <6>5 DEF n
        <5> QED
          BY <3>0, <4>3, <5>2
      <4> QED
        BY <4>2, <4>3
    <3> QED
      BY <1>20, <3>1, <3>2, <3>3
  <2>2. botOk' \in BOOLEAN
    BY <1>20 DEF Connects, Disconnects, ConnectError
  <2> QED
    BY <1>20, <2>1, <2>2 DEF Connects, Disconnects, ConnectError, SocketOnly, RowsAlone, TicketTypes, TasksTyped
<1>21. CASE Colleague
  <2>1. ticketRow' \in RowRec /\ meant' \subseteq Staffers /\ foreign' \in Nat
    <3>1. CASE \E who \in SUBSET Staffers :
                 /\ ticketRow' = [ticketRow EXCEPT !.who = who, !.ver = @ + 1]
                 /\ meant' = who /\ foreign' = ticketRow.ver + 1
      <4>1. ticketRow.ver + 1 \in Nat
        BY <1>0 DEF RowRec
      <4> QED
        BY <3>1, <4>1, <1>0, RowMoved
    <3>2. CASE ticketRow' = [ticketRow EXCEPT !.open = FALSE] /\ UNCHANGED <<meant, foreign>>
      BY <3>2, <1>0 DEF RowRec, TicketTypes
    <3> QED
      BY <1>21, <3>1, <3>2 DEF Colleague
  <2> QED
    BY <1>21, <2>1 DEF Colleague, Outside, TicketTypes, TasksTyped
<1>22. CASE UNCHANGED ticketPageVars
  BY <1>22 DEF ticketPageVars, TicketTypes, TasksTyped
<1>23. ASSUME NEW t \in Tabs, NEW p \in Staffers, AddAssignee(t, p) \/ RemoveAssignee(t, p)
       PROVE  TicketTypes'
  <2>1. {p} \in SUBSET Staffers /\ {} \in SUBSET Staffers
    OBVIOUS
  <2> QED
    BY <1>10, <1>23, <2>1 DEF AddAssignee, RemoveAssignee
<1> QED
  BY <1>1, <1>2, <1>3, <1>4, <1>5, <1>6, <1>7, <1>8, <1>9, <1>11, <1>12, <1>13, <1>14, <1>15,
     <1>16, <1>17, <1>18, <1>19, <1>20, <1>21, <1>22, <1>23
  DEF TicketPageNext

------------------------------------------------------------------------------
(* Assignees as people asked for them                                        *)

(* The load after a change, still on its way to the page.                    *)
Carries(t) ==
  /\ task[t].kind = "assign"
  /\ task[t].pc \in {"ok", "loading"} \/ (task[t].pc = "loaded" /\ task[t].base = ticketRow.ver)

AssignInv ==
  /\ \A t \in Tabs : /\ task[t].pc = "idle" => task[t].kind = "none"
                     /\ task[t].base <= ticketRow.ver
                     /\ task[t].pc = "loaded" /\ task[t].base = ticketRow.ver
                          => task[t].list = ticketRow.who
                     /\ task[t].kind = "assign" /\ task[t].pc = "post" /\ ~task[t].rash
                          /\ foreign <= task[t].base
                          => task[t].list = (ticketRow.who \cup task[t].add) \ task[t].drop
  /\ \A t, q \in Tabs : t # q /\ task[t].kind = "assign" /\ task[q].kind = "assign" => task[t].rash
  /\ face.ver <= ticketRow.ver /\ face.newest <= ticketRow.ver /\ foreign <= ticketRow.ver
  /\ face.ver = ticketRow.ver => face.who = ticketRow.who
  /\ face.on => foreign = ticketRow.ver \/ face.newest = ticketRow.ver \/ \E t \in Tabs : Carries(t)
  /\ ticketRow.who = meant

(* Steps that leave the row's assignees alone: what they do to a request, to *)
(* the page and to the row.                                                  *)
RequestKept(t) ==
  /\ task'[t].kind = "assign" => task[t].kind = "assign" /\ task'[t].rash = task[t].rash
  /\ task'[t].kind = "assign" /\ task'[t].pc = "post" =>
       /\ task[t].pc = "post" /\ task'[t].list = task[t].list /\ task'[t].add = task[t].add
       /\ task'[t].drop = task[t].drop /\ task'[t].base = task[t].base
  /\ task'[t].pc = "loaded" /\ task'[t].base = ticketRow.ver => task'[t].list = ticketRow.who
  /\ task'[t].base <= ticketRow.ver
  /\ task'[t].pc = "idle" => task'[t].kind = "none"
  /\ Carries(t) /\ face'.on =>
       Carries(t)' \/ foreign' = ticketRow.ver \/ face'.newest = ticketRow.ver
PageKept ==
  /\ face'.on => face.on
  /\ face'.ver <= ticketRow.ver /\ face'.newest <= ticketRow.ver
  /\ face.newest = ticketRow.ver => face'.newest = ticketRow.ver
  /\ face'.ver = ticketRow.ver => face'.who = ticketRow.who
RowKept ==
  /\ ticketRow'.who = ticketRow.who /\ ticketRow'.ver = ticketRow.ver /\ meant' = meant
  /\ foreign' \in {foreign, ticketRow.ver}

LEMMA RowStays ==
  ASSUME TicketTypes, AssignInv, TicketTypes', RowKept, PageKept, \A t \in Tabs : RequestKept(t)
  PROVE  AssignInv'
<1>0. foreign \in Nat /\ foreign' \in Nat /\ ticketRow.ver \in Nat
      /\ (\A t \in Tabs : task[t].base \in Nat)
  BY DEF TicketTypes, RowRec, TasksTyped, TaskRec
<1>1. foreign <= foreign' /\ foreign' <= ticketRow.ver
  BY <1>0 DEF RowKept, AssignInv
<1>2. ASSUME NEW t \in Tabs
      PROVE  /\ task'[t].pc = "idle" => task'[t].kind = "none"
             /\ task'[t].base <= ticketRow'.ver
             /\ task'[t].pc = "loaded" /\ task'[t].base = ticketRow'.ver
                  => task'[t].list = ticketRow'.who
  BY <1>2 DEF RowKept, RequestKept
<1>3. ASSUME NEW t \in Tabs, task'[t].kind = "assign", task'[t].pc = "post", ~task'[t].rash,
             foreign' <= task'[t].base
      PROVE  task'[t].list = (ticketRow'.who \cup task'[t].add) \ task'[t].drop
  <2>1. /\ task[t].kind = "assign" /\ task'[t].rash = task[t].rash /\ task[t].pc = "post"
        /\ task'[t].list = task[t].list /\ task'[t].add = task[t].add
        /\ task'[t].drop = task[t].drop /\ task'[t].base = task[t].base
    BY <1>3 DEF RequestKept
  <2>2. foreign <= task[t].base /\ ~task[t].rash
    BY <1>0, <1>1, <1>3, <2>1
  <2>3. task[t].list = (ticketRow.who \cup task[t].add) \ task[t].drop
    BY <2>1, <2>2 DEF AssignInv
  <2> QED
    BY <2>1, <2>3 DEF RowKept
<1>4. ASSUME NEW t \in Tabs, NEW q \in Tabs, t # q, task'[t].kind = "assign", task'[q].kind = "assign"
      PROVE  task'[t].rash
  BY <1>4 DEF RequestKept, AssignInv
<1>5. /\ face'.ver <= ticketRow'.ver /\ face'.newest <= ticketRow'.ver /\ foreign' <= ticketRow'.ver
      /\ face'.ver = ticketRow'.ver => face'.who = ticketRow'.who
      /\ ticketRow'.who = meant'
  BY <1>1 DEF RowKept, PageKept, AssignInv
<1>6. ASSUME face'.on
      PROVE  foreign' = ticketRow'.ver \/ face'.newest = ticketRow'.ver \/ \E t \in Tabs : Carries(t)'
  <2>1. foreign = ticketRow.ver \/ face.newest = ticketRow.ver \/ \E t \in Tabs : Carries(t)
    BY <1>6 DEF PageKept, AssignInv
  <2>2. CASE foreign = ticketRow.ver \/ face.newest = ticketRow.ver
    BY <2>2 DEF PageKept, RowKept
  <2>3. CASE \E t \in Tabs : Carries(t)
    BY <1>6, <2>3 DEF RequestKept, RowKept
  <2> QED
    BY <2>1, <2>2, <2>3
<1> QED
  BY <1>2, <1>3, <1>4, <1>5, <1>6 DEF AssignInv, Carries

LEMMA SameRequest ==
  ASSUME AssignInv, RowKept, NEW t \in Tabs, task'[t] = task[t]
  PROVE  RequestKept(t)
BY DEF RequestKept, AssignInv, RowKept, Carries

LEMMA SamePage ==
  ASSUME AssignInv, face'.on => face.on, face'.who = face.who, face'.ver = face.ver,
         face'.newest = face.newest
  PROVE  PageKept
BY DEF PageKept, AssignInv

(* One request is moved on, and the others are not.                          *)
LEMMA OneRequestMoves ==
  ASSUME TicketTypes, AssignInv, TicketTypes', RowKept, PageKept,
         NEW t \in Tabs, OthersStay(t), RequestKept(t)
  PROVE  AssignInv'
<1>1. \A q \in Tabs : RequestKept(q)
  BY SameRequest DEF OthersStay
<1> QED
  BY <1>1, RowStays

LEMMA AssignFirst == TicketPageInit => AssignInv
<1> SUFFICES ASSUME TicketPageInit PROVE AssignInv
  OBVIOUS
<1>1. \A t \in Tabs : task[t] = Unasked
  BY DEF TicketPageInit
<1>2. ticketRow.ver = 0 /\ ticketRow.who = {} /\ meant = {} /\ foreign = 0
      /\ face.ver = 0 /\ face.newest = 0 /\ face.who = {}
  BY DEF TicketPageInit
<1> QED
  BY <1>1, <1>2, UnaskedType DEF AssignInv

LEMMA AssignKept ==
  ASSUME TicketTypes, AssignInv, TicketTypes', [TicketPageNext]_ticketPageVars
  PROVE  AssignInv'
<1>0. TasksTyped /\ face \in FaceRec /\ ticketRow \in RowRec /\ foreign \in Nat
  BY DEF TicketTypes
<1>k. ASSUME UNCHANGED <<ticketRow, meant, foreign>> PROVE RowKept
  BY <1>k DEF RowKept
<1>p. ASSUME UNCHANGED face PROVE PageKept
  BY <1>p, SamePage
<1>s. ASSUME UNCHANGED <<ticketRow, meant, foreign>>, UNCHANGED face, UNCHANGED task
      PROVE  AssignInv'
  BY <1>s, <1>k, <1>p, SameRequest, RowStays
<1>1. CASE \/ \E text \in Wordings \ {""} : Compose(text)
           \/ Format
           \/ \E p \in Papers : Attach(p) \/ Detach(p)
  BY <1>1, <1>s DEF Compose, Format, Attach, Detach, ComposerOnly, RowsAlone
<1>2. CASE BotFlaps \/ CheckHealth \/ Connects \/ Disconnects \/ ConnectError
  BY <1>2, <1>s DEF BotFlaps, CheckHealth, Connects, Disconnects, ConnectError, SocketOnly, RowsAlone
<1>3. ASSUME NEW t \in Tabs, SendReply(t) PROVE AssignInv'
  <2>1. OthersStay(t) /\ task'[t].kind = "send" /\ task'[t].pc = "auth" /\ task'[t].base = 0
        /\ task[t].pc = "idle"
    BY <1>3, SendTask DEF SendReply, Free
  <2>2. RowKept /\ PageKept
    BY <1>3, <1>k, <1>p DEF SendReply, RowsAlone
  <2>3. RequestKept(t)
    BY <2>1, <1>0 DEF RequestKept, Carries, RowRec
  <2> QED
    BY <2>1, <2>2, <2>3, OneRequestMoves
<1>4. ASSUME NEW t \in Tabs, Uploads(t) PROVE AssignInv'
  <2>2. RowKept /\ PageKept
    BY <1>4, <1>k, <1>p DEF Uploads, RowsAlone
  <2>3. CASE \E up \in SUBSET task[t].files : task' = [task EXCEPT ![t].pc = "post", ![t].files = up]
    <3>1. OthersStay(t) /\ task'[t].kind = "send" /\ task'[t].pc = "post" /\ task'[t].base = task[t].base
      BY <1>4, <2>3, UploadTask DEF Uploads
    <3>2. RequestKept(t)
      BY <1>4, <3>1 DEF RequestKept, Carries, AssignInv, Uploads
    <3> QED
      BY <2>2, <3>1, <3>2, OneRequestMoves
  <2>4. CASE Over(t)
    <3>1. OthersStay(t) /\ task'[t] = Unasked
      BY <1>0, <2>4, GoesOver
    <3>2. RequestKept(t)
      BY <1>4, <3>1, <1>0, UnaskedType DEF RequestKept, Carries, RowRec, Uploads
    <3> QED
      BY <2>2, <3>1, <3>2, OneRequestMoves
  <2> QED
    BY <1>4, <2>3, <2>4 DEF Uploads
(* A request that goes on, other than to "post" or "loaded".                 *)
<1>m. ASSUME NEW t \in Tabs, NEW pc \in {"read", "stored", "told", "ok", "bad", "loading"}, Goes(t, pc),
             RowKept, PageKept, Carries(t) => pc \in {"ok", "loading"}
      PROVE  AssignInv'
  <2>1. pc \in TaskPc
    BY DEF TaskPc
  <2>2. OthersStay(t) /\ task'[t].pc = pc /\ Alike(t)
    BY <1>0, <1>m, <2>1, GoesOn
  <2>3. RequestKept(t)
    BY <1>m, <2>2 DEF RequestKept, Carries, AssignInv, Alike, RowKept
  <2> QED
    BY <1>m, <2>2, <2>3, OneRequestMoves
<1>5. ASSUME NEW t \in Tabs, ReadTicket(t) PROVE AssignInv'
  <2>1. PICK pc \in {"read", "bad"} : Goes(t, pc)
    BY <1>5 DEF ReadTicket
  <2>2. RowKept /\ PageKept /\ ~Carries(t)
    BY <1>5, <1>k, <1>p DEF ReadTicket, RowsAlone, Carries
  <2> QED
    BY <2>1, <2>2, <1>m
<1>6. ASSUME NEW t \in Tabs, StoreReply(t) PROVE AssignInv'
  <2>1. Goes(t, "stored") /\ RowKept /\ PageKept /\ ~Carries(t)
    BY <1>6, <1>k, <1>p DEF StoreReply, Carries
  <2> QED
    BY <2>1, <1>m
<1>7. ASSUME NEW t \in Tabs, BridgeAsker(t) \/ BridgeStaff(t) PROVE AssignInv'
  <2>1. PICK pc \in {"bad", "told", "ok"} : Goes(t, pc)
    BY <1>7 DEF BridgeAsker, BridgeStaff
  <2>2. RowKept /\ PageKept /\ ~Carries(t)
    BY <1>7, <1>k, <1>p DEF BridgeAsker, BridgeStaff, Carries
  <2> QED
    BY <2>1, <2>2, <1>m
<1>8. ASSUME NEW t \in Tabs, DoneLoadAgain(t) PROVE AssignInv'
  <2>1. Goes(t, "loading") /\ RowKept /\ PageKept
    BY <1>8, <1>k, <1>p DEF DoneLoadAgain, RowsAlone
  <2> QED
    BY <2>1, <1>m
<1>9. ASSUME NEW t \in Tabs, WriteClosed(t) PROVE AssignInv'
  <2>1. PICK pc \in {"bad", "ok"} : Goes(t, pc)
    BY <1>9 DEF WriteClosed
  <2>2. ~Carries(t)
    BY <1>9 DEF WriteClosed, Carries
  <2>3. ticketRow'.who = ticketRow.who /\ ticketRow'.ver = ticketRow.ver /\ UNCHANGED <<meant, foreign, face>>
    BY <1>9, <1>0 DEF WriteClosed, RowRec
  <2>4. RowKept /\ PageKept
    BY <2>3, <1>p DEF RowKept
  <2> QED
    BY <2>1, <2>2, <2>4, <1>m
<1>10. ASSUME NEW t \in Tabs, CloseTicket(t) \/ Hear(t) PROVE AssignInv'
  <2>1. PICK kind \in {"close", "load"}, pc \in {"post", "loading"} :
          task' = [task EXCEPT ![t] = [Unasked EXCEPT !.kind = kind, !.pc = pc]]
    BY <1>10 DEF CloseTicket, Hear
  <2>2. OthersStay(t) /\ task'[t].kind = kind /\ task'[t].pc = pc /\ task'[t].base = 0
    BY <1>0, <2>1, PlainTask
  <2>3. RowKept /\ task[t].pc = "idle"
    BY <1>10, <1>k DEF CloseTicket, Hear, RowsAlone, Free
  <2>4. PageKept
    <3>1. CASE CloseTicket(t)
      <4>1. face' = [face EXCEPT !.closing = TRUE]
        BY <3>1 DEF CloseTicket
      <4>2. (face'.on <=> face.on) /\ face'.who = face.who /\ face'.ver = face.ver
            /\ face'.newest = face.newest
        BY <4>1, <1>0 DEF FaceRec
      <4> QED
        BY <4>2, SamePage
    <3>2. CASE Hear(t)
      BY <3>2, <1>p DEF Hear
    <3> QED
      BY <1>10, <3>1, <3>2
  <2>5. RequestKept(t)
    BY <2>2, <2>3, <1>0 DEF RequestKept, Carries, RowRec
  <2> QED
    BY <2>2, <2>3, <2>4, <2>5, OneRequestMoves
<1>o. ASSUME NEW t \in Tabs, Over(t), RowKept, PageKept,
             Carries(t) /\ face'.on => foreign' = ticketRow.ver \/ face'.newest = ticketRow.ver
      PROVE  AssignInv'
  <2>1. OthersStay(t) /\ task'[t] = Unasked
    BY <1>0, <1>o, GoesOver
  <2>2. RequestKept(t)
    BY <1>o, <2>1, <1>0, UnaskedType DEF RequestKept, RowRec
  <2> QED
    BY <1>o, <2>1, <2>2, OneRequestMoves
<1>11. ASSUME NEW t \in Tabs, ClosedAnswered(t) \/ LoadRefused(t) PROVE AssignInv'
  <2>1. Over(t) /\ RowKept
    BY <1>11, <1>k DEF ClosedAnswered, LoadRefused, RowsAlone
  <2>2. ~face'.on /\ face'.who = face.who /\ face'.ver = face.ver /\ face'.newest = face.newest
    <3>1. CASE ClosedAnswered(t)
      BY <3>1, <1>0 DEF ClosedAnswered, FaceRec
    <3>2. CASE LoadRefused(t)
      <4>1. /\ Freed(t, face) \in FaceRec /\ Freed(t, face).who = face.who
            /\ Freed(t, face).ver = face.ver /\ Freed(t, face).newest = face.newest
        BY <1>0, FreedType
      <4>2. \A as \in FaceRec : /\ ~[as EXCEPT !.on = FALSE].on /\ [as EXCEPT !.on = FALSE].who = as.who
                                /\ [as EXCEPT !.on = FALSE].ver = as.ver
                                /\ [as EXCEPT !.on = FALSE].newest = as.newest
        BY DEF FaceRec
      <4> QED
        BY <3>2, <4>1, <4>2 DEF LoadRefused
    <3> QED
      BY <1>11, <3>1, <3>2
  <2>3. PageKept
    BY <2>2, SamePage
  <2> QED
    BY <2>1, <2>2, <2>3, <1>o
<1>12. ASSUME NEW t \in Tabs, Unanswered(t) PROVE AssignInv'
  <2>1. Over(t) /\ RowKept
    BY <1>12 DEF Unanswered, RowKept
  <2>2. PageKept
    <3>1. /\ face'.who = face.who /\ face'.ver = face.ver /\ face'.newest = face.newest
          /\ (face'.on <=> face.on)
      BY <1>0, <1>12, FreedType DEF Unanswered
    <3> QED
      BY <3>1, SamePage
  <2>3. Carries(t) => foreign' = ticketRow.ver
    BY <1>12 DEF Unanswered, Carries
  <2> QED
    BY <2>1, <2>2, <2>3, <1>o
<1>13. ASSUME NEW t \in Tabs, ServeTicket(t) PROVE AssignInv'
  <2>1. RowKept /\ PageKept
    BY <1>13, <1>k, <1>p DEF ServeTicket, RowsAlone
  <2>2. /\ OthersStay(t) /\ task'[t].pc = "loaded" /\ task'[t].kind = task[t].kind
        /\ task'[t].list = ticketRow.who /\ task'[t].base = ticketRow.ver
        /\ (task'[t].rash <=> task[t].rash)
    BY <1>13, ServeTask
  <2>3. task'[t].rash = task[t].rash
    BY <2>2, <1>0, ServeTask, <1>13 DEF TasksTyped, TaskRec
  <2>4. RequestKept(t)
    BY <1>0, <2>1, <2>2, <2>3 DEF RequestKept, Carries, RowKept, RowRec
  <2> QED
    BY <2>1, <2>2, <2>4, OneRequestMoves
<1>14. ASSUME NEW t \in Tabs, LoadShown(t) PROVE AssignInv'
  <2>1. Over(t) /\ RowKept
    BY <1>14, <1>k DEF LoadShown, RowsAlone
  <2> DEFINE newest == IF task[t].base > face.newest THEN task[t].base ELSE face.newest
  <2>2. face'.who = task[t].list /\ face'.ver = task[t].base /\ (face'.on => face.on)
        /\ face'.newest = newest
    <3>1. /\ Freed(t, face) \in FaceRec /\ Freed(t, face).newest = face.newest
          /\ (Freed(t, face).on <=> face.on)
      BY <1>0, FreedType
    <3>2. task[t].list \in SUBSET Staffers /\ task[t].base \in Nat /\ task[t].open \in BOOLEAN
          /\ newest \in Nat
      BY <1>0 DEF TasksTyped, TaskRec, FaceRec
    <3>3. face' = [Freed(t, face) EXCEPT !.who = task[t].list, !.ver = task[t].base,
                                        !.open = task[t].open, !.newest = newest]
      BY <1>14, <3>1 DEF LoadShown
    <3>4. \A as \in FaceRec, who \in SUBSET Staffers, v \in Nat, o \in BOOLEAN, n \in Nat :
            LET x == [as EXCEPT !.who = who, !.ver = v, !.open = o, !.newest = n] IN
              x.who = who /\ x.ver = v /\ x.newest = n /\ (x.on <=> as.on)
      BY DEF FaceRec
    <3> HIDE DEF newest
    <3> QED
      BY <3>1, <3>2, <3>3, <3>4
  <2>3. PageKept
    <3>1. task[t].base <= ticketRow.ver /\ face.newest <= ticketRow.ver
          /\ (task[t].base = ticketRow.ver => task[t].list = ticketRow.who)
      BY <1>14 DEF AssignInv, LoadShown
    <3>2. task[t].base \in Nat /\ face.newest \in Nat /\ ticketRow.ver \in Nat
      BY <1>0 DEF TasksTyped, TaskRec, FaceRec, RowRec
    <3> QED
      BY <2>2, <3>1, <3>2 DEF PageKept
  <2>4. Carries(t) => face'.newest = ticketRow.ver
    <3>1. SUFFICES ASSUME Carries(t) PROVE face'.newest = ticketRow.ver
      OBVIOUS
    <3>2. task[t].base = ticketRow.ver
      BY <1>14, <3>1 DEF Carries, LoadShown
    <3>3. face.newest <= ticketRow.ver /\ face.newest \in Nat /\ ticketRow.ver \in Nat
      BY <1>0 DEF AssignInv, FaceRec, RowRec
    <3> QED
      BY <2>2, <3>2, <3>3
  <2> QED
    BY <2>1, <2>3, <2>4, <1>o
<1>15. ASSUME NEW t \in Tabs, NEW add \in SUBSET Staffers, NEW drop \in SUBSET Staffers,
              Change(t, add, drop)
       PROVE  AssignInv'
  <2>1. /\ task'[t].kind = "assign" /\ task'[t].pc = "post" /\ task'[t].add = add
        /\ task'[t].drop = drop /\ task'[t].list = (face.who \cup add) \ drop
        /\ task'[t].base = face.ver /\ (task'[t].rash <=> Rash)
        /\ \A q \in Tabs : q # t =>
             /\ task'[q].kind = task[q].kind /\ task'[q].pc = task[q].pc
             /\ task'[q].list = task[q].list
             /\ task'[q].base = task[q].base /\ (task'[q].rash <=> task[q].kind = "assign")
    BY <1>15, ChangeTask
  <2>2. UNCHANGED <<ticketRow, meant, foreign>> /\ face.on /\ task[t].kind = "none"
    BY <1>15 DEF Change, RowsAlone, Free, AssignInv
  <2>3. /\ (face'.on <=> face.on) /\ face'.who = face.who /\ face'.ver = face.ver
        /\ face'.newest = face.newest
    BY <1>15, <1>0 DEF Change, FaceRec
  <2>4. ASSUME ~Rash, foreign <= face.ver
        PROVE  face.who = ticketRow.who
    <3>1. ~(face.ver < face.newest) /\ \A q \in Tabs : ~Carries(q)
      BY <2>4 DEF Rash, Carries
    <3>2. foreign = ticketRow.ver \/ face.newest = ticketRow.ver
      BY <2>2, <3>1 DEF AssignInv
    <3>3. face.ver <= ticketRow.ver /\ face.ver \in Nat /\ face.newest \in Nat /\ ticketRow.ver \in Nat
      BY <1>0 DEF AssignInv, FaceRec, RowRec
    <3>4. face.ver = ticketRow.ver
      BY <2>4, <3>1, <3>2, <3>3
    <3> QED
      BY <3>4 DEF AssignInv
  <2>5. ASSUME NEW q \in Tabs
        PROVE  /\ task'[q].pc = "idle" => task'[q].kind = "none"
               /\ task'[q].base <= ticketRow'.ver
               /\ task'[q].pc = "loaded" /\ task'[q].base = ticketRow'.ver
                    => task'[q].list = ticketRow'.who
               /\ task'[q].kind = "assign" /\ task'[q].pc = "post" /\ ~task'[q].rash
                    /\ foreign' <= task'[q].base
                    => task'[q].list = (ticketRow'.who \cup task'[q].add) \ task'[q].drop
    <3>1. CASE q = t
      BY <2>1, <2>2, <2>4, <3>1 DEF AssignInv
    <3>2. CASE q # t
      BY <2>1, <2>2, <2>5, <3>2 DEF AssignInv
    <3> QED
      BY <3>1, <3>2
  <2>6. ASSUME NEW q \in Tabs, NEW p \in Tabs, q # p, task'[q].kind = "assign", task'[p].kind = "assign"
        PROVE  task'[q].rash
    <3>1. CASE q = t
      <4>1. task[p].kind = "assign"
        BY <2>1, <2>6, <3>1
      <4> QED
        BY <2>1, <3>1, <4>1 DEF Rash
    <3>2. CASE q # t
      BY <2>1, <2>6, <3>2
    <3> QED
      BY <3>1, <3>2
  <2>7. ASSUME NEW q \in Tabs, Carries(q) PROVE Carries(q)'
    BY <2>1, <2>2, <2>7 DEF Carries
  <2>8. /\ face'.ver <= ticketRow'.ver /\ face'.newest <= ticketRow'.ver /\ foreign' <= ticketRow'.ver
        /\ (face'.ver = ticketRow'.ver => face'.who = ticketRow'.who)
        /\ ticketRow'.who = meant'
        /\ foreign' = ticketRow'.ver \/ face'.newest = ticketRow'.ver \/ \E q \in Tabs : Carries(q)'
    BY <2>2, <2>3, <2>7 DEF AssignInv
  <2> QED
    BY <2>5, <2>6, <2>8 DEF AssignInv, Carries
<1>16. ASSUME NEW t \in Tabs, WriteList(t) PROVE AssignInv'
  <2>1. CASE Goes(t, "bad") /\ RowsAlone
    <3>1. RowKept /\ PageKept /\ ~Carries(t)
      BY <1>16, <2>1, <1>k, <1>p DEF WriteList, RowsAlone, Carries
    <3> QED
      BY <2>1, <3>1, <1>m
  <2>2. CASE /\ Goes(t, "ok")
             /\ ticketRow' = [ticketRow EXCEPT !.who = task[t].list, !.ver = @ + 1]
             /\ meant' = IF task[t].rash \/ foreign > task[t].base THEN task[t].list
                         ELSE (ticketRow.who \cup task[t].add) \ task[t].drop
             /\ UNCHANGED foreign
    <3>0. task[t].list \in SUBSET Staffers /\ task[t].base \in Nat /\ ticketRow.ver \in Nat
          /\ face.ver \in Nat /\ face.newest \in Nat /\ (\A q \in Tabs : task[q].base \in Nat)
      BY <1>0 DEF TasksTyped, TaskRec, RowRec, FaceRec
    <3>1. OthersStay(t) /\ task'[t].pc = "ok" /\ Alike(t)
      BY <1>0, <2>2, GoesOn DEF TaskPc
    <3>2. ticketRow'.who = task[t].list /\ ticketRow'.ver = ticketRow.ver + 1
      BY <1>0, <2>2, <3>0, RowMoved
    <3>3. meant' = task[t].list
      <4>1. CASE task[t].rash \/ foreign > task[t].base
        BY <2>2, <4>1
      <4>2. CASE ~(task[t].rash \/ foreign > task[t].base)
        <5>1. foreign <= task[t].base
          BY <1>0, <3>0, <4>2
        <5>2. task[t].list = (ticketRow.who \cup task[t].add) \ task[t].drop
          BY <1>16, <4>2, <5>1 DEF AssignInv, WriteList
        <5> QED
          BY <2>2, <4>2, <5>2
      <4> QED
        BY <4>1, <4>2
    <3>4. UNCHANGED face
      BY <1>16 DEF WriteList
    <3>5. task[t].kind = "assign" /\ task[t].pc = "post"
      BY <1>16 DEF WriteList
    <3>6. ASSUME NEW q \in Tabs
          PROVE  /\ task'[q].pc = "idle" => task'[q].kind = "none"
                 /\ task'[q].base <= ticketRow.ver
                 /\ task'[q].kind = "assign" /\ task'[q].pc = "post" => task'[q].rash
      <4>1. CASE q = t
        BY <3>1, <4>1 DEF AssignInv, Alike
      <4>2. CASE q # t
        BY <3>1, <3>5, <3>6, <4>2 DEF AssignInv, OthersStay
      <4> QED
        BY <4>1, <4>2
    <3>7. ASSUME NEW q \in Tabs, NEW p \in Tabs, q # p, task'[q].kind = "assign", task'[p].kind = "assign"
          PROVE  task'[q].rash
      <4>1. task[q].kind = "assign" /\ task[p].kind = "assign" /\ task'[q].rash = task[q].rash
        BY <3>1, <3>7 DEF OthersStay, Alike
      <4> QED
        BY <3>7, <4>1 DEF AssignInv
    <3>8. Carries(t)'
      BY <3>1, <3>5 DEF Carries, Alike
    <3>9. /\ face'.ver <= ticketRow'.ver /\ face'.newest <= ticketRow'.ver /\ foreign' <= ticketRow'.ver
          /\ face'.ver # ticketRow'.ver
      BY <1>0, <2>2, <3>0, <3>2, <3>4 DEF AssignInv
    <3>10. \A q \in Tabs : task'[q].base <= ticketRow'.ver /\ task'[q].base # ticketRow'.ver
      <4>1. \A q \in Tabs : task'[q].base \in Nat
        BY DEF TicketTypes, TasksTyped, TaskRec
      <4> QED
        BY <3>0, <3>2, <3>6, <4>1
    <3> QED
      BY <3>2, <3>3, <3>6, <3>7, <3>8, <3>9, <3>10 DEF AssignInv, Carries
  <2> QED
    BY <1>16, <2>1, <2>2 DEF WriteList
<1>17. CASE Colleague
  <2>0. UNCHANGED <<face, task>>
    BY <1>17 DEF Colleague
  <2>1. CASE \E who \in SUBSET Staffers :
               /\ ticketRow' = [ticketRow EXCEPT !.who = who, !.ver = @ + 1]
               /\ meant' = who /\ foreign' = ticketRow.ver + 1
    <3>1. PICK who \in SUBSET Staffers :
               /\ ticketRow' = [ticketRow EXCEPT !.who = who, !.ver = @ + 1]
               /\ meant' = who /\ foreign' = ticketRow.ver + 1
      BY <2>1
    <3>2. ticketRow'.who = who /\ ticketRow'.ver = ticketRow.ver + 1
      BY <1>0, <3>1, RowMoved
    <3>3. face.ver \in Nat /\ face.newest \in Nat /\ ticketRow.ver \in Nat
          /\ (\A q \in Tabs : task[q].base \in Nat)
      BY <1>0 DEF TasksTyped, TaskRec, RowRec, FaceRec
    <3>4. /\ face'.ver <= ticketRow'.ver /\ face'.newest <= ticketRow'.ver /\ foreign' = ticketRow'.ver
          /\ foreign' <= ticketRow'.ver /\ face'.ver # ticketRow'.ver /\ ticketRow'.who = meant'
      BY <2>0, <3>1, <3>2, <3>3 DEF AssignInv
    <3>5. \A q \in Tabs : /\ task'[q].base <= ticketRow'.ver /\ task'[q].base # ticketRow'.ver
                          /\ ~(foreign' <= task'[q].base)
      BY <2>0, <3>1, <3>2, <3>3 DEF AssignInv
    <3>6. /\ \A q \in Tabs : task'[q].pc = "idle" => task'[q].kind = "none"
          /\ \A q, p \in Tabs : q # p /\ task'[q].kind = "assign" /\ task'[p].kind = "assign"
                                  => task'[q].rash
      BY <2>0 DEF AssignInv
    <3> QED
      BY <3>4, <3>5, <3>6 DEF AssignInv, Carries
  <2>2. CASE ticketRow' = [ticketRow EXCEPT !.open = FALSE] /\ UNCHANGED <<meant, foreign>>
    <3>1. RowKept
      BY <1>0, <2>2 DEF RowKept, RowRec
    <3> QED
      BY <2>0, <3>1, <1>p, SameRequest, RowStays
  <2> QED
    BY <1>17, <2>1, <2>2 DEF Colleague
<1>18. CASE UNCHANGED ticketPageVars
  BY <1>18, <1>s DEF ticketPageVars
<1>19. ASSUME NEW t \in Tabs, NEW p \in Staffers, AddAssignee(t, p) \/ RemoveAssignee(t, p)
       PROVE  AssignInv'
  <2>1. {p} \in SUBSET Staffers /\ {} \in SUBSET Staffers
    OBVIOUS
  <2> QED
    BY <1>15, <1>19, <2>1 DEF AddAssignee, RemoveAssignee
<1> QED
  BY <1>1, <1>2, <1>3, <1>4, <1>5, <1>6, <1>7, <1>8, <1>9, <1>10, <1>11, <1>12, <1>13, <1>14,
     <1>16, <1>17, <1>18, <1>19
  DEF TicketPageNext

------------------------------------------------------------------------------
(* Replies as they were typed                                                *)

Lists(thread, from) ==
  \A i \in DOMAIN thread : /\ thread[i] \in from
                           /\ \A j \in DOMAIN thread : thread[i].no = thread[j].no => i = j
Lacks(thread, no) == \A i \in DOMAIN thread : thread[i].no # no

(* A reply on its way: where it has been, it is; where it is yet to go, it is *)
(* not.                                                                      *)
SendingInv(t) ==
  /\ task[t].kind = "send" => task[t].no < composer.no
  /\ task[t].pc \in {"auth", "read", "stored", "told"} => task[t].kind = "send"
  /\ task[t].pc \in {"read", "stored", "told"} => task[t].text # "" \/ task[t].files # {}
  /\ task[t].kind = "send" /\ task[t].pc \in {"auth", "post", "read"}
       => \A r \in replies : r.no # task[t].no
  /\ task[t].pc \in {"stored", "told"} =>
       Reply(t) \in replies /\ Lacks(inThread.staff, task[t].no)
  /\ task[t].pc = "stored" => Lacks(inThread.asker, task[t].no)
Apart ==
  \A t, q \in Tabs : t # q /\ task[t].kind = "send" /\ task[q].kind = "send"
                       => task[t].no # task[q].no
StoredInv ==
  \A r \in replies : /\ r.no < composer.no /\ (r.text # "" \/ r.files # {})
                     /\ \A q \in replies : q.no = r.no => q = r
ThreadsInv ==
  /\ Lists(inThread.asker, replies) /\ Lists(inThread.staff, replies)
  /\ \A i \in DOMAIN inThread.asker : inThread.asker[i].text = "?note"
ReplyInv == (\A t \in Tabs : SendingInv(t)) /\ Apart /\ StoredInv /\ ThreadsInv

LEMMA ReplyInvSuffices == ReplyInv => RepliesAsTyped
<1> SUFFICES ASSUME ReplyInv PROVE RepliesAsTyped
  OBVIOUS
<1>1. \A r \in replies : /\ r.text # "" \/ r.files # {}
                         /\ \A q \in replies : q.no = r.no => q = r
  BY DEF ReplyInv, StoredInv
<1>2. ASSUME NEW where \in {"asker", "staff"}, NEW i \in DOMAIN inThread[where]
      PROVE  /\ inThread[where][i] \in replies
             /\ \A j \in DOMAIN inThread[where] : inThread[where][i].no = inThread[where][j].no => i = j
             /\ where = "asker" => inThread[where][i].text = "?note"
  BY <1>2 DEF ReplyInv, ThreadsInv, Lists
<1> QED
  BY <1>1, <1>2 DEF RepliesAsTyped

(* A thread that gets one more reply.                                        *)
LEMMA ThreadGrows ==
  ASSUME NEW thread \in Seq(ReplyRec), NEW r \in ReplyRec, NEW from, r \in from,
         Lists(thread, from), Lacks(thread, r.no)
  PROVE  /\ Lists(Append(thread, r), from)
         /\ \A no : Lacks(thread, no) /\ no # r.no => Lacks(Append(thread, r), no)
<1> DEFINE longer == Append(thread, r)
<1>1. /\ Len(thread) \in Nat /\ DOMAIN thread = 1..Len(thread)
      /\ DOMAIN longer = 1..(Len(thread) + 1)
      /\ longer[Len(thread) + 1] = r /\ \A i \in 1..Len(thread) : longer[i] = thread[i]
  OBVIOUS
<1> HIDE DEF longer
<1>2. \A i \in DOMAIN longer : i = Len(thread) + 1 \/ i \in DOMAIN thread
  BY <1>1
<1>3. ASSUME NEW i \in DOMAIN longer, NEW j \in DOMAIN longer, longer[i].no = longer[j].no
      PROVE  i = j
  BY <1>1, <1>2, <1>3 DEF Lists, Lacks
<1>4. ASSUME NEW i \in DOMAIN longer PROVE longer[i] \in from
  BY <1>1, <1>2, <1>4 DEF Lists
<1>5. ASSUME NEW no, Lacks(thread, no), no # r.no PROVE Lacks(longer, no)
  BY <1>1, <1>2, <1>5 DEF Lacks
<1> QED
  BY <1>3, <1>4, <1>5 DEF Lists, longer

(* Steps that touch neither replies nor threads.                             *)
SendingKept(t) ==
  /\ task'[t].kind = "send" => task[t].kind = "send" /\ task'[t].no = task[t].no
  /\ task'[t].pc \in {"auth", "read", "stored", "told"} => task'[t].kind = "send"
  /\ task'[t].kind = "send" /\ task'[t].pc \in {"auth", "post", "read"}
       => task[t].pc \in {"auth", "post", "read"}
  /\ task'[t].pc = "read" => task'[t].text # "" \/ task'[t].files # {}
  /\ task'[t].pc \in {"stored", "told"} => task'[t].pc = task[t].pc /\ task'[t].no = task[t].no
       /\ task'[t].text = task[t].text /\ task'[t].files = task[t].files

LEMMA ApartStays ==
  ASSUME Apart,
         \A x \in Tabs : task'[x].kind = "send" => task[x].kind = "send" /\ task'[x].no = task[x].no
  PROVE  Apart'
<1> SUFFICES ASSUME NEW t \in Tabs, NEW q \in Tabs, t # q, task'[t].kind = "send", task'[q].kind = "send"
    PROVE  task'[t].no # task'[q].no
  BY DEF Apart
<1>1. task[t].kind = "send" /\ task'[t].no = task[t].no /\ task[q].kind = "send" /\ task'[q].no = task[q].no
  OBVIOUS
<1> QED
  BY <1>1 DEF Apart

LEMMA RepliesStay ==
  ASSUME ReplyInv, UNCHANGED <<replies, inThread>>, composer'.no = composer.no,
         \A t \in Tabs : SendingKept(t)
  PROVE  ReplyInv'
<1>1. ASSUME NEW t \in Tabs PROVE SendingInv(t)'
  <2>1. SendingInv(t) /\ SendingKept(t)
    BY DEF ReplyInv
  <2>2. task'[t].pc \in {"stored", "told"} => Reply(t)' = Reply(t)
    BY <2>1 DEF SendingKept, Reply
  <2>3. /\ task'[t].kind = "send" => task'[t].no < composer'.no
        /\ task'[t].pc \in {"auth", "read", "stored", "told"} => task'[t].kind = "send"
        /\ task'[t].pc \in {"read", "stored", "told"} => task'[t].text # "" \/ task'[t].files # {}
        /\ task'[t].kind = "send" /\ task'[t].pc \in {"auth", "post", "read"}
             => \A r \in replies' : r.no # task'[t].no
    <3>1. ASSUME task'[t].kind = "send"
          PROVE  task'[t].no < composer'.no
      <4>1. task[t].no < composer.no /\ task'[t].no = task[t].no
        BY <2>1, <3>1, Zenon DEF SendingInv, SendingKept
      <4> QED
        BY <4>1
    <3>2. task'[t].pc \in {"auth", "read", "stored", "told"} => task'[t].kind = "send"
      BY <2>1 DEF SendingKept
    <3>3. ASSUME task'[t].pc \in {"read", "stored", "told"}
          PROVE  task'[t].text # "" \/ task'[t].files # {}
      BY <2>1, <3>3 DEF SendingInv, SendingKept
    <3>4. ASSUME task'[t].kind = "send", task'[t].pc \in {"auth", "post", "read"}
          PROVE  \A r \in replies' : r.no # task'[t].no
      <4>1. task[t].kind = "send" /\ task[t].pc \in {"auth", "post", "read"} /\ task'[t].no = task[t].no
        BY <2>1, <3>4, Zenon DEF SendingKept
      <4>2. \A r \in replies : r.no # task[t].no
        BY <2>1, <4>1, Zenon DEF SendingInv
      <4> QED
        BY <4>1, <4>2
    <3> QED
      BY <3>1, <3>2, <3>3, <3>4
  <2>4. ASSUME task'[t].pc \in {"stored", "told"}
        PROVE  /\ Reply(t)' \in replies' /\ Lacks(inThread'.staff, task'[t].no)
               /\ task'[t].pc = "stored" => Lacks(inThread'.asker, task'[t].no)
    <3>1. task'[t].pc = task[t].pc /\ task'[t].no = task[t].no
      BY <2>1, <2>4 DEF SendingKept
    <3>2. /\ Reply(t) \in replies /\ Lacks(inThread.staff, task[t].no)
          /\ task[t].pc = "stored" => Lacks(inThread.asker, task[t].no)
      BY <2>1, <2>4, <3>1 DEF SendingInv
    <3> QED
      BY <2>2, <2>4, <3>1, <3>2
  <2> QED
    BY <2>3, <2>4 DEF SendingInv
<1>2. Apart'
  BY ApartStays DEF ReplyInv, SendingKept
<1>3. StoredInv' /\ ThreadsInv'
  BY DEF ReplyInv, StoredInv, ThreadsInv
<1> QED
  BY <1>1, <1>2, <1>3 DEF ReplyInv

LEMMA SameSending ==
  ASSUME ReplyInv, NEW t \in Tabs, task'[t] = task[t]
  PROVE  SendingKept(t)
BY DEF SendingKept, ReplyInv, SendingInv

LEMMA OneSendingMoves ==
  ASSUME ReplyInv, UNCHANGED <<replies, inThread>>, composer'.no = composer.no,
         NEW t \in Tabs, OthersStay(t), SendingKept(t)
  PROVE  ReplyInv'
<1>1. \A q \in Tabs : SendingKept(q)
  BY SameSending DEF OthersStay
<1> QED
  BY <1>1, RepliesStay

LEMMA RepliesFirst == TicketPageInit => ReplyInv
<1> SUFFICES ASSUME TicketPageInit PROVE ReplyInv
  OBVIOUS
<1>1. \A t \in Tabs : task[t] = Unasked
  BY DEF TicketPageInit
<1>2. replies = {} /\ inThread.asker = <<>> /\ inThread.staff = <<>>
  BY DEF TicketPageInit
<1>3. Lists(<<>>, {}) /\ Lacks(<<>>, 0)
  BY DEF Lists, Lacks
<1>4. (\A t \in Tabs : SendingInv(t)) /\ Apart
  BY <1>1, UnaskedType DEF SendingInv, Apart
<1>5. StoredInv /\ ThreadsInv
  BY <1>2, <1>3 DEF StoredInv, ThreadsInv
<1> QED
  BY <1>4, <1>5 DEF ReplyInv

LEMMA RepliesKept ==
  ASSUME TicketTypes, ReplyInv, TicketTypes', [TicketPageNext]_ticketPageVars
  PROVE  ReplyInv'
<1>0. TasksTyped /\ composer.no \in Nat /\ inThread.asker \in Seq(ReplyRec)
      /\ inThread.staff \in Seq(ReplyRec) /\ replies \subseteq ReplyRec
      /\ inThread \in [asker : Seq(ReplyRec), staff : Seq(ReplyRec)]
      /\ (\A t \in Tabs : task[t].no \in Nat)
  BY DEF TicketTypes, TasksTyped, TaskRec
<1> DEFINE Rest == UNCHANGED <<replies, inThread>> /\ composer'.no = composer.no
<1>s. ASSUME Rest, UNCHANGED task PROVE ReplyInv'
  BY <1>s, SameSending, RepliesStay
<1>1. CASE \/ \E text \in Wordings \ {""} : Compose(text)
           \/ Format
           \/ \E p \in Papers : Attach(p) \/ Detach(p)
  <2>1. composer'.no = composer.no
    BY <1>1 DEF Compose, Format, Attach, Detach, TicketTypes
  <2> QED
    BY <1>1, <1>s, <2>1 DEF Compose, Format, Attach, Detach, ComposerOnly, RowsAlone
<1>2. CASE BotFlaps \/ CheckHealth \/ Connects \/ Disconnects \/ ConnectError \/ Colleague
  BY <1>2, <1>s DEF BotFlaps, CheckHealth, Connects, Disconnects, ConnectError, SocketOnly,
     RowsAlone, Colleague
(* A request that goes on, other than to post, store or be told.             *)
<1>m. ASSUME NEW t \in Tabs, NEW pc \in {"read", "ok", "bad", "loading"}, Goes(t, pc), Rest,
             pc = "read" => /\ task[t].kind = "send" /\ task[t].pc = "post"
                            /\ (task[t].text # "" \/ task[t].files # {})
      PROVE  ReplyInv'
  <2>1. pc \in TaskPc
    BY DEF TaskPc
  <2>2. OthersStay(t) /\ task'[t].pc = pc /\ Alike(t)
    BY <1>0, <1>m, <2>1, GoesOn
  <2>3. SendingKept(t)
    BY <1>m, <2>2 DEF SendingKept, Alike
  <2> QED
    BY <1>m, <2>2, <2>3, OneSendingMoves
<1>o. ASSUME NEW t \in Tabs, Over(t), Rest PROVE ReplyInv'
  <2>1. OthersStay(t) /\ task'[t] = Unasked
    BY <1>0, <1>o, GoesOver
  <2>2. SendingKept(t)
    BY <2>1, UnaskedType DEF SendingKept
  <2> QED
    BY <1>o, <2>1, <2>2, OneSendingMoves
<1>3. ASSUME NEW t \in Tabs, SendReply(t) PROVE ReplyInv'
  <2>1. OthersStay(t) /\ task'[t].kind = "send" /\ task'[t].pc = "auth" /\ task'[t].no = composer.no
    BY <1>3, SendTask DEF SendReply
  <2>2. UNCHANGED <<replies, inThread>> /\ composer'.no = composer.no + 1
    BY <1>3 DEF SendReply, RowsAlone
  <2>3. \A r \in replies : r.no < composer.no /\ r.no \in Nat
    BY <1>0 DEF ReplyInv, StoredInv, ReplyRec
  <2>4. ASSUME NEW q \in Tabs
        PROVE  SendingInv(q)'
    <3>1. CASE q = t
      <4>1. task'[t].no < composer'.no /\ \A r \in replies' : r.no # task'[t].no
        BY <1>0, <2>1, <2>2, <2>3
      <4> QED
        BY <2>1, <3>1, <4>1 DEF SendingInv
    <3>2. CASE q # t
      <4>1. task'[q] = task[q] /\ Reply(q)' = Reply(q) /\ SendingInv(q)
        BY <2>1, <3>2 DEF OthersStay, Reply, ReplyInv
      <4>2. task[q].kind = "send" => task[q].no < composer'.no
        <5>1. task[q].kind = "send" => task[q].no < composer.no
          BY <4>1, Zenon DEF SendingInv
        <5> QED
          BY <1>0, <2>2, <5>1
      <4>3. Reply(q) \in replies => Reply(q)' \in replies'
        BY <2>2, <4>1
      <4> HIDE DEF Reply
      <4> QED
        BY <2>2, <4>1, <4>2, <4>3, Zenon DEF SendingInv
    <3> QED
      BY <3>1, <3>2
  <2>5. Apart'
    <3> SUFFICES ASSUME NEW q \in Tabs, NEW p \in Tabs, q # p, task'[q].kind = "send", task'[p].kind = "send"
        PROVE  task'[q].no # task'[p].no
      BY DEF Apart
    <3>1. \A x \in Tabs : x # t => task'[x] = task[x] /\ (task[x].kind = "send" => task[x].no < composer.no)
      BY <2>1 DEF OthersStay, ReplyInv, SendingInv
    <3>2. CASE q = t
      BY <1>0, <2>1, <3>1, <3>2
    <3>3. CASE p = t
      BY <1>0, <2>1, <3>1, <3>3
    <3>4. CASE q # t /\ p # t
      <4>1. task'[q] = task[q] /\ task'[p] = task[p]
        BY <3>1, <3>4
      <4> QED
        BY <4>1 DEF ReplyInv, Apart
    <3> QED
      BY <3>2, <3>3, <3>4
  <2>6. StoredInv'
    <3>1. \A r \in replies : r.no < composer.no + 1
      BY <1>0, <2>3
    <3> QED
      BY <2>2, <3>1 DEF ReplyInv, StoredInv
  <2>7. ThreadsInv'
    BY <2>2 DEF ReplyInv, ThreadsInv
  <2> QED
    BY <2>4, <2>5, <2>6, <2>7 DEF ReplyInv
<1>4. ASSUME NEW t \in Tabs, Uploads(t) PROVE ReplyInv'
  <2>1. Rest
    BY <1>4 DEF Uploads, RowsAlone
  <2>3. CASE \E up \in SUBSET task[t].files : task' = [task EXCEPT ![t].pc = "post", ![t].files = up]
    <3>1. OthersStay(t) /\ task'[t].kind = "send" /\ task'[t].pc = "post" /\ task'[t].no = task[t].no
          /\ task[t].kind = "send" /\ task[t].pc = "auth"
      BY <1>4, <2>3, UploadTask DEF Uploads
    <3>2. SendingKept(t)
      BY <3>1 DEF SendingKept
    <3> QED
      BY <2>1, <3>1, <3>2, OneSendingMoves
  <2> QED
    BY <1>4, <1>o, <2>1, <2>3 DEF Uploads
<1>5. ASSUME NEW t \in Tabs, ReadTicket(t) PROVE ReplyInv'
  <2>1. Rest /\ task[t].kind = "send" /\ task[t].pc = "post"
    BY <1>5 DEF ReadTicket, RowsAlone
  <2>2. CASE Goes(t, "bad")
    BY <2>1, <2>2, <1>m
  <2>3. CASE Goes(t, "read") /\ (task[t].text # "" \/ task[t].files # {})
    BY <2>1, <2>3, <1>m
  <2> QED
    BY <1>5, <2>2, <2>3 DEF ReadTicket
<1>6. ASSUME NEW t \in Tabs, StoreReply(t) PROVE ReplyInv'
  <2>1. OthersStay(t) /\ task'[t].pc = "stored" /\ Alike(t)
    BY <1>0, <1>6, GoesOn DEF StoreReply, TaskPc
  <2>2. replies' = replies \cup {Reply(t)} /\ UNCHANGED <<inThread, composer>> /\ task[t].pc = "read"
    BY <1>6 DEF StoreReply
  <2>3. /\ task[t].kind = "send" /\ task[t].no < composer.no /\ (task[t].text # "" \/ task[t].files # {})
        /\ \A r \in replies : r.no # task[t].no
    BY <2>2 DEF ReplyInv, SendingInv
  <2>4. Reply(t)' = Reply(t) /\ Reply(t).no = task[t].no /\ Reply(t).text = task[t].text
        /\ Reply(t).files = task[t].files
    BY <2>1 DEF Reply, Alike
  <2>5. \A where \in {inThread.asker, inThread.staff} : Lists(where, replies) /\ Lacks(where, task[t].no)
    BY <2>3 DEF ReplyInv, ThreadsInv, Lists, Lacks
  <2>6. ASSUME NEW q \in Tabs
        PROVE  SendingInv(q)'
    <3>1. CASE q = t
      BY <2>1, <2>2, <2>3, <2>4, <2>5, <3>1 DEF Alike, SendingInv
    <3>2. CASE q # t
      <4>1. task'[q] = task[q] /\ Reply(q)' = Reply(q) /\ SendingInv(q)
        BY <2>1, <3>2 DEF OthersStay, Reply, ReplyInv
      <4>2. task[q].kind = "send" => task[q].no # task[t].no
        BY <2>3, <3>2 DEF ReplyInv, Apart
      <4>3. task[q].kind = "send" /\ task[q].pc \in {"auth", "post", "read"}
              => \A r \in replies' : r.no # task[q].no
        BY <2>2, <2>4, <4>1, <4>2 DEF SendingInv
      <4> QED
        BY <2>2, <4>1, <4>3 DEF SendingInv
    <3> QED
      BY <3>1, <3>2
  <2>7. Apart'
    BY <2>1, ApartStays DEF ReplyInv, OthersStay, Alike
  <2>8. StoredInv'
    <3>1. \A r \in replies' : r \in replies \/ r = Reply(t)
      BY <2>2
    <3>2. \A r \in replies' : r.no < composer.no /\ (r.text # "" \/ r.files # {})
      BY <2>3, <2>4, <3>1 DEF ReplyInv, StoredInv
    <3>3. ASSUME NEW r \in replies', NEW q \in replies', q.no = r.no PROVE q = r
      BY <2>3, <2>4, <3>1, <3>3 DEF ReplyInv, StoredInv
    <3> QED
      BY <2>2, <3>2, <3>3 DEF StoredInv
  <2>9. ThreadsInv'
    BY <2>2 DEF ReplyInv, ThreadsInv, Lists
  <2> QED
    BY <2>6, <2>7, <2>8, <2>9 DEF ReplyInv
(* A reply that is posted, to one thread or to none.                         *)
<1>7. ASSUME NEW t \in Tabs, NEW pc \in {"told", "ok"}, Goes(t, pc), task[t].pc \in {"stored", "told"},
             UNCHANGED <<replies, composer>>, inThread' \in [asker : Seq(ReplyRec), staff : Seq(ReplyRec)],
             \/ inThread'.asker = inThread.asker
             \/ /\ inThread'.asker = Append(inThread.asker, Reply(t))
                /\ task[t].pc = "stored" /\ SendToUser(t),
             \/ inThread'.staff = inThread.staff
             \/ inThread'.staff = Append(inThread.staff, Reply(t)) /\ pc = "ok",
             pc = "told" => task[t].pc = "stored"
      PROVE  ReplyInv'
  <2>1. OthersStay(t) /\ task'[t].pc = pc /\ Alike(t)
    BY <1>0, <1>7, GoesOn DEF TaskPc
  <2>2. /\ Reply(t) \in replies /\ task[t].kind = "send" /\ Lacks(inThread.staff, task[t].no)
        /\ (task[t].pc = "stored" => Lacks(inThread.asker, task[t].no))
        /\ Reply(t)' = Reply(t) /\ Reply(t).no = task[t].no /\ Reply(t).text = task[t].text
    BY <1>7, <2>1 DEF ReplyInv, SendingInv, Reply, Alike
  <2>3. Reply(t) \in ReplyRec
    BY <1>0, ReplyType
  <2>4. /\ Lists(inThread'.asker, replies)
        /\ \A no : Lacks(inThread.asker, no) /\ no # task[t].no => Lacks(inThread'.asker, no)
    <3>1. CASE inThread'.asker = inThread.asker
      BY <3>1 DEF ReplyInv, ThreadsInv
    <3>2. CASE inThread'.asker = Append(inThread.asker, Reply(t)) /\ task[t].pc = "stored"
      <4>1. Lists(inThread.asker, replies) /\ Lacks(inThread.asker, Reply(t).no)
        BY <2>2, <3>2 DEF ReplyInv, ThreadsInv
      <4>2. /\ Lists(Append(inThread.asker, Reply(t)), replies)
            /\ \A no : Lacks(inThread.asker, no) /\ no # Reply(t).no
                 => Lacks(Append(inThread.asker, Reply(t)), no)
        BY <1>0, <2>2, <2>3, <4>1, ThreadGrows
      <4> QED
        BY <2>2, <3>2, <4>2
    <3> QED
      BY <1>7, <3>1, <3>2
  <2>5. /\ Lists(inThread'.staff, replies)
        /\ \A no : Lacks(inThread.staff, no) /\ no # task[t].no => Lacks(inThread'.staff, no)
        /\ pc = "told" => inThread'.staff = inThread.staff
    <3>1. CASE inThread'.staff = inThread.staff
      BY <3>1 DEF ReplyInv, ThreadsInv
    <3>2. CASE inThread'.staff = Append(inThread.staff, Reply(t)) /\ pc = "ok"
      <4>1. Lists(inThread.staff, replies) /\ Lacks(inThread.staff, Reply(t).no)
        BY <2>2, <3>2 DEF ReplyInv, ThreadsInv
      <4>2. /\ Lists(Append(inThread.staff, Reply(t)), replies)
            /\ \A no : Lacks(inThread.staff, no) /\ no # Reply(t).no
                 => Lacks(Append(inThread.staff, Reply(t)), no)
        BY <1>0, <2>2, <2>3, <4>1, ThreadGrows
      <4> QED
        BY <2>2, <3>2, <4>2
    <3> QED
      BY <1>7, <3>1, <3>2
  <2>6. \A i \in DOMAIN inThread'.asker : inThread'.asker[i].text = "?note"
    <3>1. CASE inThread'.asker = inThread.asker
      BY <3>1 DEF ReplyInv, ThreadsInv
    <3>2. CASE inThread'.asker = Append(inThread.asker, Reply(t)) /\ SendToUser(t)
      <4>1. Reply(t).text = "?note"
        BY <2>2, <3>2 DEF SendToUser
      <4>2. \A i \in DOMAIN inThread'.asker :
              inThread'.asker[i] = Reply(t) \/ (i \in DOMAIN inThread.asker /\ inThread'.asker[i] = inThread.asker[i])
        BY <1>0, <2>3, <3>2
      <4> QED
        BY <4>1, <4>2 DEF ReplyInv, ThreadsInv
    <3> QED
      BY <1>7, <3>1, <3>2
  <2>7. ASSUME NEW q \in Tabs
        PROVE  SendingInv(q)'
    <3>1. CASE q = t
      <4>1. SendingInv(t)
        BY DEF ReplyInv
      <4> QED
        BY <1>7, <2>1, <2>2, <2>5, <3>1, <4>1 DEF Alike, SendingInv
    <3>2. CASE q # t
      <4>1. task'[q] = task[q] /\ Reply(q)' = Reply(q) /\ SendingInv(q)
        BY <2>1, <3>2 DEF OthersStay, Reply, ReplyInv
      <4>2. task[q].kind = "send" => task[q].no # task[t].no
        BY <2>2, <3>2 DEF ReplyInv, Apart
      <4>3. /\ task[q].pc \in {"stored", "told"} => Lacks(inThread'.staff, task[q].no)
            /\ task[q].pc = "stored" => Lacks(inThread'.asker, task[q].no)
        BY <2>4, <2>5, <4>1, <4>2 DEF SendingInv
      <4> QED
        BY <1>7, <4>1, <4>3 DEF SendingInv
    <3> QED
      BY <3>1, <3>2
  <2>8. Apart'
    BY <2>1, ApartStays DEF ReplyInv, OthersStay, Alike
  <2>9. StoredInv'
    BY <1>7 DEF ReplyInv, StoredInv
  <2>10. ThreadsInv'
    BY <1>7, <2>4, <2>5, <2>6 DEF ThreadsInv
  <2> QED
    BY <2>7, <2>8, <2>9, <2>10 DEF ReplyInv
<1>8. ASSUME NEW t \in Tabs, BridgeAsker(t) PROVE ReplyInv'
  <2>1. CASE Goes(t, "bad") /\ UNCHANGED inThread
    BY <1>8, <2>1, <1>m DEF BridgeAsker
  <2>2. CASE /\ Goes(t, "told")
             /\ inThread' = IF SendToUser(t) THEN [inThread EXCEPT !.asker = Append(@, Reply(t))] ELSE inThread
    <3>1. inThread' \in [asker : Seq(ReplyRec), staff : Seq(ReplyRec)]
      BY DEF TicketTypes
    <3>2. inThread'.staff = inThread.staff
      BY <1>0, <2>2
    <3>3. \/ inThread'.asker = inThread.asker
          \/ inThread'.asker = Append(inThread.asker, Reply(t)) /\ SendToUser(t)
      BY <1>0, <2>2
    <3>4. task[t].pc = "stored" /\ UNCHANGED <<replies, composer>>
      BY <1>8 DEF BridgeAsker
    <3> QED
      BY <2>2, <3>1, <3>2, <3>3, <3>4, <1>7
  <2>3. CASE Goes(t, "ok") /\ UNCHANGED inThread
    BY <1>8, <2>3, <1>m DEF BridgeAsker
  <2> QED
    BY <1>8, <2>1, <2>2, <2>3 DEF BridgeAsker
<1>9. ASSUME NEW t \in Tabs, BridgeStaff(t) PROVE ReplyInv'
  <2>1. CASE UNCHANGED inThread
    BY <1>9, <2>1, <1>m DEF BridgeStaff
  <2>2. CASE inThread' = [inThread EXCEPT !.staff = Append(@, Reply(t))]
    <3>1. inThread' \in [asker : Seq(ReplyRec), staff : Seq(ReplyRec)]
      BY DEF TicketTypes
    <3>2. inThread'.asker = inThread.asker /\ inThread'.staff = Append(inThread.staff, Reply(t))
      BY <1>0, <2>2
    <3>3. Goes(t, "ok") /\ task[t].pc = "told" /\ UNCHANGED <<replies, composer>>
      BY <1>9 DEF BridgeStaff
    <3> QED
      BY <3>1, <3>2, <3>3, <1>7
  <2> QED
    BY <1>9, <2>1, <2>2 DEF BridgeStaff
<1>10. ASSUME NEW t \in Tabs, NEW add \in SUBSET Staffers, NEW drop \in SUBSET Staffers,
              Change(t, add, drop)
       PROVE  ReplyInv'
  <2>1. Rest
    BY <1>10 DEF Change, RowsAlone
  <2>a. /\ task'[t].kind = "assign" /\ task'[t].pc = "post"
        /\ \A q \in Tabs : q # t =>
             /\ task'[q].kind = task[q].kind /\ task'[q].pc = task[q].pc
             /\ task'[q].text = task[q].text /\ task'[q].files = task[q].files
             /\ task'[q].no = task[q].no
    BY <1>10, ChangeTask
  <2>2. ASSUME NEW q \in Tabs PROVE SendingKept(q)
    <3>1. CASE q = t
      <4>1. task'[q].kind = "assign" /\ task'[q].pc = "post"
        BY <1>10, <3>1, ChangeTask
      <4> QED
        BY <4>1 DEF SendingKept
    <3>2. CASE q # t
      <4>1. /\ task'[q].kind = task[q].kind /\ task'[q].pc = task[q].pc /\ task'[q].text = task[q].text
            /\ task'[q].files = task[q].files /\ task'[q].no = task[q].no
        BY <2>a, <3>2
      <4>2. /\ task[q].pc \in {"auth", "read", "stored", "told"} => task[q].kind = "send"
            /\ task[q].pc = "read" => task[q].text # "" \/ task[q].files # {}
        BY DEF ReplyInv, SendingInv
      <4> QED
        BY <4>1, <4>2 DEF SendingKept
    <3> QED
      BY <3>1, <3>2
  <2> QED
    BY <2>1, <2>2, RepliesStay
<1>11. ASSUME NEW t \in Tabs, WriteList(t) \/ WriteClosed(t) \/ DoneLoadAgain(t) PROVE ReplyInv'
  <2>1. Rest
    BY <1>11 DEF WriteList, WriteClosed, DoneLoadAgain, RowsAlone
  <2>2. PICK pc \in {"ok", "bad", "loading"} : Goes(t, pc)
    BY <1>11 DEF WriteList, WriteClosed, DoneLoadAgain
  <2> QED
    BY <2>1, <2>2, <1>m
<1>12. ASSUME NEW t \in Tabs, CloseTicket(t) \/ Hear(t) PROVE ReplyInv'
  <2>1. PICK kind \in {"close", "load"}, pc \in {"post", "loading"} :
          task' = [task EXCEPT ![t] = [Unasked EXCEPT !.kind = kind, !.pc = pc]]
    BY <1>12 DEF CloseTicket, Hear
  <2>2. OthersStay(t) /\ task'[t].kind = kind /\ task'[t].pc = pc
    BY <1>0, <2>1, PlainTask
  <2>3. SendingKept(t)
    BY <2>2 DEF SendingKept
  <2>4. Rest
    BY <1>12 DEF CloseTicket, Hear, RowsAlone
  <2> QED
    BY <2>2, <2>3, <2>4, OneSendingMoves
<1>13. ASSUME NEW t \in Tabs, ClosedAnswered(t) \/ LoadRefused(t) \/ Unanswered(t) \/ LoadShown(t)
       PROVE  ReplyInv'
  BY <1>13, <1>o DEF ClosedAnswered, LoadRefused, Unanswered, LoadShown, RowsAlone
<1>14. ASSUME NEW t \in Tabs, ServeTicket(t) PROVE ReplyInv'
  <2>1. Rest
    BY <1>14 DEF ServeTicket, RowsAlone
  <2>2. /\ OthersStay(t) /\ task'[t].pc = "loaded" /\ task'[t].kind = task[t].kind
        /\ task'[t].no = task[t].no
    BY <1>14, ServeTask
  <2>3. SendingKept(t)
    BY <2>2 DEF SendingKept
  <2> QED
    BY <2>1, <2>2, <2>3, OneSendingMoves
<1>15. CASE UNCHANGED ticketPageVars
  BY <1>15, <1>s DEF ticketPageVars
<1>16. ASSUME NEW t \in Tabs, NEW p \in Staffers, AddAssignee(t, p) \/ RemoveAssignee(t, p)
       PROVE  ReplyInv'
  <2>1. {p} \in SUBSET Staffers /\ {} \in SUBSET Staffers
    OBVIOUS
  <2> QED
    BY <1>10, <1>16, <2>1 DEF AddAssignee, RemoveAssignee
<1> QED
  BY <1>1, <1>2, <1>3, <1>4, <1>5, <1>6, <1>8, <1>9, <1>11, <1>12, <1>13, <1>14, <1>15, <1>16
  DEF TicketPageNext

------------------------------------------------------------------------------

LEMMA TicketTypesSuffice == TicketTypes => TicketPageTypeOK
<1> SUFFICES ASSUME TicketTypes PROVE TicketPageTypeOK
  OBVIOUS
<1>1. \A t \in Tabs : /\ task[t].kind \in {"none", "send", "assign", "close", "load"}
                      /\ task[t].pc \in {"idle", "auth", "post", "read", "stored", "told", "ok",
                                         "bad", "loading", "loaded"}
  BY DEF TicketTypes, TasksTyped, TaskRec, TaskPc
<1>2. ear.at \in {"on", "off", "closed"} /\ ear.tries \in 0..MaxRecon
  <2>1. ear.at \in {"on", "off", "closed"} /\ ear.tries \in Nat /\ ear.tries <= MaxRecon
    BY DEF TicketTypes, EarRec
  <2> QED
    BY <2>1, ReconAssumption
<1> QED
  BY <1>1, <1>2 DEF TicketTypes, TicketPageTypeOK, RowRec, ReplyRec, FaceRec

(* The page of a ticket keeps its types: the socket never counts past its    *)
(* last try (useTicketSocket.ts).                                            *)
THEOREM TicketPageTypes == TicketPageSpec => []TicketPageTypeOK
<1>1. TicketPageInit => TicketTypes
  BY TicketFirst
<1>2. TicketTypes /\ [TicketPageNext]_ticketPageVars => TicketTypes'
  BY TicketTypesKept
<1>3. TicketTypes => TicketPageTypeOK
  BY TicketTypesSuffice
<1> QED
  BY <1>1, <1>2, <1>3, PTL DEF TicketPageSpec

(* Whoever writes the assignees of a ticket, and in whatever order requests, *)
(* answers and loads come, the row holds what was asked for; and what stands *)
(* in the threads is what was composed, once (useTicketActions.ts:33-188,    *)
(* reply/route.ts:20-73, assign/route.ts:53-57).                             *)
THEOREM TicketPageKeepsWord == TicketPageSpec => []TicketPageHolds
<1> DEFINE Inv == TicketTypes /\ AssignInv /\ ReplyInv
<1>1. TicketPageInit => Inv
  BY TicketFirst, AssignFirst, RepliesFirst
<1>2. Inv /\ [TicketPageNext]_ticketPageVars => Inv'
  BY TicketTypesKept, AssignKept, RepliesKept
<1>3. Inv => TicketPageHolds
  <2>1. AssignInv => AssigneesAsAsked
    BY DEF AssignInv, AssigneesAsAsked
  <2> QED
    BY <2>1, ReplyInvSuffices DEF TicketPageHolds
<1> HIDE DEF Inv
<1> QED
  BY <1>1, <1>2, <1>3, PTL DEF TicketPageSpec

------------------------------------------------------------------------------
(* The form that adds a user                                                 *)

FormRec ==
  [open : BOOLEAN, box : [Boxes -> Inputs], timers : SUBSET Boxes,
   shown : [Boxes -> Applicants \cup {Nobody}], name : Named, ft : FtNumbers \cup {""}, role : Jobs,
   source : BOOLEAN, fraudDone : BOOLEAN, loading : BOOLEAN]
LookupRec == [no : Nat, box : Boxes, of : Applicants]

FormPut(f, to) ==
  /\ to \in FormRec /\ blank'[f] = to
  /\ \A g \in AddForms : g # f => blank'[g] = blank[g]
SameSight(to, form) ==
  to.box = form.box /\ to.timers = form.timers /\ to.shown = form.shown

LEMMA BlankPut ==
  ASSUME NewcomerTypeOK, NEW f \in AddForms, NEW to \in FormRec, blank' = [blank EXCEPT ![f] = to]
  PROVE  FormPut(f, to) /\ blank' \in [AddForms -> FormRec]
BY DEF NewcomerTypeOK, FormRec, FormPut

LEMMA FirstForm ==
  /\ FirstState \in FormRec /\ FirstState.timers = {}
  /\ \A b \in Boxes : FirstState.box[b] = "" /\ FirstState.shown[b] = Nobody
<1>1. [b \in Boxes |-> ""] \in [Boxes -> Inputs]
  BY DEF Inputs
<1>2. [b \in Boxes |-> Nobody] \in [Boxes -> Applicants \cup {Nobody}]
  OBVIOUS
<1>3. "" \in Named /\ "shipwright" \in Jobs
  BY DEF Named, Jobs
<1>4. FirstState \in FormRec
  BY <1>1, <1>2, <1>3 DEF FirstState, FormRec
<1> QED
  BY <1>4 DEF FirstState

(* What is chosen and written in the form, and whether it waits.             *)
LEMMA PlainForm ==
  ASSUME NewcomerTypeOK, NEW f \in AddForms,
         \/ OpenForm(f) \/ PickSource(f) \/ CheckFraud(f)
         \/ \E ft \in FtNumbers \cup {""} : EditFtuid(f, ft)
         \/ \E role \in Jobs : PickRole(f, role)
         \/ Submit(f) \/ NetworkDies(f) \/ NotAdded(f)
  PROVE  \E to \in FormRec : /\ blank' = [blank EXCEPT ![f] = to]
                             /\ SameSight(to, blank[f]) /\ to.name = blank[f].name
<1>0. blank[f] \in FormRec
  BY DEF NewcomerTypeOK, FormRec
<1>a. \A r \in FormRec, v \in BOOLEAN :
        LET to == [r EXCEPT !.open = v] IN
          to \in FormRec /\ to.box = r.box /\ to.timers = r.timers /\ to.shown = r.shown /\ to.name = r.name
  BY DEF FormRec
<1>b. \A r \in FormRec, v \in BOOLEAN :
        LET to == [r EXCEPT !.source = v] IN
          to \in FormRec /\ to.box = r.box /\ to.timers = r.timers /\ to.shown = r.shown /\ to.name = r.name
  BY DEF FormRec
<1>c. \A r \in FormRec, v \in BOOLEAN :
        LET to == [r EXCEPT !.fraudDone = v] IN
          to \in FormRec /\ to.box = r.box /\ to.timers = r.timers /\ to.shown = r.shown /\ to.name = r.name
  BY DEF FormRec
<1>d. \A r \in FormRec, v \in BOOLEAN :
        LET to == [r EXCEPT !.loading = v] IN
          to \in FormRec /\ to.box = r.box /\ to.timers = r.timers /\ to.shown = r.shown /\ to.name = r.name
  BY DEF FormRec
<1>2. \A r \in FormRec :
        /\ \A v \in FtNumbers \cup {""} : LET to == [r EXCEPT !.ft = v] IN
             to \in FormRec /\ to.box = r.box /\ to.timers = r.timers /\ to.shown = r.shown /\ to.name = r.name
        /\ \A v \in Jobs : LET to == [r EXCEPT !.role = v] IN
             to \in FormRec /\ to.box = r.box /\ to.timers = r.timers /\ to.shown = r.shown /\ to.name = r.name
  BY DEF FormRec
<1>3. CASE OpenForm(f)
  BY <1>0, <1>a, <1>3 DEF OpenForm, FormOnly, SameSight
<1>4. CASE PickSource(f)
  BY <1>0, <1>b, <1>4 DEF PickSource, FormOnly, SameSight
<1>5. CASE CheckFraud(f)
  <2>1. (~blank[f].fraudDone) \in BOOLEAN
    OBVIOUS
  <2>2. blank' = [blank EXCEPT ![f] = [blank[f] EXCEPT !.fraudDone = ~blank[f].fraudDone]]
    BY <1>5 DEF CheckFraud, FormOnly
  <2> QED
    BY <1>0, <1>c, <2>1, <2>2 DEF SameSight
<1>6. ASSUME NEW ft \in FtNumbers \cup {""}, EditFtuid(f, ft)
      PROVE  \E to \in FormRec : /\ blank' = [blank EXCEPT ![f] = to]
                                 /\ SameSight(to, blank[f]) /\ to.name = blank[f].name
  BY <1>0, <1>2, <1>6 DEF EditFtuid, FormOnly, SameSight
<1>7. ASSUME NEW role \in Jobs, PickRole(f, role)
      PROVE  \E to \in FormRec : /\ blank' = [blank EXCEPT ![f] = to]
                                 /\ SameSight(to, blank[f]) /\ to.name = blank[f].name
  BY <1>0, <1>2, <1>7 DEF PickRole, FormOnly, SameSight
<1>8. CASE Submit(f) \/ NetworkDies(f) \/ NotAdded(f)
  <2>1. PICK v \in BOOLEAN : blank' = [blank EXCEPT ![f] = [blank[f] EXCEPT !.loading = v]]
    <3>1. blank' = [blank EXCEPT ![f].loading = TRUE] \/ blank' = [blank EXCEPT ![f].loading = FALSE]
      BY <1>8 DEF Submit, NetworkDies, NotAdded
    <3> QED
      BY <3>1
  <2> QED
    BY <1>0, <1>d, <2>1 DEF SameSight
<1> QED
  BY <1>3, <1>4, <1>5, <1>6, <1>7, <1>8

LEMMA NameEdited ==
  ASSUME NewcomerTypeOK, NEW f \in AddForms, NEW name \in {"", "edited"}, EditName(f, name)
  PROVE  \E to \in FormRec : /\ blank' = [blank EXCEPT ![f] = to]
                             /\ SameSight(to, blank[f]) /\ to.name = name
<1>0. blank[f] \in FormRec /\ name \in Named
  BY DEF NewcomerTypeOK, FormRec, Named
<1>1. \A r \in FormRec, v \in Named :
        LET to == [r EXCEPT !.name = v] IN
          to \in FormRec /\ to.box = r.box /\ to.timers = r.timers /\ to.shown = r.shown /\ to.name = v
  BY DEF FormRec
<1>2. blank' = [blank EXCEPT ![f] = [blank[f] EXCEPT !.name = name]]
  BY DEF EditName, FormOnly
<1> QED
  BY <1>0, <1>1, <1>2 DEF SameSight

LEMMA BoxTyped ==
  ASSUME NewcomerTypeOK, NEW f \in AddForms, NEW b \in Boxes, NEW text \in Inputs, TypeInto(f, b, text)
  PROVE  \E to \in FormRec :
           /\ blank' = [blank EXCEPT ![f] = to]
           /\ to.timers = blank[f].timers \cup {b} /\ to.shown = blank[f].shown /\ to.name = blank[f].name
           /\ \A c \in Boxes : c # b => to.box[c] = blank[f].box[c]
<1>0. blank[f] \in FormRec /\ blank[f].box \in [Boxes -> Inputs] /\ blank[f].timers \in SUBSET Boxes
  BY DEF NewcomerTypeOK, FormRec
<1> DEFINE box == [blank[f].box EXCEPT ![b] = text]
           timers == blank[f].timers \cup {b}
<1>1. box \in [Boxes -> Inputs] /\ timers \in SUBSET Boxes
      /\ \A c \in Boxes : c # b => box[c] = blank[f].box[c]
  BY <1>0
<1>3. blank' = [blank EXCEPT ![f] = [blank[f] EXCEPT !.box = box, !.timers = timers]]
  BY <1>0 DEF TypeInto, FormOnly, FormRec
<1> HIDE DEF box, timers
<1> DEFINE to == [blank[f] EXCEPT !.box = box, !.timers = timers]
<1>4. to \in FormRec /\ to.box = box /\ to.timers = timers /\ to.shown = blank[f].shown
      /\ to.name = blank[f].name
  BY <1>0, <1>1 DEF FormRec
<1> HIDE DEF to
<1> QED
  BY <1>1, <1>3, <1>4 DEF timers, to

LEMMA ClosedForm ==
  ASSUME NewcomerTypeOK, NEW f \in AddForms, CloseForm(f)
  PROVE  \E to \in FormRec :
           /\ blank' = [blank EXCEPT ![f] = to]
           /\ to.timers = blank[f].timers \cup {b \in Boxes : blank[f].box[b] # ""}
           /\ \A b \in Boxes : to.box[b] = "" /\ to.shown[b] = Nobody
<1>0. blank[f] \in FormRec /\ blank[f].loading \in BOOLEAN /\ blank[f].timers \in SUBSET Boxes
  BY DEF NewcomerTypeOK, FormRec
<1> DEFINE timers == blank[f].timers \cup {b \in Boxes : blank[f].box[b] # ""}
<1>1. timers \in SUBSET Boxes
  BY <1>0
<1>3. blank' = [blank EXCEPT ![f] = [FirstState EXCEPT !.loading = blank[f].loading, !.timers = timers]]
  BY DEF CloseForm, FormOnly, Emptied
<1> HIDE DEF timers
<1> DEFINE to == [FirstState EXCEPT !.loading = blank[f].loading, !.timers = timers]
<1>4. to \in FormRec /\ to.box = FirstState.box /\ to.timers = timers /\ to.shown = FirstState.shown
  BY <1>0, <1>1, FirstForm DEF FormRec
<1> HIDE DEF to
<1>5. \A b \in Boxes : to.box[b] = "" /\ to.shown[b] = Nobody
  BY <1>4, FirstForm
<1> QED
  BY <1>3, <1>4, <1>5 DEF timers, to

LEMMA ClearedForm ==
  \A r \in FormRec, b \in Boxes :
    /\ Cleared(r, b) \in FormRec /\ Cleared(r, b).box = r.box /\ Cleared(r, b).timers = r.timers
    /\ Cleared(r, b).shown = [r.shown EXCEPT ![b] = Nobody]
    /\ b # "slackId" => Cleared(r, b).name = r.name
<1> SUFFICES ASSUME NEW r \in FormRec, NEW b \in Boxes
    PROVE  /\ Cleared(r, b) \in FormRec /\ Cleared(r, b).box = r.box /\ Cleared(r, b).timers = r.timers
           /\ Cleared(r, b).shown = [r.shown EXCEPT ![b] = Nobody]
           /\ b # "slackId" => Cleared(r, b).name = r.name
  OBVIOUS
<1> DEFINE shown == [r.shown EXCEPT ![b] = Nobody]
           name == IF b = "slackId" THEN "" ELSE r.name
<1>1. shown \in [Boxes -> Applicants \cup {Nobody}] /\ name \in Named
  BY DEF FormRec, Named
<1>2. Cleared(r, b) = [r EXCEPT !.shown = shown, !.name = name]
  BY DEF Cleared, FormRec
<1> HIDE DEF shown, name
<1> DEFINE to == [r EXCEPT !.shown = shown, !.name = name]
<1>3. to \in FormRec /\ to.box = r.box /\ to.timers = r.timers /\ to.shown = shown /\ to.name = name
  BY <1>1 DEF FormRec
<1> HIDE DEF to
<1>4. /\ Cleared(r, b) \in FormRec /\ Cleared(r, b).box = r.box /\ Cleared(r, b).timers = r.timers
      /\ Cleared(r, b).shown = shown /\ Cleared(r, b).name = name
  BY <1>2, <1>3 DEF to
<1> QED
  BY <1>4 DEF shown, name

(* A timer that goes off: a lookup, or a preview taken away.                 *)
LEMMA TimerForm ==
  ASSUME NewcomerTypeOK, NEW f \in AddForms, NEW b \in Boxes, TimerGoesOff(f, b)
  PROVE  \E to \in FormRec :
           /\ blank' = [blank EXCEPT ![f] = to]
           /\ to.box = blank[f].box /\ to.timers = blank[f].timers \ {b}
           /\ \/ /\ blank[f].box[b] \in Applicants
                 /\ to.shown = blank[f].shown /\ to.name = blank[f].name
              \/ /\ blank[f].box[b] \notin Applicants
                 /\ to.shown = [blank[f].shown EXCEPT ![b] = Nobody]
                 /\ b # "slackId" => to.name = blank[f].name
<1>0. blank[f] \in FormRec /\ blank[f].timers \in SUBSET Boxes
  BY DEF NewcomerTypeOK, FormRec
<1>1. \A r \in FormRec, ts \in SUBSET Boxes :
        LET to == [r EXCEPT !.timers = ts] IN
          to \in FormRec /\ to.box = r.box /\ to.timers = ts /\ to.shown = r.shown /\ to.name = r.name
  BY DEF FormRec
<1> DEFINE base == IF blank[f].box[b] \in Applicants THEN blank[f] ELSE Cleared(blank[f], b)
           to == [base EXCEPT !.timers = base.timers \ {b}]
<1>2. blank' = [blank EXCEPT ![f] = to]
  BY DEF TimerGoesOff, TimerOff
<1>3. /\ base \in FormRec /\ base.box = blank[f].box /\ base.timers = blank[f].timers
      /\ \/ /\ blank[f].box[b] \in Applicants
            /\ base.shown = blank[f].shown /\ base.name = blank[f].name
         \/ /\ blank[f].box[b] \notin Applicants
            /\ base.shown = [blank[f].shown EXCEPT ![b] = Nobody]
            /\ b # "slackId" => base.name = blank[f].name
  <2>1. CASE blank[f].box[b] \in Applicants
    BY <1>0, <2>1
  <2>2. CASE blank[f].box[b] \notin Applicants
    <3>1. base = Cleared(blank[f], b)
      BY <2>2
    <3> HIDE DEF base
    <3> QED
      BY <1>0, <2>2, <3>1, ClearedForm
  <2> QED
    BY <2>1, <2>2
<1> HIDE DEF base
<1>4. base.timers \ {b} \in SUBSET Boxes
  BY <1>0, <1>3
<1>5. to \in FormRec /\ to.box = base.box /\ to.timers = base.timers \ {b} /\ to.shown = base.shown
      /\ to.name = base.name
  BY <1>1, <1>3, <1>4
<1> HIDE DEF to
<1> QED
  BY <1>2, <1>3, <1>5

LEMMA AnsweredForm ==
  ASSUME NewcomerTypeOK, NEW f \in AddForms, NEW l \in LookupRec, LookupEnds(f, l)
  PROVE  \E to \in FormRec :
           /\ blank' = [blank EXCEPT ![f] = to]
           /\ to.box = blank[f].box /\ to.timers = blank[f].timers
           /\ \/ /\ to.shown = [blank[f].shown EXCEPT ![l.box] = l.of]
                 /\ to.name = IF l.box = "slackId" THEN l.of ELSE blank[f].name
              \/ /\ to.shown = [blank[f].shown EXCEPT ![l.box] = Nobody]
                 /\ l.box # "slackId" => to.name = blank[f].name
<1>0. blank[f] \in FormRec /\ l.box \in Boxes /\ l.of \in Applicants
      /\ blank[f].shown \in [Boxes -> Applicants \cup {Nobody}] /\ blank[f].name \in Named
  BY DEF NewcomerTypeOK, FormRec, LookupRec
<1>2. CASE blank' = [blank EXCEPT ![f].shown[l.box] = l.of,
                                  ![f].name = IF l.box = "slackId" THEN l.of ELSE @]
  <2> DEFINE shown == [blank[f].shown EXCEPT ![l.box] = l.of]
             name == IF l.box = "slackId" THEN l.of ELSE blank[f].name
             to == [blank[f] EXCEPT !.shown = shown, !.name = name]
  <2>1. shown \in [Boxes -> Applicants \cup {Nobody}] /\ name \in Named
    BY <1>0 DEF Named
  <2>2. blank' = [blank EXCEPT ![f] = to]
    BY <1>0, <1>2 DEF NewcomerTypeOK, FormRec
  <2> HIDE DEF shown, name
  <2>3. to \in FormRec /\ to.box = blank[f].box /\ to.timers = blank[f].timers /\ to.shown = shown
        /\ to.name = name
    BY <1>0, <2>1 DEF FormRec
  <2> HIDE DEF to
  <2> QED
    BY <2>2, <2>3 DEF shown, name
<1>3. CASE blank' = [blank EXCEPT ![f] = Cleared(@, l.box)]
  <2> DEFINE to == Cleared(blank[f], l.box)
  <2>1. blank' = [blank EXCEPT ![f] = to]
    BY <1>3
  <2>2. /\ to \in FormRec /\ to.box = blank[f].box /\ to.timers = blank[f].timers
        /\ to.shown = [blank[f].shown EXCEPT ![l.box] = Nobody]
        /\ l.box # "slackId" => to.name = blank[f].name
    BY <1>0, ClearedForm
  <2> HIDE DEF to
  <2> QED
    BY <2>1, <2>2
<1>4. CASE blank' = [blank EXCEPT ![f].shown[l.box] = Nobody]
  <2> DEFINE shown == [blank[f].shown EXCEPT ![l.box] = Nobody]
             to == [blank[f] EXCEPT !.shown = shown]
  <2>1. shown \in [Boxes -> Applicants \cup {Nobody}]
    BY <1>0
  <2>2. blank' = [blank EXCEPT ![f] = to]
    BY <1>4
  <2> HIDE DEF shown
  <2>3. to \in FormRec /\ to.box = blank[f].box /\ to.timers = blank[f].timers /\ to.shown = shown
        /\ to.name = blank[f].name
    BY <1>0, <2>1 DEF FormRec
  <2> HIDE DEF to
  <2> QED
    BY <2>2, <2>3 DEF shown
<1> QED
  BY <1>2, <1>3, <1>4 DEF LookupEnds

(* The lookups of one box are those of what is in it, unless its timer runs  *)
(* or went off while one was on its way.                                     *)
FormInv(f) ==
  /\ \A b \in Boxes \ crossing[f] : b \notin blank[f].timers =>
       /\ \A l \in lookups[f] : l.box = b => l.of = blank[f].box[b]
       /\ ~LookingUp(f, b) => blank[f].shown[b] \in {blank[f].box[b], Nobody}
  /\ blank[f].shown["slackId"] # Nobody => blank[f].name \in {blank[f].shown["slackId"], "edited", ""}
PostInv(f) ==
  post[f].pc # "none" =>
    /\ post[f] \in Posts
    /\ post[f].calm => post[f].name \in {post[f].slackId, "edited"}
    /\ post[f].role # "observer" /\ post[f].fraudDone => post[f].by # ""
MemberInv(p) ==
  member[p] # Absent /\ member[p].made = "form" =>
    /\ member[p].calm => member[p].name \in {p, "edited"}
    /\ member[p].isActive => member[p].by # ""
    /\ \/ p \in audited \cup cut
       \/ \E f \in AddForms : post[f].pc = "made" /\ post[f].slackId = p
NewcomerInv ==
  /\ NewcomerTypeOK
  /\ \A f \in AddForms : FormInv(f) /\ PostInv(f)
  /\ \A p \in Inputs : MemberInv(p)

LEMMA PostedType ==
  ASSUME NewcomerTypeOK, NEW f \in AddForms, post[f].pc # "none"
  PROVE  post[f] \in Posts
<1>1. post[f] \in Posts \/ post[f] = Unposted
  BY DEF NewcomerTypeOK
<1>2. Unposted.pc = "none"
  BY DEF Unposted
<1> QED
  BY <1>1, <1>2

LEMMA NewcomersFirst == NewcomerInit => NewcomerInv
<1> SUFFICES ASSUME NewcomerInit PROVE NewcomerInv
  OBVIOUS
<1>1. NewcomerTypeOK
  <2>1. FirstState \in FormRec /\ 0 \in Nat
    BY FirstForm
  <2> QED
    BY <2>1 DEF NewcomerInit, NewcomerTypeOK, FormRec
<1>2. ASSUME NEW f \in AddForms PROVE FormInv(f) /\ PostInv(f)
  <2>1. blank[f] = FirstState /\ lookups[f] = {} /\ post[f] = Unposted
    BY DEF NewcomerInit
  <2>2. "slackId" \in Boxes
    BY DEF Boxes
  <2>3. \A b \in Boxes : blank[f].shown[b] = Nobody
    BY <2>1, FirstForm
  <2>4. FormInv(f)
    BY <2>1, <2>2, <2>3 DEF FormInv
  <2>5. PostInv(f)
    <3>1. post[f].pc = "none"
      BY <2>1 DEF Unposted
    <3> QED
      BY <3>1 DEF PostInv
  <2> QED
    BY <2>4, <2>5
<1>3. ASSUME NEW p \in Inputs PROVE MemberInv(p)
  BY DEF NewcomerInit, MemberInv
<1> QED
  BY <1>1, <1>2, <1>3 DEF NewcomerInv

(* What a step does to one form and its lookups.                             *)
Truthful(to, looks, cross) ==
  /\ \A b \in Boxes \ cross : b \notin to.timers =>
       /\ \A l \in looks : l.box = b => l.of = to.box[b]
       /\ (~\E l \in looks : l.box = b) => to.shown[b] \in {to.box[b], Nobody}
  /\ to.shown["slackId"] # Nobody => to.name \in {to.shown["slackId"], "edited", ""}

LEMMA OneForm ==
  ASSUME NewcomerInv, NEW f \in AddForms, NEW to \in FormRec, blank' = [blank EXCEPT ![f] = to],
         NEW looks, lookups' = [lookups EXCEPT ![f] = looks],
         NEW cross, crossing' = [crossing EXCEPT ![f] = cross],
         Truthful(to, looks, cross)
  PROVE  \A g \in AddForms : FormInv(g)'
<1> SUFFICES ASSUME NEW g \in AddForms PROVE FormInv(g)'
  OBVIOUS
<1>0. f \in DOMAIN blank /\ f \in DOMAIN lookups /\ f \in DOMAIN crossing
      /\ g \in DOMAIN blank /\ g \in DOMAIN lookups /\ g \in DOMAIN crossing
  BY DEF NewcomerInv, NewcomerTypeOK
<1>a. /\ \A b \in Boxes \ cross : b \notin to.timers =>
           /\ \A l \in looks : l.box = b => l.of = to.box[b]
           /\ (~\E l \in looks : l.box = b) => to.shown[b] \in {to.box[b], Nobody}
      /\ to.shown["slackId"] # Nobody => to.name \in {to.shown["slackId"], "edited", ""}
  BY DEF Truthful
<1>1. CASE g = f
  <2>1. blank'[g] = to /\ lookups'[g] = looks /\ crossing'[g] = cross
    BY <1>0, <1>1
  <2>2. ASSUME NEW b \in Boxes \ crossing'[g], b \notin blank'[g].timers
        PROVE  /\ \A l \in lookups'[g] : l.box = b => l.of = blank'[g].box[b]
               /\ ~LookingUp(g, b)' => blank'[g].shown[b] \in {blank'[g].box[b], Nobody}
    BY <1>a, <2>1, <2>2, Zenon DEF LookingUp
  <2>3. blank'[g].shown["slackId"] # Nobody
          => blank'[g].name \in {blank'[g].shown["slackId"], "edited", ""}
    BY <1>a, <2>1
  <2> QED
    BY <2>2, <2>3, Zenon DEF FormInv
<1>2. CASE g # f
  <2>1. blank'[g] = blank[g] /\ lookups'[g] = lookups[g] /\ crossing'[g] = crossing[g]
    BY <1>0, <1>2
  <2>2. FormInv(g)
    BY DEF NewcomerInv
  <2>3. \A b \in Boxes : LookingUp(g, b)' <=> LookingUp(g, b)
    BY <2>1 DEF LookingUp
  <2>4. ASSUME NEW b \in Boxes \ crossing'[g], b \notin blank'[g].timers
        PROVE  /\ \A l \in lookups'[g] : l.box = b => l.of = blank'[g].box[b]
               /\ ~LookingUp(g, b)' => blank'[g].shown[b] \in {blank'[g].box[b], Nobody}
    <3>1. b \in Boxes \ crossing[g] /\ b \notin blank[g].timers
      BY <2>1, <2>4
    <3>2. /\ \A l \in lookups[g] : l.box = b => l.of = blank[g].box[b]
          /\ ~LookingUp(g, b) => blank[g].shown[b] \in {blank[g].box[b], Nobody}
      BY <2>2, <3>1 DEF FormInv
    <3> QED
      BY <2>1, <2>3, <3>2
  <2>5. blank'[g].shown["slackId"] # Nobody
          => blank'[g].name \in {blank'[g].shown["slackId"], "edited", ""}
    BY <2>1, <2>2 DEF FormInv
  <2> QED
    BY <2>4, <2>5, Zenon DEF FormInv
<1> QED
  BY <1>1, <1>2

LEMMA FormsStay ==
  ASSUME NewcomerInv, NEW f \in AddForms, NEW to \in FormRec, blank' = [blank EXCEPT ![f] = to],
         SameSight(to, blank[f]), to.name \in {blank[f].name, "edited", ""},
         UNCHANGED <<lookups, crossing>>
  PROVE  \A g \in AddForms : FormInv(g)'
<1>0. FormInv(f)
  BY DEF NewcomerInv
<1>1. \A b \in Boxes \ crossing[f] : b \notin to.timers =>
        /\ \A l \in lookups[f] : l.box = b => l.of = to.box[b]
        /\ (~\E l \in lookups[f] : l.box = b) => to.shown[b] \in {to.box[b], Nobody}
  BY <1>0 DEF FormInv, LookingUp, SameSight
<1>2. to.shown["slackId"] # Nobody => to.name \in {to.shown["slackId"], "edited", ""}
  BY <1>0 DEF FormInv, SameSight
<1>3. lookups' = [lookups EXCEPT ![f] = lookups[f]] /\ crossing' = [crossing EXCEPT ![f] = crossing[f]]
  BY DEF NewcomerInv, NewcomerTypeOK
<1>4. Truthful(to, lookups[f], crossing[f])
  BY <1>1, <1>2 DEF Truthful
<1> QED
  BY <1>3, <1>4, OneForm

LEMMA PostedGoesOn ==
  ASSUME NewcomerInv, NEW f \in AddForms, post[f].pc # "none",
         NEW pc \in {"looked", "made", "ok", "refused"}, PostAt(f, pc)
  PROVE  /\ post' \in [AddForms -> Posts \cup {Unposted}]
         /\ \A g \in AddForms : PostInv(g)'
         /\ post'[f].pc = pc /\ post'[f].slackId = post[f].slackId
         /\ \A g \in AddForms : g # f => post'[g] = post[g]
<1>1. post[f] \in Posts /\ PostInv(f)
  BY PostedType DEF NewcomerInv
<1> DEFINE to == [post[f] EXCEPT !.pc = pc]
<1>2. /\ to \in Posts /\ to.pc = pc /\ to.slackId = post[f].slackId /\ to.name = post[f].name
      /\ to.role = post[f].role /\ to.by = post[f].by
  BY <1>1 DEF Posts
<1>3. to.fraudDone = post[f].fraudDone /\ to.calm = post[f].calm
  BY <1>1 DEF Posts
<1>4. post' = [post EXCEPT ![f] = to]
  BY DEF PostAt
<1> HIDE DEF to
<1>5. post \in [AddForms -> Posts \cup {Unposted}]
  BY DEF NewcomerInv, NewcomerTypeOK
<1>6. post' \in [AddForms -> Posts \cup {Unposted}] /\ post'[f] = to
      /\ \A g \in AddForms : g # f => post'[g] = post[g]
  BY <1>2, <1>4, <1>5
<1>7. ASSUME NEW g \in AddForms PROVE PostInv(g)'
  <2>1. CASE g = f
    BY <1>1, <1>2, <1>3, <1>6, <2>1 DEF PostInv
  <2>2. CASE g # f
    <3>1. PostInv(g) /\ post'[g] = post[g]
      BY <1>6, <2>2 DEF NewcomerInv
    <3> QED
      BY <3>1, Zenon DEF PostInv
  <2> QED
    BY <2>1, <2>2
<1> QED
  BY <1>2, <1>6, <1>7

LEMMA PostGone ==
  ASSUME NewcomerInv, NEW f \in AddForms, post' = [post EXCEPT ![f] = Unposted]
  PROVE  /\ post' \in [AddForms -> Posts \cup {Unposted}]
         /\ \A g \in AddForms : PostInv(g)'
         /\ \A g \in AddForms : g # f => post'[g] = post[g]
<1>5. post \in [AddForms -> Posts \cup {Unposted}]
  BY DEF NewcomerInv, NewcomerTypeOK
<1>6. post' \in [AddForms -> Posts \cup {Unposted}] /\ post'[f] = Unposted
      /\ \A g \in AddForms : g # f => post'[g] = post[g]
  BY <1>5
<1>7. ASSUME NEW g \in AddForms PROVE PostInv(g)'
  <2>1. CASE g = f
    <3>1. post'[g].pc = "none"
      BY <1>6, <2>1 DEF Unposted
    <3> QED
      BY <3>1 DEF PostInv
  <2>2. CASE g # f
    <3>1. PostInv(g) /\ post'[g] = post[g]
      BY <1>6, <2>2 DEF NewcomerInv
    <3> QED
      BY <3>1, Zenon DEF PostInv
  <2> QED
    BY <2>1, <2>2
<1> QED
  BY <1>6, <1>7

(* What is submitted while its box is at rest is his whose id is in it.      *)
LEMMA Submitted ==
  ASSUME NewcomerInv, NEW f \in AddForms, Submit(f)
  PROVE  /\ post' \in [AddForms -> Posts \cup {Unposted}]
         /\ \A g \in AddForms : PostInv(g)'
         /\ \A g \in AddForms : g # f => post'[g] = post[g]
<1> DEFINE form == blank[f]
           calm == AtRest(f, "slackId") /\ "slackId" \notin crossing[f]
           vetted == form.role # "observer" /\ form.fraudDone
           to == [pc |-> "sent", slackId |-> form.box["slackId"], name |-> form.name, ft |-> form.ft,
                  role |-> form.role, fraudDone |-> vetted, by |-> form.box["fraudById"], calm |-> calm]
<1>0. /\ form.box \in [Boxes -> Inputs] /\ form.name \in Named /\ form.ft \in FtNumbers \cup {""}
      /\ form.role \in Jobs /\ form.fraudDone \in BOOLEAN
      /\ "slackId" \in Boxes /\ "fraudById" \in Boxes
  BY DEF NewcomerInv, NewcomerTypeOK, Boxes
<1>1. /\ post' = [post EXCEPT ![f] = to] /\ form.name # "" /\ form.ft # ""
      /\ form.role # "observer" => Vetted(form)
      /\ Previewed(f)
  BY DEF Submit
<1>2. calm => form.name \in {form.box["slackId"], "edited"}
  <2> SUFFICES ASSUME calm PROVE form.name \in {form.box["slackId"], "edited"}
    OBVIOUS
  <2>1. FormInv(f)
    BY DEF NewcomerInv
  <2>2. "slackId" \in Boxes \ crossing[f] /\ "slackId" \notin form.timers /\ ~LookingUp(f, "slackId")
    BY <1>0 DEF AtRest
  <2>3. form.shown["slackId"] \in {form.box["slackId"], Nobody}
    BY <2>1, <2>2 DEF FormInv
  <2>4. form.shown["slackId"] # Nobody
    BY <1>1 DEF Previewed
  <2>5. form.name \in {form.shown["slackId"], "edited", ""}
    BY <2>1, <2>4 DEF FormInv
  <2> QED
    BY <1>1, <2>3, <2>4, <2>5
<1>3. vetted => form.box["fraudById"] # ""
  BY <1>1 DEF Vetted
<1>4. calm \in BOOLEAN /\ vetted \in BOOLEAN
  BY DEF AtRest
<1> HIDE DEF calm, vetted
<1>5. to \in Posts
  BY <1>0, <1>1, <1>4 DEF Posts
<1>6. /\ to.pc = "sent" /\ to.slackId = form.box["slackId"] /\ to.name = form.name
      /\ (to.fraudDone <=> vetted) /\ to.by = form.box["fraudById"] /\ (to.calm <=> calm)
  OBVIOUS
<1> HIDE DEF to
<1>7. post \in [AddForms -> Posts \cup {Unposted}]
  BY DEF NewcomerInv, NewcomerTypeOK
<1>8. post' \in [AddForms -> Posts \cup {Unposted}] /\ post'[f] = to
      /\ \A g \in AddForms : g # f => post'[g] = post[g]
  BY <1>1, <1>5, <1>7
<1>9. ASSUME NEW g \in AddForms PROVE PostInv(g)'
  <2>1. CASE g = f
    <3>1. post'[g] = to
      BY <1>8, <2>1
    <3> HIDE DEF form
    <3>2. to.calm => to.name \in {to.slackId, "edited"}
      BY <1>2, <1>6
    <3>3. to.fraudDone => to.by # ""
      BY <1>3, <1>6
    <3> QED
      BY <1>5, <3>1, <3>2, <3>3, Zenon DEF PostInv
  <2>2. CASE g # f
    <3>1. PostInv(g) /\ post'[g] = post[g]
      BY <1>8, <2>2 DEF NewcomerInv
    <3> QED
      BY <3>1, Zenon DEF PostInv
  <2> QED
    BY <2>1, <2>2
<1> QED
  BY <1>8, <1>9

LEMMA MembersStay ==
  ASSUME NewcomerInv, UNCHANGED member, audited \subseteq audited', cut \subseteq cut',
         \A f \in AddForms : post[f].pc = "made" =>
           \/ post'[f].pc = "made" /\ post'[f].slackId = post[f].slackId
           \/ post[f].slackId \in audited' \cup cut'
  PROVE  \A p \in Inputs : MemberInv(p)'
<1> SUFFICES ASSUME NEW p \in Inputs, member[p] # Absent, member[p].made = "form"
    PROVE  /\ member[p].calm => member[p].name \in {p, "edited"}
           /\ member[p].isActive => member[p].by # ""
           /\ \/ p \in audited' \cup cut'
              \/ \E f \in AddForms : post'[f].pc = "made" /\ post'[f].slackId = p
  BY DEF MemberInv
<1>1. MemberInv(p)
  BY DEF NewcomerInv
<1>2. /\ member[p].calm => member[p].name \in {p, "edited"}
      /\ member[p].isActive => member[p].by # ""
  BY <1>1, Zenon DEF MemberInv
<1>3. p \in audited \cup cut \/ \E f \in AddForms : post[f].pc = "made" /\ post[f].slackId = p
  BY <1>1, Zenon DEF MemberInv
<1>4. CASE p \in audited \cup cut
  BY <1>2, <1>4
<1>5. CASE \E f \in AddForms : post[f].pc = "made" /\ post[f].slackId = p
  BY <1>2, <1>5
<1> QED
  BY <1>3, <1>4, <1>5

LEMMA FormsIdle ==
  ASSUME NewcomerInv, UNCHANGED <<blank, lookups, crossing>>
  PROVE  \A g \in AddForms : FormInv(g)'
<1> SUFFICES ASSUME NEW g \in AddForms PROVE FormInv(g)'
  OBVIOUS
<1>1. FormInv(g)
  BY DEF NewcomerInv
<1> QED
  BY <1>1 DEF FormInv, LookingUp

LEMMA PostsIdle ==
  ASSUME NewcomerInv, UNCHANGED post
  PROVE  \A g \in AddForms : PostInv(g)'
BY DEF NewcomerInv, PostInv

LEMMA NewcomersKept == NewcomerInv /\ [NewcomerNext]_newcomerVars => NewcomerInv'
<1> SUFFICES ASSUME NewcomerInv, [NewcomerNext]_newcomerVars PROVE NewcomerInv'
  OBVIOUS
<1>0. NewcomerTypeOK /\ keyed \in Nat
  BY DEF NewcomerInv, NewcomerTypeOK
<1> DEFINE FormsTyped == blank' \in [AddForms -> FormRec]
           PostsTyped == post' \in [AddForms -> Posts \cup {Unposted}]
           FormsKept == \A g \in AddForms : FormInv(g)'
           PostsKept == \A g \in AddForms : PostInv(g)'
           MembersKept == \A p \in Inputs : MemberInv(p)'
           KeyedKept == keyed' \in Nat
<1>k. Keyed \/ UNCHANGED keyed => KeyedKept
  BY <1>0 DEF Keyed
<1>a. ASSUME FormsTyped, FormsKept, KeyedKept, UNCHANGED <<post, member, audited, cut, elsewhere>>,
             lookups' \in [AddForms -> SUBSET LookupRec], crossing' \in [AddForms -> SUBSET Boxes]
      PROVE  NewcomerInv'
  <2>1. NewcomerTypeOK'
    BY <1>a, <1>0 DEF NewcomerTypeOK, FormRec, LookupRec
  <2>2. PostsKept
    BY <1>a, PostsIdle
  <2>3. MembersKept
    BY <1>a, MembersStay
  <2> QED
    BY <1>a, <2>1, <2>2, <2>3 DEF NewcomerInv
<1>l. lookups \in [AddForms -> SUBSET LookupRec] /\ crossing \in [AddForms -> SUBSET Boxes]
  BY <1>0 DEF NewcomerTypeOK, LookupRec
<1>1. ASSUME NEW f \in AddForms,
             \/ OpenForm(f) \/ PickSource(f) \/ CheckFraud(f)
             \/ \E ft \in FtNumbers \cup {""} : EditFtuid(f, ft)
             \/ \E role \in Jobs : PickRole(f, role)
             \/ \E name \in {"", "edited"} : EditName(f, name)
      PROVE  NewcomerInv'
  <2>1. PICK to \in FormRec : /\ blank' = [blank EXCEPT ![f] = to]
                              /\ SameSight(to, blank[f]) /\ to.name \in {blank[f].name, "edited", ""}
    <3>1. CASE \E name \in {"", "edited"} : EditName(f, name)
      BY <1>0, <3>1, NameEdited
    <3>2. CASE \/ OpenForm(f) \/ PickSource(f) \/ CheckFraud(f)
               \/ \E ft \in FtNumbers \cup {""} : EditFtuid(f, ft)
               \/ \E role \in Jobs : PickRole(f, role)
      BY <1>0, <3>2, PlainForm
    <3> QED
      BY <1>1, <3>1, <3>2
  <2>2. UNCHANGED <<lookups, crossing, post, member, audited, cut, elsewhere>> /\ KeyedKept
    BY <1>1, <1>k DEF OpenForm, PickSource, CheckFraud, EditFtuid, PickRole, EditName, FormOnly
  <2>3. FormsTyped
    BY <1>0, <2>1, BlankPut
  <2>4. FormsKept
    BY <2>1, <2>2, FormsStay
  <2> QED
    BY <1>a, <1>l, <2>2, <2>3, <2>4
<1>2. ASSUME NEW f \in AddForms, CloseForm(f) PROVE NewcomerInv'
  <2>1. PICK to \in FormRec :
           /\ blank' = [blank EXCEPT ![f] = to]
           /\ to.timers = blank[f].timers \cup {b \in Boxes : blank[f].box[b] # ""}
           /\ \A b \in Boxes : to.box[b] = "" /\ to.shown[b] = Nobody
    BY <1>0, <1>2, ClosedForm
  <2>2. UNCHANGED <<lookups, crossing, post, member, audited, cut, elsewhere>> /\ KeyedKept
    BY <1>2, <1>k DEF CloseForm, FormOnly
  <2>3. FormsTyped
    BY <1>0, <2>1, BlankPut
  <2>4. \A b \in Boxes \ crossing[f] : b \notin to.timers =>
          /\ \A l \in lookups[f] : l.box = b => l.of = to.box[b]
          /\ (~\E l \in lookups[f] : l.box = b) => to.shown[b] \in {to.box[b], Nobody}
    <3> SUFFICES ASSUME NEW b \in Boxes \ crossing[f], b \notin to.timers
        PROVE  /\ \A l \in lookups[f] : l.box = b => l.of = to.box[b]
               /\ to.shown[b] \in {to.box[b], Nobody}
      OBVIOUS
    <3>1. blank[f].box[b] = "" /\ b \notin blank[f].timers
      BY <2>1
    <3>2. \A l \in lookups[f] : l.box = b => l.of = ""
      BY <3>1 DEF NewcomerInv, FormInv
    <3>3. to.box[b] = "" /\ to.shown[b] = Nobody
      BY <2>1
    <3> QED
      BY <3>2, <3>3
  <2>5. "slackId" \in Boxes
    BY DEF Boxes
  <2>6. lookups' = [lookups EXCEPT ![f] = lookups[f]] /\ crossing' = [crossing EXCEPT ![f] = crossing[f]]
    BY <1>l, <2>2
  <2>7. to.shown["slackId"] # Nobody => to.name \in {to.shown["slackId"], "edited", ""}
    BY <2>1, <2>5
  <2>8. FormsKept
    <3>1. Truthful(to, lookups[f], crossing[f])
      BY <2>4, <2>7 DEF Truthful
    <3> QED
      BY <2>1, <2>6, <3>1, OneForm
  <2> QED
    BY <1>a, <1>l, <2>2, <2>3, <2>8
<1>3. ASSUME NEW f \in AddForms, NEW b \in Boxes, NEW text \in Inputs, TypeInto(f, b, text)
      PROVE  NewcomerInv'
  <2>1. PICK to \in FormRec :
           /\ blank' = [blank EXCEPT ![f] = to]
           /\ to.timers = blank[f].timers \cup {b} /\ to.shown = blank[f].shown /\ to.name = blank[f].name
           /\ \A c \in Boxes : c # b => to.box[c] = blank[f].box[c]
    BY <1>0, <1>3, BoxTyped
  <2>2. UNCHANGED <<lookups, crossing, post, member, audited, cut, elsewhere>> /\ KeyedKept
    BY <1>3, <1>k DEF TypeInto, FormOnly
  <2>3. FormsTyped
    BY <1>0, <2>1, BlankPut
  <2>4. FormInv(f)
    BY DEF NewcomerInv
  <2>5. \A c \in Boxes \ crossing[f] : c \notin to.timers =>
          /\ \A l \in lookups[f] : l.box = c => l.of = to.box[c]
          /\ (~\E l \in lookups[f] : l.box = c) => to.shown[c] \in {to.box[c], Nobody}
    <3> SUFFICES ASSUME NEW c \in Boxes \ crossing[f], c \notin to.timers
        PROVE  /\ \A l \in lookups[f] : l.box = c => l.of = to.box[c]
               /\ (~\E l \in lookups[f] : l.box = c) => to.shown[c] \in {to.box[c], Nobody}
      OBVIOUS
    <3>1. c # b /\ c \notin blank[f].timers /\ to.box[c] = blank[f].box[c] /\ to.shown[c] = blank[f].shown[c]
      BY <2>1
    <3>2. /\ \A l \in lookups[f] : l.box = c => l.of = blank[f].box[c]
          /\ ~LookingUp(f, c) => blank[f].shown[c] \in {blank[f].box[c], Nobody}
      BY <2>4, <3>1 DEF FormInv
    <3> QED
      BY <3>1, <3>2 DEF LookingUp
  <2>6. to.shown["slackId"] # Nobody => to.name \in {to.shown["slackId"], "edited", ""}
    BY <2>1, <2>4 DEF FormInv
  <2>7. lookups' = [lookups EXCEPT ![f] = lookups[f]] /\ crossing' = [crossing EXCEPT ![f] = crossing[f]]
    BY <1>l, <2>2
  <2>8. FormsKept
    <3>1. Truthful(to, lookups[f], crossing[f])
      BY <2>5, <2>6 DEF Truthful
    <3> QED
      BY <2>1, <2>7, <3>1, OneForm
  <2> QED
    BY <1>a, <1>l, <2>2, <2>3, <2>8
<1>4. ASSUME NEW f \in AddForms, NEW b \in Boxes, TimerGoesOff(f, b) PROVE NewcomerInv'
  <2> DEFINE new == [no |-> keyed, box |-> b, of |-> blank[f].box[b]]
             looks == IF blank[f].box[b] \in Applicants THEN lookups[f] \cup {new} ELSE lookups[f]
             cross == IF LookingUp(f, b) THEN crossing[f] \cup {b} ELSE crossing[f] \ {b}
  <2>1. PICK to \in FormRec :
           /\ blank' = [blank EXCEPT ![f] = to]
           /\ to.box = blank[f].box /\ to.timers = blank[f].timers \ {b}
           /\ \/ /\ blank[f].box[b] \in Applicants
                 /\ to.shown = blank[f].shown /\ to.name = blank[f].name
              \/ /\ blank[f].box[b] \notin Applicants
                 /\ to.shown = [blank[f].shown EXCEPT ![b] = Nobody]
                 /\ b # "slackId" => to.name = blank[f].name
    BY <1>0, <1>4, TimerForm
  <2>2. /\ lookups' = [lookups EXCEPT ![f] = looks] /\ crossing' = [crossing EXCEPT ![f] = cross]
        /\ UNCHANGED <<post, member, audited, cut, elsewhere>> /\ KeyedKept
    BY <1>4, <1>k DEF TimerGoesOff, TimerOff
  <2>3. FormsTyped
    BY <1>0, <2>1, BlankPut
  <2>4. FormInv(f) /\ blank[f].shown \in [Boxes -> Applicants \cup {Nobody}] /\ "slackId" \in Boxes
        /\ crossing[f] \in SUBSET Boxes /\ lookups[f] \in SUBSET LookupRec
    BY <1>0, <1>l DEF NewcomerInv, NewcomerTypeOK, Boxes
  <2>5. /\ looks \in SUBSET LookupRec /\ cross \in SUBSET Boxes
        /\ \A l \in looks : l \in lookups[f] \/ (l.box = b /\ l.of = blank[f].box[b])
        /\ lookups[f] \subseteq looks
        /\ blank[f].box[b] \in Applicants => \E l \in looks : l.box = b
    <3>1. CASE blank[f].box[b] \in Applicants
      <4>1. new \in LookupRec /\ new.box = b /\ new.of = blank[f].box[b]
        BY <1>0, <3>1 DEF LookupRec
      <4> HIDE DEF new
      <4> QED
        BY <2>4, <3>1, <4>1
    <3>2. CASE blank[f].box[b] \notin Applicants
      BY <2>4, <3>2
    <3> QED
      BY <3>1, <3>2
  <2>6. \A c \in Boxes \ cross : c # b => c \notin crossing[f]
    OBVIOUS
  <2>7. b \notin cross => ~LookingUp(f, b)
    OBVIOUS
  <2> HIDE DEF looks, cross
  <2>8. \A c \in Boxes \ cross : c \notin to.timers =>
          /\ \A l \in looks : l.box = c => l.of = to.box[c]
          /\ (~\E l \in looks : l.box = c) => to.shown[c] \in {to.box[c], Nobody}
    <3> SUFFICES ASSUME NEW c \in Boxes \ cross, c \notin to.timers
        PROVE  /\ \A l \in looks : l.box = c => l.of = to.box[c]
               /\ (~\E l \in looks : l.box = c) => to.shown[c] \in {to.box[c], Nobody}
      OBVIOUS
    <3>1. CASE c = b
      <4>1. \A l \in lookups[f] : l.box # b
        BY <2>7, <3>1 DEF LookingUp
      <4>2. \A l \in looks : l.box = c => l.of = to.box[c]
        BY <2>1, <2>5, <3>1, <4>1
      <4>3. (~\E l \in looks : l.box = c) => to.shown[c] = Nobody
        BY <2>1, <2>4, <2>5, <3>1
      <4> QED
        BY <4>2, <4>3
    <3>2. CASE c # b
      <4>1. c \in Boxes \ crossing[f] /\ c \notin blank[f].timers /\ to.box[c] = blank[f].box[c]
            /\ to.shown[c] = blank[f].shown[c]
        BY <2>1, <2>4, <2>6, <3>2
      <4>2. /\ \A l \in lookups[f] : l.box = c => l.of = blank[f].box[c]
            /\ ~LookingUp(f, c) => blank[f].shown[c] \in {blank[f].box[c], Nobody}
        BY <2>4, <4>1 DEF FormInv
      <4>3. \A l \in looks : l.box = c => l \in lookups[f]
        BY <2>5, <3>2
      <4>4. (~\E l \in looks : l.box = c) => ~LookingUp(f, c)
        BY <2>5 DEF LookingUp
      <4> QED
        BY <4>1, <4>2, <4>3, <4>4
    <3> QED
      BY <3>1, <3>2
  <2>9. to.shown["slackId"] # Nobody => to.name \in {to.shown["slackId"], "edited", ""}
    <3>1. blank[f].shown["slackId"] # Nobody
            => blank[f].name \in {blank[f].shown["slackId"], "edited", ""}
      BY <2>4 DEF FormInv
    <3> QED
      BY <2>1, <2>4, <3>1
  <2>10. FormsKept
    <3>1. Truthful(to, looks, cross)
      BY <2>8, <2>9 DEF Truthful
    <3> QED
      BY <2>1, <2>2, <3>1, OneForm
  <2>11. lookups' \in [AddForms -> SUBSET LookupRec] /\ crossing' \in [AddForms -> SUBSET Boxes]
    BY <1>l, <2>2, <2>5
  <2> QED
    BY <1>a, <2>2, <2>3, <2>10, <2>11
<1>5. ASSUME NEW f \in AddForms, NEW l \in lookups[f], LookupEnds(f, l) PROVE NewcomerInv'
  <2> DEFINE looks == lookups[f] \ {l}
  <2>0. l \in LookupRec /\ l.box \in Boxes /\ l.of \in Applicants
    BY <1>l DEF LookupRec
  <2>1. PICK to \in FormRec :
           /\ blank' = [blank EXCEPT ![f] = to]
           /\ to.box = blank[f].box /\ to.timers = blank[f].timers
           /\ \/ /\ to.shown = [blank[f].shown EXCEPT ![l.box] = l.of]
                 /\ to.name = IF l.box = "slackId" THEN l.of ELSE blank[f].name
              \/ /\ to.shown = [blank[f].shown EXCEPT ![l.box] = Nobody]
                 /\ l.box # "slackId" => to.name = blank[f].name
    BY <1>0, <1>5, <2>0, AnsweredForm
  <2>2. /\ lookups' = [lookups EXCEPT ![f] = looks]
        /\ UNCHANGED <<crossing, post, member, audited, cut, elsewhere>> /\ KeyedKept
    BY <1>5, <1>k DEF LookupEnds
  <2>3. FormsTyped
    BY <1>0, <2>1, BlankPut
  <2>4. FormInv(f) /\ blank[f].shown \in [Boxes -> Applicants \cup {Nobody}] /\ "slackId" \in Boxes
    BY <1>0 DEF NewcomerInv, NewcomerTypeOK, Boxes
  <2>5. \A c \in Boxes \ crossing[f] : c \notin to.timers =>
          /\ \A m \in looks : m.box = c => m.of = to.box[c]
          /\ (~\E m \in looks : m.box = c) => to.shown[c] \in {to.box[c], Nobody}
    <3> SUFFICES ASSUME NEW c \in Boxes \ crossing[f], c \notin to.timers
        PROVE  /\ \A m \in looks : m.box = c => m.of = to.box[c]
               /\ (~\E m \in looks : m.box = c) => to.shown[c] \in {to.box[c], Nobody}
      OBVIOUS
    <3>1. /\ \A m \in lookups[f] : m.box = c => m.of = blank[f].box[c]
          /\ ~LookingUp(f, c) => blank[f].shown[c] \in {blank[f].box[c], Nobody}
      BY <2>1, <2>4 DEF FormInv
    <3>2. CASE l.box = c
      <4>1. l.of = to.box[c]
        BY <2>1, <3>1, <3>2
      <4>2. to.shown[c] = l.of \/ to.shown[c] = Nobody
        BY <2>0, <2>1, <2>4, <3>2
      <4> QED
        BY <2>1, <3>1, <4>1, <4>2
    <3>3. CASE l.box # c
      <4>1. to.shown[c] = blank[f].shown[c] /\ to.box[c] = blank[f].box[c]
        BY <2>0, <2>1, <2>4, <3>3
      <4>2. (~\E m \in looks : m.box = c) => ~LookingUp(f, c)
        BY <3>3 DEF LookingUp
      <4> QED
        BY <3>1, <4>1, <4>2
    <3> QED
      BY <3>2, <3>3
  <2>6. to.shown["slackId"] # Nobody => to.name \in {to.shown["slackId"], "edited", ""}
    <3>1. blank[f].shown["slackId"] # Nobody
            => blank[f].name \in {blank[f].shown["slackId"], "edited", ""}
      BY <2>4 DEF FormInv
    <3> QED
      BY <2>0, <2>1, <2>4, <3>1
  <2>7. crossing' = [crossing EXCEPT ![f] = crossing[f]]
    BY <1>l, <2>2
  <2>9. lookups' \in [AddForms -> SUBSET LookupRec] /\ crossing' \in [AddForms -> SUBSET Boxes]
    BY <1>l, <2>2
  <2> HIDE DEF looks
  <2>8. FormsKept
    <3>1. blank' = [blank EXCEPT ![f] = to] /\ lookups' = [lookups EXCEPT ![f] = looks]
      BY <2>1, <2>2
    <3>2. Truthful(to, looks, crossing[f])
      BY <2>5, <2>6 DEF Truthful
    <3> QED
      BY <2>7, <3>1, <3>2, OneForm
  <2> QED
    BY <1>a, <2>2, <2>3, <2>8, <2>9
<1>6. ASSUME NEW f \in AddForms, Submit(f) \/ NotAdded(f) \/ NetworkDies(f) PROVE NewcomerInv'
  <2>1. PICK to \in FormRec : /\ blank' = [blank EXCEPT ![f] = to]
                              /\ SameSight(to, blank[f]) /\ to.name = blank[f].name
    BY <1>0, <1>6, PlainForm
  <2>2. UNCHANGED <<lookups, crossing, member, audited, elsewhere, keyed>>
    BY <1>6 DEF Submit, NotAdded, NetworkDies
  <2>3. FormsTyped /\ FormsKept
    BY <1>0, <2>1, <2>2, BlankPut, FormsStay
  <2>4. PostsTyped /\ PostsKept /\ \A g \in AddForms : g # f => post'[g] = post[g]
    <3>1. CASE Submit(f)
      BY <3>1, Submitted
    <3>2. CASE NotAdded(f)
      BY <3>2, PostGone DEF NotAdded
    <3>3. CASE NetworkDies(f)
      <4>1. UNCHANGED post
        BY <3>3 DEF NetworkDies
      <4> QED
        BY <1>0, <4>1, PostsIdle DEF NewcomerTypeOK
    <3> QED
      BY <1>6, <3>1, <3>2, <3>3
  <2>5. /\ cut' \subseteq Inputs /\ cut \subseteq cut'
        /\ post[f].pc = "made" => post[f].slackId \in cut' \/ post'[f] = post[f]
    <3>0. cut \subseteq Inputs
      BY <1>0 DEF NewcomerTypeOK
    <3>1. CASE Submit(f)
      <4>1. post[f] = Unposted /\ UNCHANGED cut
        BY <3>1 DEF Submit
      <4> QED
        BY <3>0, <4>1 DEF Unposted
    <3>2. CASE NotAdded(f)
      <4>1. post[f].slackId \in Inputs
        BY <1>0, <3>2, PostedType DEF Posts, NotAdded
      <4>2. cut' = IF post[f].pc = "made" THEN cut \cup {post[f].slackId} ELSE cut
        BY <3>2 DEF NotAdded
      <4> QED
        BY <3>0, <4>1, <4>2
    <3>3. CASE NetworkDies(f)
      BY <3>0, <3>3 DEF NetworkDies
    <3> QED
      BY <1>6, <3>1, <3>2, <3>3
  <2>6. NewcomerTypeOK'
    BY <1>0, <2>2, <2>3, <2>4, <2>5 DEF NewcomerTypeOK, FormRec
  <2>7. MembersKept
    BY <2>2, <2>4, <2>5, MembersStay
  <2> QED
    BY <2>3, <2>4, <2>6, <2>7 DEF NewcomerInv
<1>7. ASSUME NEW f \in AddForms, LookForUser(f) \/ EnterCreation(f) PROVE NewcomerInv'
  <2>1. UNCHANGED <<blank, lookups, crossing, member, cut, elsewhere, keyed>>
    BY <1>7 DEF LookForUser, EnterCreation
  <2>2. PICK pc \in {"looked", "ok", "refused"} : PostAt(f, pc)
    BY <1>7 DEF LookForUser, EnterCreation
  <2>3. post[f].pc \in {"sent", "made"} /\ post[f] \in Posts /\ post[f].slackId \in Inputs
    BY <1>0, <1>7, PostedType DEF LookForUser, EnterCreation, Posts
  <2>4. /\ PostsTyped /\ PostsKept
        /\ \A g \in AddForms : g # f => post'[g] = post[g]
    BY <2>2, <2>3, PostedGoesOn
  <2>5. /\ audited' \subseteq Inputs /\ audited \subseteq audited'
        /\ post[f].pc = "made" => post[f].slackId \in audited'
    BY <1>0, <1>7, <2>3 DEF LookForUser, EnterCreation, NewcomerTypeOK
  <2>6. NewcomerTypeOK'
    BY <1>0, <2>1, <2>4, <2>5 DEF NewcomerTypeOK
  <2>7. MembersKept
    BY <2>1, <2>4, <2>5, MembersStay
  <2>8. FormsKept
    BY <2>1, FormsIdle
  <2> QED
    BY <2>4, <2>6, <2>7, <2>8 DEF NewcomerInv
<1>8. ASSUME NEW f \in AddForms, CreateUser(f) PROVE NewcomerInv'
  <2> DEFINE r == post[f]
             active == r.role # "observer" /\ r.fraudDone
             row == [made |-> "form", name |-> r.name, ft |-> r.ft, role |-> r.role,
                     isActive |-> active, by |-> r.by, calm |-> r.calm]
  <2>1. UNCHANGED <<blank, lookups, crossing, audited, cut, elsewhere, keyed>>
    BY <1>8 DEF CreateUser
  <2>2. r.pc = "looked" /\ r \in Posts /\ PostInv(f)
    BY <1>0, <1>8, PostedType DEF CreateUser, NewcomerInv
  <2>3. /\ PostsTyped /\ PostsKept /\ post'[f].pc = "made" /\ post'[f].slackId = r.slackId
        /\ \A g \in AddForms : g # f => post'[g] = post[g]
    BY <1>8, <2>2, PostedGoesOn DEF CreateUser
  <2>4. member' = [member EXCEPT ![r.slackId] = row]
    BY <1>8 DEF CreateUser
  <2>5. /\ r.name \in Named /\ r.ft \in FtNumbers /\ r.role \in Jobs /\ r.by \in Inputs
        /\ r.calm \in BOOLEAN /\ r.fraudDone \in BOOLEAN /\ r.slackId \in Inputs
    BY <2>2 DEF Posts
  <2>6. /\ r.calm => r.name \in {r.slackId, "edited"}
        /\ active => r.by # ""
    BY <2>2 DEF PostInv
  <2>7. active \in BOOLEAN
    OBVIOUS
  <2> HIDE DEF r, active
  <2>8. row \in UserRows
    BY <2>5, <2>7 DEF UserRows
  <2>9. /\ row.name = r.name /\ (row.calm <=> r.calm) /\ (row.isActive <=> active) /\ row.by = r.by
    OBVIOUS
  <2> HIDE DEF row
  <2>10. member \in [Inputs -> UserRows \cup {Absent}]
    BY <1>0 DEF NewcomerTypeOK
  <2>11. /\ member' \in [Inputs -> UserRows \cup {Absent}] /\ member'[r.slackId] = row
         /\ \A p \in Inputs : p # r.slackId => member'[p] = member[p]
    BY <2>4, <2>5, <2>8, <2>10
  <2>12. ASSUME NEW p \in Inputs PROVE MemberInv(p)'
    <3>1. CASE p = r.slackId
      <4>1. \E g \in AddForms : post'[g].pc = "made" /\ post'[g].slackId = p
        BY <2>3, <3>1
      <4>2. /\ member'[p].calm => member'[p].name \in {p, "edited"}
            /\ member'[p].isActive => member'[p].by # ""
        BY <2>6, <2>9, <2>11, <3>1
      <4> QED
        BY <4>1, <4>2, Zenon DEF MemberInv
    <3>2. CASE p # r.slackId
      <4>1. member'[p] = member[p] /\ MemberInv(p) /\ audited' = audited /\ cut' = cut
        BY <2>1, <2>11, <3>2 DEF NewcomerInv
      <4>2. \A g \in AddForms : post[g].pc = "made" => post'[g] = post[g]
        BY <2>2, <2>3 DEF r
      <4> QED
        BY <4>1, <4>2, Zenon DEF MemberInv
    <3> QED
      BY <3>1, <3>2
  <2>13. NewcomerTypeOK'
    BY <1>0, <2>1, <2>3, <2>11 DEF NewcomerTypeOK
  <2>14. FormsKept
    BY <2>1, FormsIdle
  <2> QED
    BY <2>3, <2>12, <2>13, <2>14 DEF NewcomerInv
<1>9. ASSUME NEW f \in AddForms, AddedThenReload(f) PROVE NewcomerInv'
  <2>1. /\ blank' = [blank EXCEPT ![f] = FirstState] /\ lookups' = [lookups EXCEPT ![f] = {}]
        /\ crossing' = [crossing EXCEPT ![f] = {}] /\ post' = [post EXCEPT ![f] = Unposted]
        /\ UNCHANGED <<member, audited, cut, elsewhere, keyed>> /\ post[f].pc = "ok"
    BY <1>9 DEF AddedThenReload
  <2>2. FormsTyped
    BY <1>0, <2>1, BlankPut, FirstForm
  <2>3. "slackId" \in Boxes /\ FirstState \in FormRec
        /\ \A b \in Boxes : FirstState.shown[b] = Nobody
    BY FirstForm DEF Boxes
  <2> DEFINE none == {}
  <2>4. FormsKept
    <3>1. \A b \in Boxes \ none : b \notin FirstState.timers =>
            /\ \A l \in none : l.box = b => l.of = FirstState.box[b]
            /\ (~\E l \in none : l.box = b) => FirstState.shown[b] \in {FirstState.box[b], Nobody}
      BY <2>3
    <3>2. FirstState.shown["slackId"] # Nobody
            => FirstState.name \in {FirstState.shown["slackId"], "edited", ""}
      BY <2>3
    <3>3. /\ lookups' = [lookups EXCEPT ![f] = none] /\ crossing' = [crossing EXCEPT ![f] = none]
          /\ blank' = [blank EXCEPT ![f] = FirstState] /\ FirstState \in FormRec
      BY <2>1, <2>3
    <3> HIDE DEF none
    <3>4. Truthful(FirstState, none, none)
      BY <3>1, <3>2 DEF Truthful
    <3> QED
      BY <3>3, <3>4, OneForm
  <2>5. PostsTyped /\ PostsKept /\ \A g \in AddForms : g # f => post'[g] = post[g]
    BY <2>1, PostGone
  <2>6. lookups' \in [AddForms -> SUBSET LookupRec] /\ crossing' \in [AddForms -> SUBSET Boxes]
    BY <1>l, <2>1
  <2>7. NewcomerTypeOK'
    BY <1>0, <2>1, <2>2, <2>5, <2>6 DEF NewcomerTypeOK, FormRec, LookupRec
  <2>8. MembersKept
    BY <2>1, <2>5, MembersStay
  <2> QED
    BY <2>4, <2>5, <2>7, <2>8 DEF NewcomerInv
<1>10. ASSUME NEW p \in Applicants, LookElsewhere(p) \/ AddElsewhere(p) PROVE NewcomerInv'
  <2>0. p \in Inputs /\ p \in Named
    BY DEF Inputs, Named
  <2>1. UNCHANGED <<blank, lookups, crossing, post, audited, cut>> /\ KeyedKept
    BY <1>10, <1>k DEF LookElsewhere, AddElsewhere
  <2>2. elsewhere' \subseteq Applicants
    BY <1>0, <1>10 DEF LookElsewhere, AddElsewhere, NewcomerTypeOK
  <2> DEFINE row == [made |-> "elsewhere", name |-> p, ft |-> "", role |-> "observer",
                     isActive |-> TRUE, by |-> "", calm |-> TRUE]
  <2>3. member' = member \/ member' = [member EXCEPT ![p] = row]
    BY <1>10 DEF LookElsewhere, AddElsewhere
  <2>4. row \in UserRows /\ row.made = "elsewhere"
    BY <2>0 DEF UserRows, Jobs, Inputs
  <2> HIDE DEF row
  <2>5. member \in [Inputs -> UserRows \cup {Absent}]
    BY <1>0 DEF NewcomerTypeOK
  <2>6. /\ member' \in [Inputs -> UserRows \cup {Absent}]
        /\ \A q \in Inputs : member'[q] = member[q] \/ member'[q].made = "elsewhere"
    BY <2>0, <2>3, <2>4, <2>5
  <2>7. ASSUME NEW q \in Inputs PROVE MemberInv(q)'
    <3>1. CASE member'[q] = member[q]
      <4>1. MemberInv(q)
        BY DEF NewcomerInv
      <4> QED
        BY <2>1, <3>1, <4>1, Zenon DEF MemberInv
    <3>2. CASE member'[q].made = "elsewhere"
      BY <3>2 DEF MemberInv
    <3> QED
      BY <2>6, <3>1, <3>2
  <2>8. NewcomerTypeOK'
    BY <1>0, <2>1, <2>2, <2>6 DEF NewcomerTypeOK
  <2>9. FormsKept /\ PostsKept
    BY <2>1, FormsIdle, PostsIdle
  <2> QED
    BY <2>7, <2>8, <2>9 DEF NewcomerInv
<1>11. CASE UNCHANGED newcomerVars
  <2>1. UNCHANGED <<blank, lookups, crossing, post, member, audited, cut, elsewhere, keyed>>
    BY <1>11 DEF newcomerVars
  <2>2. NewcomerTypeOK'
    BY <1>0, <2>1 DEF NewcomerTypeOK
  <2>3. FormsKept /\ PostsKept /\ MembersKept
    BY <2>1, FormsIdle, PostsIdle, MembersStay
  <2> QED
    BY <2>2, <2>3 DEF NewcomerInv
<1> QED
  BY <1>1, <1>2, <1>3, <1>4, <1>5, <1>6, <1>7, <1>8, <1>9, <1>10, <1>11 DEF NewcomerNext

(* The form, its lookups and the users it adds keep their types.             *)
(* (add-user.tsx:44-207).                                                    *)
THEOREM NewcomerTypes == NewcomerSpec => []NewcomerTypeOK
<1>1. NewcomerInv => NewcomerTypeOK
  BY DEF NewcomerInv
<1> QED
  BY NewcomersFirst, NewcomersKept, <1>1, PTL DEF NewcomerSpec

(* However typing, timers and answers fall, a box at rest shows him whose id *)
(* is in it or nobody, unless two of its lookups crossed, and who was added  *)
(* so has his own name or one typed over it; who is active was checked by    *)
(* somebody named, and additions are in the audit log (add-user.tsx:44-207,  *)
(* users/add/route.ts:24-84).                                                *)
THEOREM AddedIsShown == NewcomerSpec => []AddedAsShown
<1>1. NewcomerInv => AddedAsShown
  <2> SUFFICES ASSUME NewcomerInv PROVE AddedAsShown
    OBVIOUS
  <2>1. ASSUME NEW f \in AddForms, NEW b \in Boxes \ crossing[f], AtRest(f, b)
        PROVE  blank[f].shown[b] \in {blank[f].box[b], Nobody}
    BY <2>1 DEF NewcomerInv, FormInv, AtRest
  <2>2. ASSUME NEW p \in Inputs, member[p] # Absent, member[p].made = "form"
        PROVE  /\ member[p].calm => member[p].name \in {p, "edited"}
               /\ member[p].isActive => member[p].by # ""
               /\ \/ p \in audited \cup cut
                  \/ \E f \in AddForms : post[f].pc = "made" /\ post[f].slackId = p
    <3>1. MemberInv(p)
      BY DEF NewcomerInv
    <3> QED
      BY <2>2, <3>1, Zenon DEF MemberInv
  <2> QED
    BY <2>1, <2>2, Zenon DEF AddedAsShown
<1> QED
  BY NewcomersFirst, NewcomersKept, <1>1, PTL DEF NewcomerSpec

------------------------------------------------------------------------------
(* All of them                                                               *)

(* The pages of staff, open at the same time, keep their word for any number *)
(* of people, ships, visits, requests and forms (useTicketActions.ts,        *)
(* spot_checks/[userId]/review/review.tsx, case.tsx, user-profile.tsx,       *)
(* assignments/[id]/edit/form.tsx, add-user.tsx).                            *)
THEOREM StaffPagesAlwaysHold == StaffPagesSpec => []StaffPagesHold
<1>1. TicketPageHolds /\ NoShipPassedOver /\ CaseIsCurrent /\ RecordIsShown /\ AddedAsShown
        => StaffPagesHold
  BY DEF StaffPagesHold
<1> QED
  BY TicketPageKeepsWord, NoneIsPassedOver, CaseStaysCurrent, RecordsShown, AddedIsShown, <1>1, PTL
  DEF StaffPagesSpec
=============================================================================
