------------------------------ MODULE Earnings ------------------------------
(***************************************************************************)
(* What a verdict earns (lib/payouts.ts): calc() reads the rows of the       *)
(* period, which turns at noon, in up to four queries, and the verdict       *)
(* handler writes the row and pays after them.  A pay is kept as its         *)
(* factors, in hundredths: the product is what the reviewer is paid.  A      *)
(* handler whose query fails goes no further.  Left out: a captain's choice  *)
(* of who is paid (Certification has it).                                    *)
(***************************************************************************)
EXTENDS Integers, FiniteSets, Sequences

CONSTANTS
  Wrights, NoWright, \* reviewers
  Captains,          \* those of them who may decide again
  Heap,              \* ships
  Born,              \* [Heap -> Int]: when ships came, in half days
  Jobs,              \* slots for verdicts in progress
  Grinds,            \* reviews of a period that raise the factor: <<7, 15>>
  Backlog,           \* old pending ships that lower it: 10
  FirstHalf, LastHalf, \* bound: the clock, in half days
  MaxPays            \* bound: verdicts undertaken and undone

ASSUME EarnAssumption ==
  /\ Grinds \in Seq(Nat) /\ Len(Grinds) = 2 /\ 0 < Grinds[1] /\ Grinds[1] <= Grinds[2]
  /\ Backlog \in Nat /\ Captains \subseteq Wrights /\ NoWright \notin Wrights

VARIABLES
  ships,    \* the rows
  half,     \* the clock
  jobs,     \* [Jobs -> ...]: verdicts in progress
  pays,     \* history: what was paid, in order
  undertaken,
  disturbed \* history: <<reviewer, period>> whose rows were undone, or whose
            \* verdicts overlapped or saw the period turn

earnVars == <<ships, half, jobs, pays, undertaken, disturbed>>

Period(h) == h \div 2
Judged == {"approved", "rejected"}
Factors == [rank : {100, 125, 150, 175}, first : {100, 150}, grind : {100, 120, 130},
            refusal : {80, 100}, old : {100, 120, 150}, queue : {90, 100}]
Plain == [rank |-> 100, first |-> 100, grind |-> 100, refusal |-> 100, old |-> 100, queue |-> 100]
NoPay == [pc |-> "none", who |-> NoWright, ship |-> CHOOSE s \in Heap : TRUE,
          pay |-> Plain]

EarnTypeOK ==
  /\ ships \in [Heap -> [status : Judged \cup {"pending"}, by : Wrights \cup {NoWright}, done : Int]]
  /\ half \in FirstHalf .. LastHalf
  /\ \A j \in Jobs : /\ jobs[j].pc \in {"none", "mine", "board", "today", "queue", "write"}
                     /\ jobs[j].pay \in Factors
                     /\ jobs[j].pc = "none" <=> jobs[j] = NoPay
  /\ \A i \in DOMAIN pays : pays[i].pay \in Factors /\ pays[i].who \in Wrights

EarnInit ==
  /\ ships = [s \in Heap |-> [status |-> "pending", by |-> NoWright, done |-> 0]]
  /\ half = FirstHalf
  /\ jobs = [j \in Jobs |-> NoPay] /\ pays = <<>> /\ undertaken = 0 /\ disturbed = {}

------------------------------------------------------------------------------
(* The queries                                                               *)

(* Fault: the rejections are not counted.                                    *)
DecidedApprovals(u, p) ==
  Cardinality({s \in Heap : ships[s].by = u /\ ships[s].status = "approved" /\ Period(ships[s].done) = p})

(* How many rows show a decision of u made in the period.                    *)
DecidedIn(u, p) ==
  Cardinality({s \in Heap : ships[s].by = u /\ ships[s].status \in Judged /\ Period(ships[s].done) = p})

(* Whoever has more comes before u, whoever has as many may.                 *)
Places(u, p) ==
  LET mine == DecidedIn(u, p)
      above == Cardinality({w \in Wrights : DecidedIn(w, p) > mine})
      level == Cardinality({w \in Wrights : DecidedIn(w, p) = mine /\ mine > 0})
  IN above + 1 .. above + level

Multi(place) == CASE place = 1 -> 175 [] place = 2 -> 150 [] place = 3 -> 125 [] OTHER -> 100

GrindOf(n) == IF n >= Grinds[2] THEN 130 ELSE IF n >= Grinds[1] THEN 120 ELSE 100

Age(s) == half - Born[s]
OldOf(s) == IF Age(s) > 8 THEN 150 ELSE IF Age(s) > 2 THEN 120 ELSE 100

------------------------------------------------------------------------------
(* A verdict                                                                 *)

Next1(j, pc, pay) == jobs' = [jobs EXCEPT ![j].pc = pc, ![j].pay = pay]

BeginVerdict(j, u, s) ==
  /\ jobs[j].pc = "none" /\ undertaken < MaxPays
  /\ ships[s].status = "pending" \/ u \in Captains
  /\ undertaken' = undertaken + 1
  /\ jobs' = [jobs EXCEPT ![j] = [pc |-> "mine", who |-> u, ship |-> s, pay |-> Plain]]
  /\ disturbed' = disturbed \cup
       (IF \E k \in Jobs : jobs[k].who = u THEN {<<u, Period(half)>>} ELSE {})
  /\ UNCHANGED <<ships, half, pays>>

(* getMulti: nobody without a decision in the period has a rank.             *)
ReadMine(j) ==
  /\ jobs[j].pc = "mine"
  /\ Next1(j, IF DecidedIn(jobs[j].who, Period(half)) = 0 THEN "today" ELSE "board", jobs[j].pay)
  /\ UNCHANGED <<ships, half, pays, undertaken, disturbed>>

(* Who lost his decisions since is on no board.                              *)
ReadBoard(j) ==
  /\ jobs[j].pc = "board"
  /\ LET places == Places(jobs[j].who, Period(half)) IN
       \/ places = {} /\ Next1(j, "today", jobs[j].pay)
       \/ \E place \in places : Next1(j, "today", [jobs[j].pay EXCEPT !.rank = Multi(place)])
  /\ UNCHANGED <<ships, half, pays, undertaken, disturbed>>

ReadToday(j) ==
  /\ jobs[j].pc = "today"
  /\ LET n == DecidedIn(jobs[j].who, Period(half))
         pay == [jobs[j].pay EXCEPT !.first = IF n = 0 THEN 150 ELSE 100, !.grind = GrindOf(n),
                                    !.old = OldOf(jobs[j].ship)]
     IN Next1(j, IF Age(jobs[j].ship) <= 2 THEN "queue" ELSE "write", pay)
  /\ UNCHANGED <<ships, half, pays, undertaken, disturbed>>

ReadQueue(j) ==
  /\ jobs[j].pc = "queue"
  /\ LET late == {s \in Heap : ships[s].status = "pending" /\ Age(s) > 2}
     IN Next1(j, "write", [jobs[j].pay EXCEPT !.queue = IF Cardinality(late) > Backlog THEN 90 ELSE 100])
  /\ UNCHANGED <<ships, half, pays, undertaken, disturbed>>

(* A row that is written again no longer counts for who decided it before.   *)
Undone(s) ==
  IF ships[s].status \in Judged THEN {<<ships[s].by, Period(ships[s].done)>>} ELSE {}

(* Which verdict was asked for makes no difference before.                   *)
WriteVerdict(j, v) ==
  LET job == jobs[j]
      pay == [job.pay EXCEPT !.refusal = IF v = "rejected" THEN 80 ELSE 100]
  IN
  /\ job.pc = "write"
  /\ ships' = [ships EXCEPT ![job.ship] = [@ EXCEPT !.status = v, !.by = job.who, !.done = half]]
  /\ pays' = Append(pays, [who |-> job.who, period |-> Period(half), pay |-> pay])
  /\ jobs' = [jobs EXCEPT ![j] = NoPay]
  /\ disturbed' = disturbed \cup Undone(job.ship)
  /\ UNCHANGED <<half, undertaken>>

(* "Uncert": the verdict `pending` earns nothing, and counts for nobody.     *)
TakeBack(u, s) ==
  /\ u \in Captains /\ ships[s].status \in Judged /\ undertaken < MaxPays
  /\ undertaken' = undertaken + 1
  /\ ships' = [ships EXCEPT ![s] = [@ EXCEPT !.status = "pending", !.by = u, !.done = half]]
  /\ disturbed' = disturbed \cup Undone(s)
  /\ UNCHANGED <<half, jobs, pays>>

HalfDay ==
  /\ half < LastHalf /\ half' = half + 1
  /\ disturbed' = disturbed \cup
       {<<jobs[j].who, Period(half')>> : j \in {k \in Jobs : jobs[k].pc # "none" /\ Period(half') # Period(half)}}
  /\ UNCHANGED <<ships, jobs, pays, undertaken>>

EarnNext ==
  \/ \E j \in Jobs : \/ \E u \in Wrights, s \in Heap : BeginVerdict(j, u, s)
                     \/ ReadMine(j) \/ ReadBoard(j) \/ ReadToday(j) \/ ReadQueue(j)
                     \/ \E v \in Judged : WriteVerdict(j, v)
  \/ \E u \in Wrights, s \in Heap : TakeBack(u, s)
  \/ HalfDay

EarnSpec == EarnInit /\ [][EarnNext]_earnVars

------------------------------------------------------------------------------
(* Properties                                                                *)

EarlierBy(u, i) ==
  Cardinality({k \in 1 .. i - 1 : pays[k].who = u /\ pays[k].period = pays[i].period})

(* What the page promises (mystats/page.tsx:265-294) is what is paid, for    *)
(* each review of a period in turn: 1.5x for the first and for no other,     *)
(* more after 7 and after 15, and from the second on at least the rank below *)
(* everybody else who earned in the period; never a first review's bonus     *)
(* together with a rank's.  Except for a reviewer whose verdicts overlapped, *)
(* saw the period turn, or were undone (lib/payouts.ts:67-143).              *)
PaysAsPosted ==
  \A i \in DOMAIN pays :
    LET u == pays[i].who
        n == EarlierBy(u, i)
        others == {w \in Wrights \ {u} : EarlierBy(w, i) > 0}
    IN <<u, pays[i].period>> \notin disturbed =>
         /\ pays[i].pay.first = IF n = 0 THEN 150 ELSE 100
         /\ pays[i].pay.grind = GrindOf(n)
         /\ IF n = 0 THEN pays[i].pay.rank = 100
                     ELSE pays[i].pay.rank >= Multi(Cardinality(others) + 1)
=============================================================================
