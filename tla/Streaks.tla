------------------------------- MODULE Streaks -------------------------------
(***************************************************************************)
(* A reviewer's streak: after each verdict the handler counts the reviews    *)
(* done since midnight in New York and, from the Quota-th on, moves streak   *)
(* and lastReviewDate (ship_certifications/[id]/route.ts:338-429).  A        *)
(* handler notes the day, counts, reads and writes with awaits in between.   *)
(***************************************************************************)
EXTENDS Integers, Functions

CONSTANTS
  Quota,     \* the 7 reviews a day
  Verdicts,  \* slots for requests
  FirstDay, LastDay,  \* the calendar, in days; LastDay is a bound
  MaxADay    \* bound: reviews completed on a day

ASSUME StreakAssumption ==
  /\ Quota \in Nat \ {0} /\ MaxADay \in Nat
  /\ FirstDay \in Nat \ {0, 1} /\ LastDay \in Nat

Days == FirstDay .. LastDay

VARIABLES
  today,
  reviews,    \* [Days -> Nat]: the reviewer's rows by the day of reviewCompletedAt
  streak,
  last,       \* lastReviewDate, 0 if there is none
  verdict,    \* [Verdicts -> Progress]: PATCH in progress
  reached,    \* history: days on which the reviews reached the quota
  straddled   \* history: a review was completed while a handler that had noted
              \* an earlier day was at work

streakVars == <<today, reviews, streak, last, verdict, reached, straddled>>

Progress == [pc : {"idle", "note", "count", "read", "write"}, day : Nat, streak : Nat, last : Nat]
AtRest == [pc |-> "idle", day |-> 0, streak |-> 0, last |-> 0]

StreakTypeOK ==
  /\ today \in Days
  /\ reviews \in [Days -> Nat]
  /\ streak \in Nat /\ last \in Nat
  /\ verdict \in [Verdicts -> Progress]
  /\ reached \subseteq Days
  /\ straddled \in BOOLEAN

StreakInit ==
  /\ FirstDay <= LastDay
  /\ today = FirstDay
  /\ reviews = [d \in Days |-> 0]
  /\ streak = 0 /\ last = 0
  /\ verdict = [h \in Verdicts |-> AtRest]
  /\ reached = {} /\ straddled = FALSE

(* The row is updated with the time at which the verdict came, which may be *)
(* before midnight.                                                          *)
Complete(h, d) ==
  /\ verdict[h].pc = "idle"
  /\ d \in Days /\ d \in {today - 1, today} /\ reviews[d] < MaxADay
  /\ reviews' = [reviews EXCEPT ![d] = @ + 1]
  /\ reached' = IF reviews[d] + 1 >= Quota THEN reached \cup {d} ELSE reached
  /\ straddled' = (straddled \/ \E g \in Verdicts :
                     verdict[g].pc \in {"count", "read", "write"} /\ verdict[g].day < d)
  /\ verdict' = [verdict EXCEPT ![h].pc = "note"]
  /\ UNCHANGED <<today, streak, last>>

(* After the cookies are paid: which day is it?                             *)
NoteDay(h) ==
  /\ verdict[h].pc = "note"
  /\ verdict' = [verdict EXCEPT ![h].pc = "count", ![h].day = today]
  /\ UNCHANGED <<today, reviews, streak, last, reached, straddled>>

(* The count has no upper end: it takes later days in, if there are any.    *)
EnoughSince(day) ==
  \/ reviews[day] >= Quota
  \/ /\ \E d \in Days : d > day /\ reviews[d] > 0
     /\ SumFunctionOnSet(reviews, day .. LastDay) >= Quota

CountDay(h) ==
  /\ verdict[h].pc = "count"
  /\ verdict' = IF EnoughSince(verdict[h].day) THEN [verdict EXCEPT ![h].pc = "read"]
                ELSE [verdict EXCEPT ![h] = AtRest]
  /\ UNCHANGED <<today, reviews, streak, last, reached, straddled>>

ReadStreak(h) ==
  /\ verdict[h].pc = "read"
  /\ verdict' = [verdict EXCEPT ![h].pc = "write", ![h].streak = streak, ![h].last = last]
  /\ UNCHANGED <<today, reviews, streak, last, reached, straddled>>

(* Fault: a gap does not end a streak.                                       *)
NextStreakLenient(v) == v.streak + 1

NextStreak(v) == IF v.last = v.day - 1 THEN v.streak + 1 ELSE 1

(* Nothing to do if the day, or a later one, is already credited.           *)
WriteStreak(h) ==
  /\ verdict[h].pc = "write"
  /\ LET v == verdict[h] IN
       IF v.last < v.day
         THEN streak' = NextStreak(v) /\ last' = v.day
         ELSE UNCHANGED <<streak, last>>
  /\ verdict' = [verdict EXCEPT ![h] = AtRest]
  /\ UNCHANGED <<today, reviews, reached, straddled>>

Fails(h) ==
  /\ verdict[h].pc # "idle"
  /\ verdict' = [verdict EXCEPT ![h] = AtRest]
  /\ UNCHANGED <<today, reviews, streak, last, reached, straddled>>

(* Another reviewer's verdict takes a row over, or its ship is reopened.    *)
TakenOver(d) ==
  /\ reviews[d] > 0
  /\ reviews' = [reviews EXCEPT ![d] = @ - 1]
  /\ UNCHANGED <<today, streak, last, verdict, reached, straddled>>

Midnight ==
  /\ today < LastDay
  /\ today' = today + 1
  /\ UNCHANGED <<reviews, streak, last, verdict, reached, straddled>>

StreakNext ==
  \/ \E h \in Verdicts :
       \/ \E d \in Days : Complete(h, d)
       \/ NoteDay(h) \/ CountDay(h) \/ ReadStreak(h) \/ WriteStreak(h) \/ Fails(h)
  \/ \E d \in Days : TakenOver(d)
  \/ Midnight

StreakSpec == StreakInit /\ [][StreakNext]_streakVars

------------------------------------------------------------------------------
(* Properties                                                                *)

(* However requests overlap and handlers fail, a streak is never longer than *)
(* the days in a row, up to lastReviewDate, on which the reviewer did the    *)
(* quota, unless a handler that noted one day counted reviews of the next    *)
(* (route.ts:338-429).                                                       *)
StreakIsEarned ==
  ~straddled => \A i \in 0 .. streak - 1 : last - i \in reached
=============================================================================
