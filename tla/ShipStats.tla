------------------------------- MODULE ShipStats -------------------------------
(***************************************************************************)
(* The numbers made of the ships: the tiles of the desk (lib/certs.ts), the  *)
(* daily series of api/stats/ship-certs and the analytics page.  Pending     *)
(* ships of past days are nowhere recorded: they are counted back from       *)
(* today's with each day's ships and reviews, read by queries of their own   *)
(* and in part from a copy.  The server's day is UTC's.                      *)
(***************************************************************************)
EXTENDS Integers, FiniteSets

CONSTANTS
  Ships, LastDate,
  Window,    \* 30: days of the series
  Trend,     \* 14: days of the analytics page
  MaxEvents  \* bound: submissions and verdicts

ASSUME StatsAssumption == Window \in Nat \ {0} /\ Trend \in Nat \ {0}

VARIABLES
  certs,      \* ship_certs: when made and decided, as what
  date,
  closing,   \* history: pending ships at the end of each day gone by
  stray,     \* history: by day, what the way back knows nothing of
  tiles,     \* the copy of fetchStats' answer, for 15 s, or none
  series,    \* the series being made
  sums,      \* the analytics page being made
  happened   \* submissions and verdicts so far

statsVars == <<certs, date, closing, stray, tiles, series, sums, happened>>

Dates == 1..LastDate
NoTiles == [on |-> 0, pending |-> 0, back |-> 0, judged |-> 0, at |-> 0]
NoSeries ==
  [read |-> {}, pending |-> 0, ships |-> [d \in Dates |-> 0], reviews |-> [d \in Dates |-> 0],
   at |-> 0, on |-> 0]
NoPage == [day |-> 0, counts |-> [d \in Dates |-> 0], judged |-> 0, at |-> 0]

StatsTypeOK ==
  /\ certs \in [Ships -> [status : {"none", "pending", "approved", "rejected"},
                         made : 0..LastDate, decided : 0..LastDate, reship : BOOLEAN]]
  /\ date \in Dates /\ closing \in [Dates -> Nat] /\ stray \in [Dates -> Nat]
  /\ tiles.on \in 0..LastDate /\ series.read \subseteq {"stats", "reviews", "ships"}
  /\ sums.day \in 0..(LastDate + 1) /\ happened \in Nat

StatsInit ==
  /\ certs \in [Ships -> {[status |-> "none", made |-> 0, decided |-> 0, reship |-> b] : b \in BOOLEAN}]
  /\ date = 1 /\ closing = [d \in Dates |-> 0] /\ stray = [d \in Dates |-> 0]
  /\ tiles = NoTiles /\ series = NoSeries /\ sums = NoPage /\ happened = 0

Pending == Cardinality({s \in Ships : certs[s].status = "pending"})
DecidedShips == {s \in Ships : certs[s].status \in {"approved", "rejected"}}
Min2(a, b) == IF a < b THEN a ELSE b
Gap(a, b) == IF a < b THEN b - a ELSE a - b

------------------------------------------------------------------------------
(* What changes the table                                                    *)

Event(s, to, weight) ==
  /\ happened < MaxEvents /\ happened' = happened + 1
  /\ certs' = [certs EXCEPT ![s] = to]
  /\ stray' = [stray EXCEPT ![date] = @ + weight]
  /\ UNCHANGED <<date, closing, tiles, series, sums>>

(* Ships that were shipped before are in no series, though they pend.        *)
Reships(s) == IF certs[s].reship THEN 1 ELSE 0

ShipIn(s) ==
  /\ certs[s].status = "none"
  /\ Event(s, [certs[s] EXCEPT !.status = "pending", !.made = date], Reships(s))

(* A verdict, the first or one in its place: the day of the last one stands. *)
JudgeShip(s, v) ==
  /\ certs[s].status # "none"
  /\ Event(s, [certs[s] EXCEPT !.status = v, !.decided = date],
           IF certs[s].status = "pending" THEN Reships(s) ELSE 1)

(* A verdict taken back stamps the row all the same; a ship that comes back  *)
(* from YSWS has the stamp wiped.                                            *)
RevertVerdict(s) ==
  /\ s \in DecidedShips /\ Event(s, [certs[s] EXCEPT !.status = "pending", !.decided = date], 2)

ComesBack(s) ==
  /\ certs[s].status = "approved" /\ Event(s, [certs[s] EXCEPT !.status = "pending", !.decided = 0], 1)

(* Copies last 15 seconds, series and pages are made in less.                *)
DayEnds ==
  /\ date < LastDate /\ date' = date + 1 /\ closing' = [closing EXCEPT ![date] = Pending]
  /\ tiles.on \in {0, date} /\ series.on \in {0, date} /\ sums.day = 0
  /\ UNCHANGED <<certs, stray, tiles, series, sums, happened>>

------------------------------------------------------------------------------
(* The tiles                                                                 *)

DecisionsToday == Cardinality({s \in Ships : certs[s].decided = date})
NewShipsToday == Cardinality({s \in Ships : certs[s].made = date})

(* Fault: what came in today is taken for what was decided.                  *)
PendingYesterdaySwapped == Pending - DecisionsToday + NewShipsToday

PendingYesterday == Pending + DecisionsToday - NewShipsToday

(* Asked for when there is no copy, or none any more.                        *)
FetchStats ==
  /\ tiles' = [on |-> date, pending |-> Pending, back |-> PendingYesterday, judged |-> Cardinality(DecidedShips),
               at |-> happened]
  /\ UNCHANGED <<certs, date, closing, stray, series, sums, happened>>

------------------------------------------------------------------------------
(* The series                                                                *)

(* One is made at a time: neither touches what the other reads.       *)
Reading == sums.day = 0 /\ UNCHANGED <<certs, date, closing, stray, tiles, sums, happened>>
Older(at) == IF series.read = {} THEN at ELSE Min2(series.at, at)
Started == IF series.read = {} THEN date ELSE series.on

GetStats ==
  /\ "stats" \notin series.read /\ tiles.on # 0
  /\ series' = [series EXCEPT !.read = @ \cup {"stats"}, !.pending = tiles.pending,
                              !.at = Older(tiles.at), !.on = Started]
  /\ Reading

InWindow(d) == d > date - Window /\ d <= date
Reviewed(d) == {s \in DecidedShips : certs[s].decided = d /\ ~certs[s].reship}
MadeOn(d) == {s \in Ships : certs[s].made = d /\ ~certs[s].reship}

ReviewsPerDay ==
  /\ "reviews" \notin series.read
  /\ series' = [series EXCEPT !.read = @ \cup {"reviews"}, !.at = Older(happened), !.on = Started,
                  !.reviews = [d \in Dates |-> IF InWindow(d) THEN Cardinality(Reviewed(d)) ELSE 0]]
  /\ Reading

ShipsPerDay ==
  /\ "ships" \notin series.read
  /\ series' = [series EXCEPT !.read = @ \cup {"ships"}, !.at = Older(happened), !.on = Started,
                  !.ships = [d \in Dates |-> IF InWindow(d) THEN Cardinality(MadeOn(d)) ELSE 0]]
  /\ Reading

(* Fault: a day's own flows are taken from the day itself.                   *)
FlowsBackOwn(pending, d) == pending - series.ships[d] + series.reviews[d]

(* What was pending at the end of d, given the end of the day after.         *)
FlowsBack(pending, d) == pending - series.ships[d + 1] + series.reviews[d + 1]

PendingPerDay ==
  LET back[d \in 1..series.on] ==
        IF d = series.on THEN series.pending
        ELSE LET n == FlowsBack(back[d + 1], d) IN IF n < 0 THEN 0 ELSE n
  IN back

SeriesRead == series.read = {"stats", "reviews", "ships"}

SeriesDone ==
  /\ SeriesRead /\ series' = NoSeries /\ Reading

------------------------------------------------------------------------------
(* The analytics page: a query for each day, the oldest first                *)

FirstTrend == IF date > Trend THEN date - Trend + 1 ELSE 1

AnalyticsBegins ==
  /\ sums.day = 0 /\ tiles.on # 0 /\ series.read = {}
  /\ sums' = [NoPage EXCEPT !.day = FirstTrend, !.judged = tiles.judged, !.at = tiles.at]
  /\ UNCHANGED <<certs, date, closing, stray, tiles, series, happened>>

DecisionsOn ==
  /\ sums.day # 0 /\ sums.day <= date
  /\ sums' = [sums EXCEPT !.counts[sums.day] = Cardinality({s \in DecidedShips : certs[s].decided = sums.day}),
                          !.day = @ + 1]
  /\ UNCHANGED <<certs, date, closing, stray, tiles, series, happened>>

AnalyticsDone ==
  /\ sums.day > date /\ sums' = NoPage
  /\ UNCHANGED <<certs, date, closing, stray, tiles, series, happened>>

StatsNext ==
  \/ \E s \in Ships : \/ ShipIn(s) \/ RevertVerdict(s) \/ ComesBack(s)
                      \/ \E v \in {"approved", "rejected"} : JudgeShip(s, v)
  \/ DayEnds \/ FetchStats
  \/ GetStats \/ ReviewsPerDay \/ ShipsPerDay \/ SeriesDone
  \/ AnalyticsBegins \/ DecisionsOn \/ AnalyticsDone

StatsSpec == StatsInit /\ [][StatsNext]_statsVars

------------------------------------------------------------------------------
(* Properties                                                                *)

StrayAfter[d \in 0..LastDate] == IF d = LastDate THEN 0 ELSE stray[d + 1] + StrayAfter[d + 1]

(* The series' pending ships of a past day are those there were when it      *)
(* ended, give or take one for each reship, verdict put in another's place,  *)
(* verdict taken back (two) and return from YSWS since, and one for each     *)
(* event since the oldest of the reads it is made of                         *)
(* (api/stats/ship-certs/route.ts:117-208).                                  *)
SeriesIsNear ==
  SeriesRead => \A d \in 1..(series.on - 1) :
    InWindow(d) => Gap(PendingPerDay[d], closing[d]) <= StrayAfter[d] + (happened - series.at)

(* The tile's pending ships of yesterday are those there were at midnight,   *)
(* but for today's strays (lib/certs.ts:100-107, 160-187).                   *)
YesterdayIsNear ==
  tiles.on > 1 /\ tiles.on = date /\ tiles.at = happened =>
    Gap(tiles.back, closing[date - 1]) <= stray[date]

(* The days of the analytics page add up to the verdicts there are, but for  *)
(* those before its days and what happened since its oldest number was read  *)
(* (api/admin/analytics/route.ts:12-60).                                     *)
SumTo[d \in 0..LastDate] == IF d = 0 THEN 0 ELSE sums.counts[d] + SumTo[d - 1]
TrendAddsUp ==
  sums.day > date =>
    Gap(SumTo[LastDate], sums.judged)
      <= Cardinality({s \in DecidedShips : certs[s].decided < FirstTrend}) + (happened - sums.at)

StatsAreNear == SeriesIsNear /\ YesterdayIsNear /\ TrendAddsUp
=============================================================================
