------------------------------ MODULE RateLimit ------------------------------
(***************************************************************************)
(* rateLimit of lib/ratelimit.ts for one namespace and one address: a count *)
(* in a window that starts with the first request after the last window,    *)
(* kept in memory and swept by a timer.                                     *)
(***************************************************************************)
EXTENDS Sums

CONSTANTS
  MaxRequests,  \* requests let through per window
  WindowMs,     \* the window, in ticks
  MaxNow        \* bound: the clock

ASSUME LimitAssumption == {MaxRequests, WindowMs} \subseteq Nat \ {0} /\ MaxNow \in Nat

VARIABLES
  now,
  record,   \* the store's entry; resetAt is 0 if there is none
  passed,   \* history, [0 .. MaxNow -> Nat]: requests let through at each tick
  refused   \* history: when requests were refused

limitVars == <<now, record, passed, refused>>

NoRecord == [count |-> 0, resetAt |-> 0]

LimitTypeOK ==
  /\ now \in 0 .. MaxNow
  /\ record \in [count : 0 .. MaxRequests, resetAt : Nat]
  /\ passed \in [0 .. MaxNow -> Nat]
  /\ refused \subseteq 0 .. MaxNow

LimitInit ==
  /\ now = 0
  /\ record = NoRecord
  /\ passed = [t \in 0 .. MaxNow |-> 0]
  /\ refused = {}

Lapsed(r) == r.resetAt = 0 \/ now > r.resetAt

(* A request goes through and opens a window, goes through, or is refused.  *)
Open ==
  /\ Lapsed(record)
  /\ record' = [count |-> 1, resetAt |-> now + WindowMs]
  /\ passed' = [passed EXCEPT ![now] = @ + 1]
  /\ UNCHANGED <<now, refused>>

Count ==
  /\ ~Lapsed(record) /\ record.count < MaxRequests
  /\ record' = [record EXCEPT !.count = @ + 1]
  /\ passed' = [passed EXCEPT ![now] = @ + 1]
  /\ UNCHANGED <<now, refused>>

Refuse ==
  /\ ~Lapsed(record) /\ record.count >= MaxRequests
  /\ refused' = refused \cup {now}
  /\ UNCHANGED <<now, record, passed>>

(* Fault: the timer drops windows that still run.                            *)
SweepAll ==
  /\ record.resetAt # 0
  /\ record' = NoRecord
  /\ UNCHANGED <<now, passed, refused>>

(* The timer of CLEANUP_INTERVAL drops what has lapsed.                     *)
Sweep ==
  /\ record.resetAt # 0 /\ now > record.resetAt
  /\ record' = NoRecord
  /\ UNCHANGED <<now, passed, refused>>

LimitTick ==
  /\ now < MaxNow
  /\ now' = now + 1
  /\ UNCHANGED <<record, passed, refused>>

LimitNext == Open \/ Count \/ Refuse \/ Sweep \/ LimitTick

LimitSpec == LimitInit /\ [][LimitNext]_limitVars

------------------------------------------------------------------------------
(* Properties                                                                *)

Through(from, to) == Total(passed, (from .. to) \cap (0 .. MaxNow))

(* A counter that starts afresh with each window lets at most two windows'   *)
(* worth through in any span as long as one, wherever the span lies, and     *)
(* refuses nobody who did not get MaxRequests through within the last       *)
(* window's length (ratelimit.ts:15-32; 5 and 10 a minute at its callers).   *)
LimitHolds ==
  /\ \A t \in 0 .. MaxNow : Through(t, t + WindowMs) <= 2 * MaxRequests
  /\ \A t \in refused : \E since \in 0 .. t :
       since + WindowMs >= t /\ Through(since, t) >= MaxRequests
=============================================================================
