----------------------------- MODULE SlackEvents -----------------------------
(***************************************************************************)
(* Slack's message events on their way to handle_message (main.py,           *)
(* helpers.py): Slack repeats an event it got no answer for; the bot answers *)
(* at once, remembers the ids it saw for SEEN_TTL and works on the message   *)
(* behind the answer.  A restart forgets both.                               *)
(***************************************************************************)
EXTENDS Naturals, FiniteSets

CONSTANTS
  Events,
  SeenTtl,    \* SEEN_TTL, in ticks
  MaxTries,   \* deliveries Slack makes at most
  MaxMinute   \* bound: the clock

ASSUME EventsAssumption == {SeenTtl, MaxTries, MaxMinute} \subseteq Nat

VARIABLES
  minute,
  tries,    \* [Events -> 0 .. MaxTries]: deliveries so far
  answered, \* events Slack got its 200 for
  seen,     \* seen_events: [some events -> Nat]
  tasks,    \* background tasks not finished
  handled,  \* [Events -> Nat]: how often handle_message ran
  first,    \* history: when an event came first
  excused   \* history: events that came later than SeenTtl after that, or
            \* were known to a process that died

eventVars == <<minute, tries, answered, seen, tasks, handled, first, excused>>

EventTypeOK ==
  /\ minute \in 0 .. MaxMinute
  /\ tries \in [Events -> 0 .. MaxTries]
  /\ answered \subseteq Events /\ excused \subseteq Events
  /\ DOMAIN seen \subseteq Events /\ \A e \in DOMAIN seen : seen[e] \in Nat
  /\ tasks \subseteq Events \X Nat
  /\ handled \in [Events -> Nat]
  /\ first \in [Events -> Nat]

EventInit ==
  /\ minute = 0
  /\ tries = [e \in Events |-> 0]
  /\ answered = {} /\ seen = <<>> /\ tasks = {} /\ excused = {}
  /\ handled = [e \in Events |-> 0]
  /\ first = [e \in Events |-> 0]

(* Fault: ids are dropped when half their time is over.                      *)
RememberShort(e) ==
  [k \in {k \in DOMAIN seen : 2 * (minute - seen[k]) <= SeenTtl} \cup {e} |->
     IF k = e THEN minute ELSE seen[k]]

(* A new id is kept, and ids kept for longer than SeenTtl are dropped.      *)
Remember(e) ==
  [k \in {k \in DOMAIN seen : minute - seen[k] <= SeenTtl} \cup {e} |->
     IF k = e THEN minute ELSE seen[k]]

(* POST /slack/events; Slack may miss the answer.                           *)
DeliverEvent(e) ==
  /\ e \notin answered /\ tries[e] < MaxTries
  /\ tries' = [tries EXCEPT ![e] = @ + 1]
  /\ first' = IF tries[e] = 0 THEN [first EXCEPT ![e] = minute] ELSE first
  /\ IF e \in DOMAIN seen THEN UNCHANGED <<seen, tasks>>
     ELSE seen' = Remember(e) /\ tasks' = tasks \cup {<<e, tries[e]>>}
  /\ answered' \in {answered, answered \cup {e}}
  /\ excused' = IF tries[e] > 0 /\ minute - first[e] > SeenTtl THEN excused \cup {e} ELSE excused
  /\ UNCHANGED <<minute, handled>>

HandleMessage(t) ==
  /\ t \in tasks
  /\ tasks' = tasks \ {t}
  /\ handled' = [handled EXCEPT ![t[1]] = @ + 1]
  /\ UNCHANGED <<minute, tries, answered, seen, first, excused>>

RestartBot ==
  /\ seen' = <<>> /\ tasks' = {}
  /\ excused' = excused \cup {e \in Events : tries[e] > 0}
  /\ UNCHANGED <<minute, tries, answered, handled, first>>

Minute ==
  /\ minute < MaxMinute
  /\ minute' = minute + 1
  /\ UNCHANGED <<tries, answered, seen, tasks, handled, first, excused>>

EventNext ==
  \/ \E e \in Events : DeliverEvent(e)
  \/ \E t \in tasks : HandleMessage(t)
  \/ RestartBot \/ Minute

EventSpec == EventInit /\ [][EventNext]_eventVars

------------------------------------------------------------------------------
(* Properties                                                                *)

(* An event that reached the bot is worked on, and once, however often Slack *)
(* repeats it and whatever other events come between, unless a repetition    *)
(* came after SeenTtl or the process died (helpers.py:19-28,                 *)
(* main.py:112-117).                                                         *)
HandledOnce ==
  \A e \in Events \ excused :
    handled[e] + Cardinality({t \in tasks : t[1] = e}) = IF tries[e] = 0 THEN 0 ELSE 1
=============================================================================
