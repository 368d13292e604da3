------------------------------ MODULE MetaVotes ------------------------------
(***************************************************************************)
(* One meta post of the bot and its votes: counts and voters in the cache   *)
(* (cache.py), counts in meta_posts, updated by deltas through the write     *)
(* queue, and counts shown in Slack (handlers.py).  The cache forgets who    *)
(* voted when its entry is reloaded after DEFAULT_TTL.                       *)
(***************************************************************************)
EXTENDS Sequences, Sums

CONSTANTS
  Voters,
  MaxVotes  \* bound: votes that count

ASSUME VotersAssumption == IsFiniteSet(Voters)

VARIABLES
  entry,    \* the cache's entry; voters maps some voters to 1 or -1
  row,      \* the row of meta_posts
  unsaved,  \* handle_create_meta has yet to put the insert on the queue
  queued,   \* the write queue: what each write adds; one thread takes from it
  click,    \* [Voters -> ...]: handle_modify_votes in progress
  shown,    \* the counts in the post
  votes,    \* how many votes counted
  history   \* what has happened: "forgot", "lost", "crossed"

voteVars == <<entry, row, unsaved, queued, click, shown, votes, history>>

Counts == [up : Int, down : Int]
Zero == [up |-> 0, down |-> 0]

VoteTypeOK ==
  /\ entry.up \in Int /\ entry.down \in Int
  /\ DOMAIN entry.voters \subseteq Voters
  /\ row.up \in Int /\ row.down \in Int /\ row.saved \in BOOLEAN
  /\ unsaved \in BOOLEAN
  /\ Len(queued) <= MaxVotes + 1
  /\ \A i \in DOMAIN queued : queued[i].up \in -1 .. 1 /\ queued[i].down \in -1 .. 1
  /\ click \in [Voters -> [pc : {"idle", "put", "return", "show"}, up : Int, down : Int]]
  /\ shown \in Counts
  /\ history \subseteq {"forgot", "lost", "crossed"}

NoClick == [pc |-> "idle", up |-> 0, down |-> 0]

(* The insert is the one write that adds nothing.                           *)
Insert == [up |-> 0, down |-> 0]

(* handle_create_meta has put the post in the cache.                         *)
VoteInit ==
  /\ entry = [up |-> 0, down |-> 0, voters |-> <<>>]
  /\ row = [saved |-> FALSE, up |-> 0, down |-> 0]
  /\ unsaved = TRUE /\ queued = <<>>
  /\ click = [u \in Voters |-> NoClick]
  /\ shown = Zero
  /\ votes = 0
  /\ history = {}

AtLeastZero(n) == IF n < 0 THEN 0 ELSE n
Before(u) == IF u \in DOMAIN entry.voters THEN entry.voters[u] ELSE 0

(* Fault: a vote is added, the voter's other one stays.                      *)
DeltaAdds(before, vote) ==
  [up |-> IF vote = 1 THEN 1 ELSE 0, down |-> IF vote = -1 THEN 1 ELSE 0]

(* What a vote adds to both counts; a voter who changes sides moves one.    *)
Delta(before, vote) ==
  [up |-> IF vote = 1 THEN 1 ELSE IF before = 1 THEN -1 ELSE 0,
   down |-> IF vote = -1 THEN 1 ELSE IF before = -1 THEN -1 ELSE 0]

PutInsert ==
  /\ unsaved
  /\ unsaved' = FALSE
  /\ queued' = Append(queued, Insert)
  /\ UNCHANGED <<entry, row, click, shown, votes, history>>

(* add_vote, up to the end of its lock; the same vote again is ignored.      *)
Vote(u, vote) ==
  /\ click[u].pc = "idle"
  /\ votes < MaxVotes
  /\ Before(u) # vote
  /\ LET d == Delta(Before(u), vote) IN
       /\ entry' = [up |-> AtLeastZero(entry.up + d.up),
                    down |-> AtLeastZero(entry.down + d.down),
                    voters |-> [v \in DOMAIN entry.voters \cup {u} |->
                                  IF v = u THEN vote ELSE entry.voters[v]]]
       /\ click' = [click EXCEPT ![u] = [pc |-> "put", up |-> d.up, down |-> d.down]]
  /\ votes' = votes + 1
  /\ history' = IF \E v \in Voters : click[v].pc # "idle" THEN history \cup {"crossed"} ELSE history
  /\ UNCHANGED <<row, unsaved, queued, shown>>

(* Fault: both the lock's holder and the handler queue the write.            *)
PutVoteTwice(u) ==
  /\ click[u].pc = "put"
  /\ queued' = queued \o [i \in 1 .. 2 |-> [up |-> click[u].up, down |-> click[u].down]]
  /\ click' = [click EXCEPT ![u] = [pc |-> "return", up |-> 0, down |-> 0]]
  /\ UNCHANGED <<entry, row, unsaved, shown, votes, history>>

PutVote(u) ==
  /\ click[u].pc = "put"
  /\ queued' = Append(queued, [up |-> click[u].up, down |-> click[u].down])
  /\ click' = [click EXCEPT ![u] = [pc |-> "return", up |-> 0, down |-> 0]]
  /\ UNCHANGED <<entry, row, unsaved, shown, votes, history>>

(* The counts it returns are read after the lock is gone.                   *)
Return(u) ==
  /\ click[u].pc = "return"
  /\ click' = [click EXCEPT ![u] = [pc |-> "show", up |-> entry.up, down |-> entry.down]]
  /\ UNCHANGED <<entry, row, unsaved, queued, shown, votes, history>>

Show(u) ==
  /\ click[u].pc = "show"
  /\ shown' = [up |-> click[u].up, down |-> click[u].down]
  /\ click' = [click EXCEPT ![u] = NoClick]
  /\ UNCHANGED <<entry, row, unsaved, queued, votes, history>>

(* The worker runs a write; an update that finds no row, or fails, is lost.  *)
RunWrite ==
  /\ queued # <<>>
  /\ queued' = Tail(queued)
  /\ LET w == Head(queued) IN
       \/ /\ w = Insert
          /\ row' = [row EXCEPT !.saved = TRUE]
          /\ UNCHANGED history
       \/ /\ w # Insert /\ row.saved
          /\ row' = [row EXCEPT !.up = @ + w.up, !.down = @ + w.down]
          /\ UNCHANGED history
       \/ /\ history' = history \cup {"lost"}
          /\ UNCHANGED row
  /\ UNCHANGED <<entry, unsaved, click, shown, votes>>

(* The entry is stale and the row is there: get_meta_by_meta_ts reloads it. *)
Reload ==
  /\ row.saved
  /\ entry' = [up |-> row.up, down |-> row.down, voters |-> <<>>]
  /\ history' = history \cup {"forgot"}
  /\ UNCHANGED <<row, unsaved, queued, click, shown, votes>>

VoteNext ==
  \/ PutInsert
  \/ \E u \in Voters : Vote(u, 1) \/ Vote(u, -1) \/ PutVote(u) \/ Return(u) \/ Show(u)
  \/ RunWrite
  \/ Reload

VoteSpec == VoteInit /\ [][VoteNext]_voteVars

------------------------------------------------------------------------------
(* Properties                                                                *)

Side(vote) == Cardinality({u \in DOMAIN entry.voters : entry.voters[u] = vote})
Part(w, field) == IF field = "up" THEN w.up ELSE w.down
Waiting(q, field) == Total([i \in DOMAIN q |-> Part(q[i], field)], DOMAIN q)
Clicked(field) == Total([u \in Voters |-> IF click[u].pc = "put" THEN Part(click[u], field) ELSE 0], Voters)
Coming(field) == Waiting(queued, field) + Clicked(field)

(* Everybody who voted counts once and on one side: in the cache until it    *)
(* forgets, in the table once the queue is empty unless a write was lost or  *)
(* came before the insert, and in the post once the clicks are answered      *)
(* unless they overlapped (cache.py:200-221, handlers.py:212-226).           *)
VotesMatch ==
  "forgot" \notin history =>
    /\ entry.up = Side(1) /\ entry.down = Side(-1)
    /\ "lost" \notin history =>
         /\ row.up + Coming("up") = entry.up
         /\ row.down + Coming("down") = entry.down
    /\ "crossed" \notin history /\ (\A u \in Voters : click[u].pc = "idle") =>
         shown = [up |-> entry.up, down |-> entry.down]
=============================================================================
