----------------------------- MODULE YswsReview -----------------------------
(***************************************************************************)
(* One row of ysws_reviews: its devlogs and the decision kept for each.     *)
(* Reviewers complete, return or undo it (ysws_reviews/[id]/route.ts) and    *)
(* force a reload of its devlogs from Flavortown, which the page says "can   *)
(* take 1-5 min" ([id]/refresh/route.ts).  Every handler writes the whole    *)
(* decisions column from the value it read when it began.  A fetch that      *)
(* fails finds no devlogs, and goes on.                                      *)
(***************************************************************************)
EXTENDS Naturals, FiniteSets

CONSTANTS
  Devlogs,     \* devlogs the project may get on Flavortown
  Handlers,    \* requests served at a time, each with the page it comes from
  MaxPatches   \* bound: how many requests may start

ASSUME PatchesAssumption == MaxPatches \in Nat

VARIABLES
  posted,     \* Flavortown: the devlogs posted so far
  status,     \* the row's status
  devlogs,    \* the row's devlogs
  decisions,  \* the row's decisions: a function from some devlogs to verdicts
  handler,    \* [Handlers -> ...]: the request
  local,      \* [Handlers -> Decisions]: the verdicts its page shows
  patches,    \* how many requests have started
  missed,     \* history, [Handlers -> SUBSET Devlogs]: the decisions other requests
              \* changed since this one read the row
  behind,     \* history: requests that read the row before others reloaded its devlogs
  torn        \* history: one of those has written its decisions over that reload

vars == <<posted, status, devlogs, decisions, handler, local, patches, missed, behind, torn>>
history == <<missed, behind, torn>>

Verdict == {"pending", "approved", "rejected"}
Decisions == UNION {[S -> Verdict] : S \in SUBSET Devlogs}
Idle == [pc |-> "idle", close |-> "done", seen |-> <<>>, sent |-> <<>>]

TypeOK ==
  /\ posted \subseteq Devlogs
  /\ devlogs \subseteq posted
  /\ status \in {"pending", "done", "returned"}
  /\ decisions \in Decisions
  /\ handler \in [Handlers -> [pc : {"idle", "close", "undo", "refresh"},
                               close : {"done", "returned"},
                               seen : Decisions, sent : Decisions]]
  /\ local \in [Handlers -> Decisions]
  /\ patches \in 0 .. MaxPatches
  /\ missed \in [Handlers -> SUBSET Devlogs] /\ behind \subseteq Handlers /\ torn \in BOOLEAN

(* The row as createYsws leaves it: without devlogs if their fetch failed.   *)
Init ==
  /\ posted \in SUBSET Devlogs
  /\ status = "pending"
  /\ devlogs \in {posted, {}}
  /\ decisions = [d \in devlogs |-> "pending"]
  /\ handler = [h \in Handlers |-> Idle]
  /\ local = [h \in Handlers |-> <<>>]
  /\ patches = 0
  /\ missed = [h \in Handlers |-> {}] /\ behind = {} /\ torn = FALSE

Begin(h, q) ==
  /\ handler[h].pc = "idle"
  /\ patches < MaxPatches
  /\ patches' = patches + 1
  /\ handler' = [handler EXCEPT ![h] = q]
  /\ UNCHANGED <<posted, status, devlogs, decisions, local, history>>

Entry(column, d) == IF d \in DOMAIN column THEN column[d] ELSE "none"

(* A request has written the row and is done; what it changed, the others    *)
(* that have read the row missed.                                           *)
Done(h) ==
  /\ handler' = [handler EXCEPT ![h] = Idle]
  /\ missed' = [g \in Handlers |->
       IF g = h \/ handler[g].pc = "idle" THEN {}
       ELSE missed[g] \cup {d \in Devlogs : Entry(decisions, d) # Entry(decisions', d)}]

Post(d) ==
  /\ posted' = posted \cup {d}
  /\ UNCHANGED <<status, devlogs, decisions, handler, local, patches, history>>

(* The page is opened: devlogs without a decision show as pending.          *)
OpenPage(h) ==
  /\ handler[h].pc = "idle"
  /\ local' = [local EXCEPT ![h] =
       [d \in devlogs |-> IF d \in DOMAIN decisions THEN decisions[d] ELSE "pending"]]
  /\ UNCHANGED <<posted, status, devlogs, decisions, handler, patches, history>>

(* A verdict on one devlog or on all; devlogs that a refresh has added to    *)
(* the page take none.                                                       *)
Choose(h, D, verdict) ==
  /\ handler[h].pc = "idle"
  /\ local' = [local EXCEPT ![h] =
       [d \in DOMAIN local[h] |-> IF d \in D THEN verdict ELSE local[h][d]]]
  /\ UNCHANGED <<posted, status, devlogs, decisions, handler, patches, history>>

(* complete / return: the page sends the verdicts it shows.                 *)
CloseRead(h, close) ==
  Begin(h, [pc |-> "close", close |-> close, seen |-> decisions, sent |-> local[h]])

(* Only entries already in the column are updated.                          *)
Merge(seen, sent) ==
  [d \in DOMAIN seen |-> IF d \in DOMAIN sent THEN sent[d] ELSE seen[d]]

CloseWrite(h) ==
  /\ handler[h].pc = "close"
  /\ status' = handler[h].close
  /\ decisions' = Merge(handler[h].seen, handler[h].sent)
  /\ Done(h)
  /\ behind' = behind \ {h} /\ torn' = (torn \/ h \in behind)
  /\ UNCHANGED <<posted, devlogs, local, patches>>

UndoRead(h) == Begin(h, [Idle EXCEPT !.pc = "undo"])

(* The column becomes [], the devlogs stay.                                 *)
UndoWrite(h) ==
  /\ handler[h].pc = "undo"
  /\ status' = "pending"
  /\ decisions' = <<>>
  /\ Done(h)
  /\ behind' = behind \ {h}
  /\ UNCHANGED <<posted, devlogs, local, patches, torn>>

RefreshRead(h) == Begin(h, [Idle EXCEPT !.pc = "refresh", !.seen = decisions])

(* Fault: a reload starts every decision afresh.                             *)
ReloadedAfresh(seen, found) == [d \in found |-> "pending"]

(* Minutes later: the devlogs found, with the decisions seen then.          *)
Reloaded(seen, found) ==
  [d \in found |-> IF d \in DOMAIN seen THEN seen[d] ELSE "pending"]

Found == {posted, {}}

(* Both columns are written, and whoever read them before is behind.        *)
Overtakes(h) ==
  behind' = {g \in Handlers \ {h} : handler[g].pc # "idle"} /\ torn' = FALSE

(* Fault: the decisions are reloaded, the devlogs are not.                   *)
RefreshWriteHalf(h, found) ==
  /\ handler[h].pc = "refresh"
  /\ decisions' = Reloaded(handler[h].seen, found)
  /\ Done(h) /\ Overtakes(h)
  /\ UNCHANGED <<posted, status, devlogs, local, patches>>

RefreshWrite(h, found) ==
  /\ handler[h].pc = "refresh"
  /\ devlogs' = found
  /\ decisions' = Reloaded(handler[h].seen, found)
  /\ Done(h) /\ Overtakes(h)
  /\ UNCHANGED <<posted, status, local, patches>>

(* A read or an update throws.                                              *)
Fail(h) ==
  /\ handler[h].pc # "idle"
  /\ handler' = [handler EXCEPT ![h] = Idle]
  /\ missed' = [missed EXCEPT ![h] = {}] /\ behind' = behind \ {h}
  /\ UNCHANGED <<posted, status, devlogs, decisions, local, patches, torn>>

Next ==
  \/ \E d \in Devlogs \ posted : Post(d)
  \/ \E h \in Handlers :
       \/ OpenPage(h)
       \/ \E D \in {{d} : d \in devlogs} \cup {devlogs}, verdict \in {"approved", "rejected"} :
            Choose(h, D, verdict)
       \/ \E close \in {"done", "returned"} : CloseRead(h, close)
       \/ UndoRead(h)
       \/ RefreshRead(h)
       \/ CloseWrite(h)
       \/ UndoWrite(h)
       \/ \E found \in Found : RefreshWrite(h, found)
       \/ Fail(h)

Spec == Init /\ [][Next]_vars

------------------------------------------------------------------------------
(* Properties                                                                *)

(* However requests overlap, the decisions column covers all devlogs of the  *)
(* review or, after an undo, none: never some of them; until a completion or *)
(* return that began before a reload writes after it, and then only until    *)
(* the next reload ([id]/route.ts:98-121, refresh/route.ts:58-128).            *)
AllOrNone == torn \/ DOMAIN decisions \in {devlogs, {}}

(* A forced reload that finds the devlogs keeps every decision that was     *)
(* made (it counts them in the log as preservedDecisions,                    *)
(* refresh/route.ts:155), but for those another request changed in the       *)
(* minutes of its fetches: it writes what it had read (34, 58-128).           *)
RefreshPreserves ==
  [][\A h \in Handlers : RefreshWrite(h, posted) =>
       \A d \in DOMAIN decisions : decisions[d] # "pending" =>
         /\ d \in DOMAIN decisions'
         /\ decisions'[d] = decisions[d] \/ d \in missed[h]]_vars

(* The verdict a reviewer submits on a devlog the review lists is recorded.   *)
(* An undo is to "reset review to pending" ([id]/route.ts:67), after which    *)
(* the page shows every devlog as pending and open to a verdict.             *)
SubmittedIsRecorded ==
  [][\A h \in Handlers : LET sent == handler[h].sent IN
       CloseWrite(h) =>
         \A d \in DOMAIN sent \cap devlogs : sent[d] # "pending" =>
           d \in DOMAIN decisions' /\ decisions'[d] = sent[d]]_vars
=============================================================================
