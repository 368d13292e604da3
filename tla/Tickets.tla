------------------------------- MODULE Tickets -------------------------------
(***************************************************************************)
(* Help tickets of sw-bot: the tickets table, the cache in front of it      *)
(* (cache.py), the write queue between them, and the commands and buttons   *)
(* of handlers.py and relay.py that open, close, claim and reopen a ticket. *)
(*                                                                          *)
(* Handlers run in threads.  The cache's lock is held for one operation at  *)
(* a time and given back before the write is queued, so every action below  *)
(* runs a handler to its next call of Slack, the cache, the queue or the    *)
(* table.  The queue is what TaskJournal promises of a first restart: the   *)
(* writes that were not done, in order.                                     *)
(***************************************************************************)
EXTENDS Naturals, Sequences, SequencesExt, FiniteSets

CONSTANTS
  Tickets,      \* tickets.id
  Staff,        \* is_shipwright()
  Asker,        \* [Tickets -> the user who wrote in]
  Handlers,     \* threads running a handler
  NoUser,       \* SQL NULL in closed_by
  MaxOps,       \* bound: handlers ever started
  MaxRaces,     \* bound: the first so many may overlap
  MaxFaults     \* bound: restarts and failed writes

Users == Staff \cup {Asker[t] : t \in Tickets}

ASSUME NoUserAssumption == NoUser \notin Users
ASSUME TicketsAssumption == Tickets # {} /\ Handlers # {}
ASSUME BoundsAssumption == {MaxOps, MaxRaces, MaxFaults} \subseteq Nat

VARIABLES
  row,       \* [Tickets -> Entry]: the table
  asked,     \* tickets whose feedback_requested is set
  live,      \* [Tickets -> Entry]: cache.tickets under the ticket's id
  old,       \* [Tickets -> Entry]: cache.tickets under the id as a string,
             \*   which is what JSON makes of the keys of a restored snapshot
  file,      \* [Tickets -> Entry]: the snapshot on disk
  queue,     \* write_queue
  board,     \* [Tickets -> SUBSET Nat]: its messages in the open-tickets
             \*   channel that nobody has tried to delete
  buttons,   \* [Tickets -> Nat]: feedback requests posted
  prompted,  \* tickets whose thread has the claim button
  paid,      \* [Tickets -> Nat]: stardust payments made
  due,       \* [Tickets -> Nat]: openings, and commands that ask for no status
  task,      \* [Handlers -> Task]
  ops, faults,
  smooth     \* no two handlers overlapped, no write failed, no restart

slack == <<board, buttons, prompted>>
ghosts == <<due, ops, faults, smooth>>
vars == <<row, asked, live, old, file, queue, slack, paid, task, ghosts>>

Entry == [status : {"absent", "open", "closed"}, closer : Users \cup {NoUser},
          post : Nat]
Absent == [status |-> "absent", closer |-> NoUser, post |-> 0]

Ops == {"open", "close", "claim", "pay"}
Write == [op : Ops, ticket : Tickets, user : Users, post : Nat]

Commands == {"create", "resolve", "own", "macro", "purge", "claim", "reopen"}
Steps == {"idle", "save", "cache", "unpost", "close", "tellClose", "claim",
          "tellClaim", "ask", "button", "prompt", "post", "open",
          "tellOpen"}

(* stale: the handler holds the restored entry of the ticket.               *)
Task == [pc : Steps, cmd : Commands, ticket : Tickets, user : Users,
         stale : BOOLEAN, post : Nat]

TypeOK ==
  /\ row \in [Tickets -> Entry] /\ live \in [Tickets -> Entry]
  /\ old \in [Tickets -> Entry] /\ file \in [Tickets -> Entry]
  /\ asked \subseteq Tickets /\ prompted \subseteq Tickets
  /\ queue \in Seq(Write)
  /\ board \in [Tickets -> SUBSET Nat]
  /\ buttons \in [Tickets -> Nat] /\ paid \in [Tickets -> Nat] /\ due \in [Tickets -> Nat]
  /\ task \in [Handlers -> Task]
  /\ \A t \in Tickets : live[t].status = "closed" => live[t].post = 0
  /\ ops \in Nat /\ faults \in Nat /\ smooth \in BOOLEAN

Rest == [pc |-> "idle", cmd |-> "create", ticket |-> CHOOSE t \in Tickets : TRUE,
         user |-> CHOOSE u \in Users : TRUE, stale |-> FALSE, post |-> 0]

Init ==
  /\ row = [t \in Tickets |-> Absent] /\ asked = {}
  /\ live = row /\ old = row /\ file = row
  /\ queue = <<>>
  /\ board = [t \in Tickets |-> {}] /\ buttons = [t \in Tickets |-> 0]
  /\ prompted = {}
  /\ paid = buttons /\ due = buttons
  /\ task = [h \in Handlers |-> Rest]
  /\ ops = 0 /\ faults = 0 /\ smooth = TRUE

------------------------------------------------------------------------------
(* The cache                                                                 *)

Has(entries, t) == entries[t].status # "absent"

(* get_ticket_by_id and _load_ticket: what is not cached is read.           *)
ById(t) == IF Has(live, t) THEN live[t] ELSE row[t]

(* find_ticket_by_ts goes through the dict, restored entries first.         *)
ByThread(t) == IF Has(old, t) THEN old[t] ELSE ById(t)

Fill(t) == live' = [live EXCEPT ![t] = ById(t)]

Quiet == \A h \in Handlers : task[h].pc = "idle"

Begin(h, q) ==
  /\ task[h].pc = "idle"
  /\ ops < MaxOps
  /\ Quiet \/ ops < MaxRaces
  /\ ops' = ops + 1
  /\ smooth' = (smooth /\ Quiet)
  /\ task' = [task EXCEPT ![h] = q]
  /\ UNCHANGED faults

Goto(h, pc) == task' = [task EXCEPT ![h] = IF pc = "idle" THEN Rest
                                           ELSE [@ EXCEPT !.pc = pc]]

(* A message in a thread, or a command that is refused, loads the ticket.   *)
Look(t) ==
  /\ Has(row, t)
  /\ ~Has(old, t)
  /\ Fill(t)
  /\ UNCHANGED <<row, asked, old, file, queue, slack, paid, task, ghosts>>

------------------------------------------------------------------------------
(* Commands in the staff thread and buttons: what they are let do.           *)

MayResolve(e) == e.status = "open"
MayReopen(e) == e.status = "closed"

(* The first step of a command on a ticket that was found: e is the entry   *)
(* it holds, restored if it came through the thread and there is one.       *)
Take(h, t, u, cmd, pc, stale) ==
  /\ Begin(h, [pc |-> pc, cmd |-> cmd, ticket |-> t, user |-> u, stale |-> stale,
               post |-> IF cmd = "reopen" THEN ops + 1 ELSE 0])
  /\ IF stale THEN UNCHANGED live ELSE Fill(t)
  /\ UNCHANGED <<row, asked, old, file, queue, slack, paid>>

(* !resolve, the staff button and the detected answer.                      *)
Resolve(h, t, u) ==
  /\ Has(row, t) /\ u \in Staff
  /\ \/ MayResolve(ById(t)) /\ Take(h, t, u, "resolve", "unpost", FALSE)
     \/ MayResolve(ByThread(t)) /\ Take(h, t, u, "resolve", "unpost", Has(old, t))
  /\ UNCHANGED due

(* The asker's button: closes without a claim.                              *)
ResolveOwn(h, t) ==
  /\ Has(row, t) /\ Asker[t] \notin Staff
  /\ MayResolve(ById(t))
  /\ Take(h, t, Asker[t], "own", "unpost", FALSE)
  /\ UNCHANGED due

(* Macros and !purge close and claim whatever the status is.                *)
CloseAnyway(h, t, u, cmd) ==
  /\ Has(row, t) /\ u \in Staff
  /\ Take(h, t, u, cmd, "unpost", Has(old, t))
  /\ due' = [due EXCEPT ![t] = @ + 1]

(* Fault: the claim button does not ask whether the ticket is claimed.       *)
ClaimAgain(h, t, u) ==
  /\ t \in prompted /\ u \in Staff
  /\ Take(h, t, u, "claim", "claim", FALSE)
  /\ UNCHANGED due

Claim(h, t, u) ==
  /\ t \in prompted /\ u \in Staff
  /\ ById(t).closer = NoUser
  /\ Take(h, t, u, "claim", "claim", FALSE)
  /\ UNCHANGED due

(* !reopen in the thread, or the asker's button.                            *)
Reopen(h, t, u) ==
  /\ Has(row, t)
  /\ \/ u \in Staff /\ MayReopen(ByThread(t)) /\ Take(h, t, u, "reopen", "post", Has(old, t))
     \/ u = Asker[t] /\ MayReopen(ById(t)) /\ Take(h, t, u, "reopen", "post", FALSE)
  /\ UNCHANGED due

(* A message outside a thread: the row is inserted, not queued.             *)
Create(h, t) ==
  /\ ~Has(row, t)
  /\ \A g \in Handlers : task[g].pc # "idle" => task[g].ticket # t
  /\ Begin(h, [pc |-> "save", cmd |-> "create", ticket |-> t, user |-> Asker[t],
               stale |-> FALSE, post |-> ops + 1])
  /\ UNCHANGED <<row, asked, live, old, file, queue, slack, paid, due>>

------------------------------------------------------------------------------
(* The steps of a handler                                                    *)

(* A message in the open-tickets channel, numbered like the handler that    *)
(* sends it; Slack may refuse it (0).                                       *)
Posted(t, post) == board' = [board EXCEPT ![t] = @ \cup ({post} \ {0})]

Save(h) ==
  /\ task[h].pc = "save"
  /\ LET t == task[h].ticket IN \E post \in {0, task[h].post} :
       /\ Posted(t, post)
       /\ row' = [row EXCEPT ![t] = [status |-> "open", closer |-> NoUser, post |-> post]]
       /\ task' = [task EXCEPT ![h] = [@ EXCEPT !.pc = "cache", !.post = post]]
       /\ due' = [due EXCEPT ![t] = @ + 1]
  /\ UNCHANGED <<asked, live, old, file, queue, buttons, prompted, paid, ops,
                 faults, smooth>>

CacheNew(h) ==
  /\ task[h].pc = "cache"
  /\ live' = [live EXCEPT ![task[h].ticket] =
       [status |-> "open", closer |-> NoUser, post |-> task[h].post]]
  /\ Goto(h, "idle")
  /\ UNCHANGED <<row, asked, old, file, queue, slack, paid, ghosts>>

(* delete_open_ticket_message: the message the entry at hand names.         *)
Unpost(h) ==
  /\ task[h].pc = "unpost"
  /\ LET t == task[h].ticket
         e == IF task[h].stale THEN old[t] ELSE live[t] IN
       board' = [board EXCEPT ![t] = @ \ {e.post}]
  /\ Goto(h, "close")
  /\ UNCHANGED <<row, asked, live, old, file, queue, buttons, prompted, paid, ghosts>>

Closed(e) == [e EXCEPT !.status = "closed", !.post = 0]
Claimed(e, u) == [e EXCEPT !.closer = u]

(* Fault: the entry does not learn the new message.                          *)
OpenedForgets(e, post) == [e EXCEPT !.status = "open"]

Opened(e, post) ==
  [e EXCEPT !.status = "open", !.post = IF post = 0 THEN @ ELSE post]

(* One operation of the cache; a ticket that is not cached is loaded, and   *)
(* if that fails the operation does nothing and queues nothing.             *)
Update(h, e, next, skip) ==
  \/ /\ live' = [live EXCEPT ![task[h].ticket] = e]
     /\ Goto(h, next)
  \/ /\ ~Has(live, task[h].ticket)
     /\ Goto(h, skip)
     /\ UNCHANGED live

(* What follows the closing, and the claim.                                 *)
Closing(cmd) == IF cmd = "own" THEN "ask" ELSE "claim"
Claiming(cmd) == IF cmd \in {"claim", "purge"} THEN "idle" ELSE "ask"

Close(h) ==
  /\ task[h].pc = "close"
  /\ Update(h, Closed(ById(task[h].ticket)), "tellClose", Closing(task[h].cmd))
  /\ UNCHANGED <<row, asked, old, file, queue, slack, paid, ghosts>>

ClaimCached(h) ==
  /\ task[h].pc = "claim"
  /\ Update(h, Claimed(ById(task[h].ticket), task[h].user), "tellClaim",
            Claiming(task[h].cmd))
  /\ UNCHANGED <<row, asked, old, file, queue, slack, paid, ghosts>>

Post(h) ==
  /\ task[h].pc = "post"
  /\ \E post \in {0, task[h].post} :
       /\ Posted(task[h].ticket, post)
       /\ task' = [task EXCEPT ![h] = [@ EXCEPT !.pc = "open", !.post = post]]
  /\ UNCHANGED <<row, asked, live, old, file, queue, buttons, prompted, paid, ghosts>>

Open(h) ==
  /\ task[h].pc = "open"
  /\ Update(h, Opened(ById(task[h].ticket), task[h].post), "tellOpen", "idle")
  /\ due' = [due EXCEPT ![task[h].ticket] = @ + 1]
  /\ UNCHANGED <<row, asked, old, file, queue, slack, paid, ops, faults, smooth>>

(* worker.enqueue, after the lock was given back.                           *)
Tell(h, pc, calls, next) ==
  /\ task[h].pc = pc
  /\ queue' = queue \o [i \in 1 .. Len(calls) |->
       [op |-> calls[i], ticket |-> task[h].ticket, user |-> task[h].user,
        post |-> task[h].post]]
  /\ Goto(h, next)
  /\ UNCHANGED <<row, asked, live, old, file, slack, paid, ghosts>>

TellClose(h) == Tell(h, "tellClose", <<"close">>, Closing(task[h].cmd))
TellClaim(h) == Tell(h, "tellClaim", <<"claim", "pay">>, Claiming(task[h].cmd))
TellOpen(h) == Tell(h, "tellOpen", <<"open">>, "idle")

AfterAsking(cmd) == IF cmd = "own" THEN "prompt" ELSE "idle"

(* Fault: the flag is tested and not set.                                    *)
AskForgets(h) ==
  /\ task[h].pc = "ask"
  /\ Goto(h, IF task[h].ticket \in asked THEN AfterAsking(task[h].cmd) ELSE "button")
  /\ UNCHANGED <<row, asked, live, old, file, queue, slack, paid, ghosts>>

(* mark_feedback_requested: tests and sets the flag in one statement; an    *)
(* error counts as "was set".                                               *)
Ask(h) ==
  /\ task[h].pc = "ask"
  /\ \/ /\ task[h].ticket \notin asked
        /\ asked' = asked \cup {task[h].ticket}
        /\ Goto(h, "button")
     \/ UNCHANGED asked /\ Goto(h, AfterAsking(task[h].cmd))
  /\ UNCHANGED <<row, live, old, file, queue, slack, paid, ghosts>>

Button(h) ==
  /\ task[h].pc = "button"
  /\ buttons' = [buttons EXCEPT ![task[h].ticket] = @ + 1]
  /\ Goto(h, AfterAsking(task[h].cmd))
  /\ UNCHANGED <<row, asked, live, old, file, queue, board, prompted, paid, ghosts>>

Prompt(h) ==
  /\ task[h].pc = "prompt"
  /\ prompted' = prompted \cup {task[h].ticket}
  /\ Goto(h, "idle")
  /\ UNCHANGED <<row, asked, live, old, file, queue, board, buttons, paid, ghosts>>

(* Slack raises where nobody catches it.                                    *)
Abort(h) ==
  /\ task[h].pc \in {"unpost", "ask", "button", "prompt"}
  /\ Goto(h, "idle")
  /\ UNCHANGED <<row, asked, live, old, file, queue, slack, paid, ghosts>>

------------------------------------------------------------------------------
(* The worker, and the end of the process                                    *)

(* What a write makes of its row.                                           *)
Applied(e, w) ==
  CASE w.op = "close" -> Closed(e)
    [] w.op = "open"  -> [e EXCEPT !.status = "open", !.post = w.post]
    [] w.op = "claim" -> Claimed(e, w.user)
    [] w.op = "pay"   -> e

Write1 ==
  /\ queue # <<>>
  /\ LET w == Head(queue) IN
       /\ row' = [row EXCEPT ![w.ticket] = Applied(@, w)]
       /\ paid' = IF w.op = "pay" THEN [paid EXCEPT ![w.ticket] = @ + 1] ELSE paid
  /\ queue' = Tail(queue)
  /\ UNCHANGED <<asked, live, old, file, slack, task, ghosts>>

(* The database refuses; the worker logs it and takes the next.             *)
WriteFails ==
  /\ queue # <<>>
  /\ faults < MaxFaults
  /\ faults' = faults + 1
  /\ queue' = Tail(queue)
  /\ smooth' = FALSE
  /\ UNCHANGED <<row, asked, live, old, file, slack, paid, task, due, ops>>

(* The new process: queue from the journal, cache from the snapshot, if it  *)
(* can be read.  A shutdown saves it when the handlers have returned; a     *)
(* process that dies leaves the one before.                                 *)
Snapshot == [t \in Tickets |-> IF Has(live, t) THEN live[t] ELSE old[t]]

Restart ==
  /\ faults < MaxFaults
  /\ faults' = faults + 1
  /\ \/ Quiet /\ file' = Snapshot
     \/ UNCHANGED file
  /\ \/ old' = file'
     \/ old' = [t \in Tickets |-> Absent]
  /\ live' = [t \in Tickets |-> Absent]
  /\ task' = [h \in Handlers |-> Rest]
  /\ smooth' = FALSE
  /\ UNCHANGED <<row, asked, queue, slack, paid, due, ops>>

------------------------------------------------------------------------------
Arrive(h) ==
  \E t \in Tickets :
    \/ Create(h, t)
    \/ ResolveOwn(h, t)
    \/ \E u \in Users :
         \/ Resolve(h, t, u)
         \/ Claim(h, t, u)
         \/ Reopen(h, t, u)
         \/ \E cmd \in {"macro", "purge"} : CloseAnyway(h, t, u, cmd)

Step(h) ==
  \/ Save(h) \/ CacheNew(h) \/ Unpost(h) \/ Close(h) \/ ClaimCached(h)
  \/ Post(h) \/ Open(h)
  \/ TellClose(h) \/ TellClaim(h) \/ TellOpen(h)
  \/ Ask(h) \/ Button(h) \/ Prompt(h)

Next ==
  \/ \E h \in Handlers : Arrive(h) \/ Step(h) \/ Abort(h)
  \/ \E t \in Tickets : Look(t)
  \/ Write1
  \/ WriteFails
  \/ Restart

Spec == Init /\ [][Next]_vars

------------------------------------------------------------------------------
(* Properties                                                                *)

(* A user is asked for feedback once per ticket, whoever closes it when,    *)
(* how often and over how many restarts (mark_feedback_requested, db.py:770).*)
FeedbackAskedOnce == \A t \in Tickets : buttons[t] <= 1

Writes(t, kinds) == {k \in DOMAIN queue : queue[k].ticket = t /\ queue[k].op \in kinds}

(* What the queue leaves of a row is what is cached: a field is set by the  *)
(* last write of its kind, and if there is none the row has it already.     *)
LeavesStatus(t) ==
  LET ws == Writes(t, {"close", "open"})
      cached(e) == e.status = ById(t).status /\ e.post = ById(t).post IN
  /\ ws = {} => cached(row[t])
  /\ \A k \in ws : (\A j \in ws : j <= k) => cached(Applied(row[t], queue[k]))

LeavesCloser(t) ==
  LET ws == Writes(t, {"claim"})
      cached(e) == e.closer = ById(t).closer IN
  /\ ws = {} => cached(row[t])
  /\ \A k \in ws : (\A j \in ws : j <= k) => cached(Applied(row[t], queue[k]))

(* While nothing overlapped or failed: the table the queue will leave is the *)
(* one the cache shows, whatever part of the queue the worker has done       *)
(* (cache.py:110-139), and the open-tickets channel shows an open ticket     *)
(* once, by the message its entry names, a closed one not at all             *)
(* (relay.py:252-283, 308-322).                                              *)
TicketAgrees ==
  smooth /\ Quiet => \A t \in Tickets :
    /\ LeavesStatus(t) /\ LeavesCloser(t)
    /\ board[t] = {ById(t).post} \ {0}

(* A ticket earns stardust once each time it is opened and once for each    *)
(* command that asks for no status, by whatever mix of resolving, reopening *)
(* and claiming afterwards (handlers.py:156-209, relay.py:188-213).          *)
PaidPerOpening ==
  smooth => \A t \in Tickets : paid[t] + Cardinality(Writes(t, {"pay"})) <= due[t]

(* !reopen reopens a closed ticket, as the help text says (relay.py:224):    *)
(* the entry the command finds is closed when the ticket is.                *)
ReopenReopens ==
  Quiet => \A t \in Tickets :
    live[t].status = "closed" /\ row[t].status = "closed" => MayReopen(ByThread(t))
=============================================================================
