---------------------------- MODULE TicketsProofs ----------------------------
(***************************************************************************)
(* The tickets of sw-bot for any number of tickets, users and threads: what *)
(* holds over races and any number of restarts, and what is so as long as   *)
(* one handler is at work at a time and nothing fails.                       *)
(***************************************************************************)
EXTENDS Tickets, FiniteSetTheorems, TLAPS

USE NoUserAssumption, TicketsAssumption, BoundsAssumption

(* A closed row names no message: what is loaded may be cached.             *)
RowClosed == \A t \in Tickets : row[t].status = "closed" => row[t].post = 0

(* The handler that set the flag, and nobody else, posts the request.       *)
OneButton ==
  /\ \A t \in Tickets : buttons[t] <= 1 /\ (t \notin asked => buttons[t] = 0)
  /\ \A h \in Handlers : task[h].pc = "button" =>
       task[h].ticket \in asked /\ buttons[task[h].ticket] = 0
  /\ \A g, h \in Handlers :
       task[g].pc = "button" /\ task[h].pc = "button"
         /\ task[g].ticket = task[h].ticket => g = h

IInv == TypeOK /\ RowClosed /\ OneButton

------------------------------------------------------------------------------
LEMMA RestType == Rest \in Task /\ Rest.pc = "idle"
<1>1. (CHOOSE t \in Tickets : TRUE) \in Tickets
  OBVIOUS
<1>2. (CHOOSE u \in Users : TRUE) \in Users
  <2>1. Users # {}
    BY DEF Users
  <2> QED
    BY <2>1
<1> QED
  BY <1>1, <1>2 DEF Rest, Task, Commands, Steps

LEMMA InvInit == Init => IInv
<1> SUFFICES ASSUME Init PROVE IInv
  OBVIOUS
<1>1. Absent \in Entry /\ Absent.status = "absent"
  BY DEF Absent, Entry
<1>2. TypeOK
  BY <1>1, RestType DEF Init, TypeOK
<1>3. RowClosed
  BY <1>1 DEF Init, RowClosed
<1>4. OneButton
  BY RestType DEF Init, OneButton
<1> QED
  BY <1>2, <1>3, <1>4 DEF IInv

(* A step that posts no request and sends nobody to post one.               *)
LEMMA NoNewButton ==
  ASSUME IInv, NEW h \in Handlers, UNCHANGED <<asked, buttons>>,
         \A g \in Handlers \ {h} : task'[g] = task[g],
         task'[h].pc # "button"
  PROVE  OneButton'
BY DEF IInv, OneButton

(* What a lookup returns.                                                   *)
LEMMA ByIdType ==
  ASSUME IInv, NEW t \in Tickets
  PROVE  ById(t) \in Entry /\ (ById(t).status = "closed" => ById(t).post = 0)
BY DEF IInv, TypeOK, RowClosed, ById

LEMMA FillType ==
  ASSUME IInv, NEW t \in Tickets, Fill(t)
  PROVE  /\ live' \in [Tickets -> Entry]
         /\ \A s \in Tickets : live'[s].status = "closed" => live'[s].post = 0
BY ByIdType DEF Fill, IInv, TypeOK

------------------------------------------------------------------------------
(* Arrivals                                                                  *)

LEMMA TakeKeeps ==
  ASSUME IInv, NEW h \in Handlers, NEW t \in Tickets, NEW u \in Users,
         NEW cmd \in Commands, NEW pc \in {"unpost", "claim", "post"},
         NEW stale \in BOOLEAN, Take(h, t, u, cmd, pc, stale),
         due' \in [Tickets -> Nat]
  PROVE  IInv'
<1> DEFINE q == [pc |-> pc, cmd |-> cmd, ticket |-> t, user |-> u, stale |-> stale,
                 post |-> IF cmd = "reopen" THEN ops + 1 ELSE 0]
<1>1. q \in Task /\ q.pc = pc
  BY DEF Task, IInv, TypeOK, Steps
<1>2. task' = [task EXCEPT ![h] = q] /\ ops' = ops + 1 /\ faults' = faults
      /\ smooth' \in BOOLEAN
  <2>1. Begin(h, q)
    BY DEF Take
  <2> QED
    BY <2>1 DEF Begin
<1>3. /\ live' \in [Tickets -> Entry]
      /\ \A s \in Tickets : live'[s].status = "closed" => live'[s].post = 0
  BY FillType DEF Take, IInv, TypeOK
<1>4. TypeOK'
  <2> HIDE DEF q
  <2> QED
    <3>1. TypeOK
      BY DEF IInv
    <3>2. UNCHANGED <<row, asked, old, file, queue, prompted, board, buttons, paid>>
      BY DEF Take, slack
    <3>3. task' \in [Handlers -> Task] /\ ops' \in Nat /\ faults' \in Nat
      BY <1>1, <1>2, <3>1 DEF TypeOK
    <3> QED
      BY <1>2, <1>3, <3>1, <3>2, <3>3 DEF TypeOK
<1>5. RowClosed'
  BY DEF Take, IInv, RowClosed
<1>6. OneButton'
  <2> HIDE DEF q
  <2>1. task'[h].pc # "button" /\ \A g \in Handlers \ {h} : task'[g] = task[g]
    BY <1>1, <1>2 DEF IInv, TypeOK
  <2> QED
    BY <2>1, NoNewButton DEF Take, slack
<1> QED
  BY <1>4, <1>5, <1>6 DEF IInv

LEMMA CreateKeeps ==
  ASSUME IInv, NEW h \in Handlers, NEW t \in Tickets, Create(h, t)
  PROVE  IInv'
<1> DEFINE q == [pc |-> "save", cmd |-> "create", ticket |-> t, user |-> Asker[t],
                 stale |-> FALSE, post |-> ops + 1]
<1>1. q \in Task /\ q.pc = "save"
  <2>1. ops + 1 \in Nat /\ Asker[t] \in Users
    BY DEF IInv, TypeOK, Users
  <2> QED
    BY <2>1 DEF Task, Steps, Commands
<1>2. task' = [task EXCEPT ![h] = q] /\ ops' = ops + 1 /\ faults' = faults
      /\ smooth' \in BOOLEAN
  <2>1. Begin(h, q)
    BY DEF Create
  <2> QED
    BY <2>1 DEF Begin
<1> HIDE DEF q
<1>3. TypeOK'
  <2>1. TypeOK
    BY DEF IInv
  <2>2. UNCHANGED <<row, asked, live, old, file, queue, prompted, board, buttons, paid, due>>
    BY DEF Create, slack
  <2>3. task' \in [Handlers -> Task] /\ ops' \in Nat /\ faults' \in Nat
    BY <1>1, <1>2, <2>1 DEF TypeOK
  <2> QED
    BY <1>2, <2>1, <2>2, <2>3 DEF TypeOK
<1>4. RowClosed'
  BY DEF Create, IInv, RowClosed
<1>5. task'[h].pc # "button" /\ \A g \in Handlers \ {h} : task'[g] = task[g]
  BY <1>1, <1>2 DEF IInv, TypeOK
<1> QED
  BY <1>3, <1>4, <1>5, NoNewButton DEF Create, slack, IInv

LEMMA ArriveKeeps ==
  ASSUME IInv, NEW h \in Handlers, Arrive(h)
  PROVE  IInv'
<1>1. PICK t \in Tickets :
        \/ Create(h, t)
        \/ ResolveOwn(h, t)
        \/ \E u \in Users :
             \/ Resolve(h, t, u)
             \/ Claim(h, t, u)
             \/ Reopen(h, t, u)
             \/ \E cmd \in {"macro", "purge"} : CloseAnyway(h, t, u, cmd)
  BY DEF Arrive
<1>2. Has(old, t) \in BOOLEAN /\ Asker[t] \in Users
  BY DEF Has, Users
<1>3. CASE Create(h, t)
  BY <1>3, CreateKeeps
<1>4. CASE ResolveOwn(h, t)
  BY <1>2, <1>4, TakeKeeps DEF ResolveOwn, Commands, IInv, TypeOK
<1>5. ASSUME NEW u \in Users, Resolve(h, t, u)
      PROVE  IInv'
  <2>1. /\ due' \in [Tickets -> Nat]
        /\ Take(h, t, u, "resolve", "unpost", FALSE) \/ Take(h, t, u, "resolve", "unpost", Has(old, t))
    BY <1>5 DEF Resolve, IInv, TypeOK
  <2> QED
    BY <1>2, <2>1, TakeKeeps DEF Commands
<1>6. ASSUME NEW u \in Users, Claim(h, t, u)
      PROVE  IInv'
  BY <1>6, TakeKeeps DEF Claim, Commands, IInv, TypeOK
<1>7. ASSUME NEW u \in Users, Reopen(h, t, u)
      PROVE  IInv'
  <2>1. due' \in [Tickets -> Nat]
    BY <1>7 DEF Reopen, IInv, TypeOK
  <2> QED
    BY <1>2, <1>7, <2>1, TakeKeeps DEF Reopen, Commands
<1>8. ASSUME NEW u \in Users, NEW cmd \in {"macro", "purge"}, CloseAnyway(h, t, u, cmd)
      PROVE  IInv'
  <2>1. due' \in [Tickets -> Nat]
    BY <1>8 DEF CloseAnyway, IInv, TypeOK
  <2> QED
    BY <1>2, <1>8, <2>1, TakeKeeps DEF CloseAnyway, Commands
<1> QED
  BY <1>1, <1>3, <1>4, <1>5, <1>6, <1>7, <1>8

------------------------------------------------------------------------------
(* Steps of a handler                                                        *)

(* Where Goto leads.                                                        *)
LEMMA GotoType ==
  ASSUME IInv, NEW h \in Handlers, NEW pc \in Steps, Goto(h, pc)
  PROVE  /\ task' \in [Handlers -> Task]
         /\ task'[h].pc = pc
         /\ pc # "idle" => task'[h].ticket = task[h].ticket
         /\ \A g \in Handlers \ {h} : task'[g] = task[g]
<1>1. CASE pc = "idle"
  BY <1>1, RestType DEF Goto, IInv, TypeOK
<1>2. CASE pc # "idle"
  <2>1. [task[h] EXCEPT !.pc = pc] \in Task
    BY DEF IInv, TypeOK, Task
  <2> QED
    BY <1>2, <2>1 DEF Goto, IInv, TypeOK, Task
<1> QED
  BY <1>1, <1>2

(* A task that keeps all but its place and its message.                      *)
LEMMA PostType ==
  ASSUME IInv, NEW h \in Handlers, NEW pc \in Steps \ {"button"}, NEW post \in Nat,
         task' = [task EXCEPT ![h] = [@ EXCEPT !.pc = pc, !.post = post]]
  PROVE  /\ task' \in [Handlers -> Task]
         /\ task'[h].pc # "button"
         /\ \A g \in Handlers \ {h} : task'[g] = task[g]
<1> DEFINE q == [task[h] EXCEPT !.pc = pc, !.post = post]
<1>1. q \in Task /\ q.pc = pc
  BY DEF IInv, TypeOK, Task
<1>2. task' = [task EXCEPT ![h] = q]
  OBVIOUS
<1> HIDE DEF q
<1> QED
  BY <1>1, <1>2 DEF IInv, TypeOK

LEMMA SaveKeeps ==
  ASSUME IInv, NEW h \in Handlers, Save(h)
  PROVE  IInv'
<1> DEFINE t == task[h].ticket
<1>1. t \in Tickets /\ task[h].post \in Nat
  BY DEF IInv, TypeOK, Task
<1>2. PICK post \in {0, task[h].post} :
        /\ Posted(t, post)
        /\ row' = [row EXCEPT ![t] = [status |-> "open", closer |-> NoUser, post |-> post]]
        /\ task' = [task EXCEPT ![h] = [@ EXCEPT !.pc = "cache", !.post = post]]
        /\ due' = [due EXCEPT ![t] = @ + 1]
  BY DEF Save
<1>3. [status |-> "open", closer |-> NoUser, post |-> post] \in Entry
  BY <1>1 DEF Entry
<1>4. /\ task' \in [Handlers -> Task]
      /\ task'[h].pc # "button"
      /\ \A g \in Handlers \ {h} : task'[g] = task[g]
  BY <1>1, <1>2, PostType DEF Steps
<1>5. board' \in [Tickets -> SUBSET Nat]
  BY <1>1, <1>2 DEF Posted, IInv, TypeOK
<1>9. row' \in [Tickets -> Entry] /\ due' \in [Tickets -> Nat]
  BY <1>1, <1>2, <1>3 DEF IInv, TypeOK
<1> HIDE DEF t
<1>6. TypeOK'
  <2>1. UNCHANGED <<asked, live, old, file, queue, buttons, prompted, paid, ops,
                    faults, smooth>>
    BY DEF Save
  <2> QED
    BY <1>4, <1>5, <1>9, <2>1 DEF IInv, TypeOK
<1>7. RowClosed'
  BY <1>1, <1>2 DEF IInv, RowClosed, TypeOK
<1>8. OneButton'
  BY <1>4, NoNewButton DEF Save
<1> QED
  BY <1>6, <1>7, <1>8 DEF IInv

LEMMA CacheNewKeeps ==
  ASSUME IInv, NEW h \in Handlers, CacheNew(h)
  PROVE  IInv'
<1>1. task[h].ticket \in Tickets /\ task[h].post \in Nat
  BY DEF IInv, TypeOK, Task
<1>2. [status |-> "open", closer |-> NoUser, post |-> task[h].post] \in Entry
  BY <1>1 DEF Entry
<1>3. /\ task' \in [Handlers -> Task]
      /\ task'[h].pc # "button"
      /\ \A g \in Handlers \ {h} : task'[g] = task[g]
  BY GotoType DEF CacheNew, Steps
<1>4. TypeOK'
  BY <1>1, <1>2, <1>3 DEF CacheNew, slack, ghosts, IInv, TypeOK
<1>5. RowClosed'
  BY DEF CacheNew, IInv, RowClosed
<1> QED
  BY <1>3, <1>4, <1>5, NoNewButton DEF CacheNew, slack, IInv

LEMMA UnpostKeeps ==
  ASSUME IInv, NEW h \in Handlers, Unpost(h)
  PROVE  IInv'
<1>1. board' \in [Tickets -> SUBSET Nat]
  BY DEF Unpost, IInv, TypeOK
<1>2. /\ task' \in [Handlers -> Task]
      /\ task'[h].pc # "button"
      /\ \A g \in Handlers \ {h} : task'[g] = task[g]
  BY GotoType DEF Unpost, Steps
<1>3. TypeOK'
  BY <1>1, <1>2 DEF Unpost, ghosts, IInv, TypeOK
<1>4. RowClosed'
  BY DEF Unpost, IInv, RowClosed
<1> QED
  BY <1>2, <1>3, <1>4, NoNewButton DEF Unpost, IInv

(* An operation of the cache.                                                *)
LEMMA UpdateType ==
  ASSUME IInv, NEW h \in Handlers, NEW e \in Entry,
         e.status = "closed" => e.post = 0,
         NEW next \in Steps \ {"button"}, NEW skip \in Steps \ {"button"},
         Update(h, e, next, skip)
  PROVE  /\ live' \in [Tickets -> Entry]
         /\ \A s \in Tickets : live'[s].status = "closed" => live'[s].post = 0
         /\ task' \in [Handlers -> Task]
         /\ task'[h].pc # "button"
         /\ \A g \in Handlers \ {h} : task'[g] = task[g]
<1>1. task[h].ticket \in Tickets
  BY DEF IInv, TypeOK, Task
<1>2. CASE live' = [live EXCEPT ![task[h].ticket] = e] /\ Goto(h, next)
  BY <1>1, <1>2, GotoType DEF IInv, TypeOK
<1>3. CASE UNCHANGED live /\ Goto(h, skip)
  BY <1>3, GotoType DEF IInv, TypeOK
<1> QED
  BY <1>2, <1>3 DEF Update

LEMMA NextSteps ==
  ASSUME NEW cmd
  PROVE  /\ Closing(cmd) \in Steps \ {"button"}
         /\ Claiming(cmd) \in Steps \ {"button"}
         /\ AfterAsking(cmd) \in Steps \ {"button"}
BY DEF Closing, Claiming, AfterAsking, Steps

LEMMA CacheOpsKeep ==
  ASSUME IInv, NEW h \in Handlers, Close(h) \/ ClaimCached(h) \/ Open(h)
  PROVE  IInv'
<1> DEFINE t == task[h].ticket
<1>1. t \in Tickets /\ task[h].user \in Users /\ task[h].post \in Nat
  BY DEF IInv, TypeOK, Task
<1>2. ById(t) \in Entry /\ (ById(t).status = "closed" => ById(t).post = 0)
  BY <1>1, ByIdType
<1>3. /\ live' \in [Tickets -> Entry]
      /\ \A s \in Tickets : live'[s].status = "closed" => live'[s].post = 0
      /\ task' \in [Handlers -> Task]
      /\ task'[h].pc # "button"
      /\ \A g \in Handlers \ {h} : task'[g] = task[g]
  <2>1. CASE Close(h)
    <3>1. Closed(ById(t)) \in Entry /\ Closed(ById(t)).post = 0
      BY <1>2 DEF Closed, Entry
    <3> QED
      BY <2>1, <3>1, NextSteps, UpdateType DEF Close, Steps
  <2>2. CASE ClaimCached(h)
    <3>1. /\ Claimed(ById(t), task[h].user) \in Entry
          /\ Claimed(ById(t), task[h].user).status = ById(t).status
          /\ Claimed(ById(t), task[h].user).post = ById(t).post
      BY <1>1, <1>2 DEF Claimed, Entry
    <3> QED
      BY <1>2, <2>2, <3>1, NextSteps, UpdateType DEF ClaimCached, Steps
  <2>3. CASE Open(h)
    <3>1. /\ Opened(ById(t), task[h].post) \in Entry
          /\ Opened(ById(t), task[h].post).status = "open"
      BY <1>1, <1>2 DEF Opened, Entry
    <3> QED
      BY <2>3, <3>1, UpdateType DEF Open, Steps
  <2> QED
    BY <2>1, <2>2, <2>3
<1>4. /\ due' \in [Tickets -> Nat]
      /\ UNCHANGED <<row, asked, old, file, queue, board, buttons, prompted,
                     paid, ops, faults, smooth>>
  <2>1. CASE Close(h) \/ ClaimCached(h)
    BY <2>1 DEF Close, ClaimCached, slack, ghosts, IInv, TypeOK
  <2>2. CASE Open(h)
    BY <1>1, <2>2 DEF Open, slack, IInv, TypeOK
  <2> QED
    BY <2>1, <2>2
<1>5. TypeOK'
  <2> HIDE DEF t
  <2> QED
    BY <1>3, <1>4 DEF IInv, TypeOK
<1>6. RowClosed'
  BY <1>4 DEF IInv, RowClosed
<1> QED
  BY <1>3, <1>4, <1>5, <1>6, NoNewButton DEF IInv

LEMMA PostKeeps ==
  ASSUME IInv, NEW h \in Handlers, Post(h)
  PROVE  IInv'
<1>1. task[h].ticket \in Tickets /\ task[h].post \in Nat
  BY DEF IInv, TypeOK, Task
<1>2. PICK post \in {0, task[h].post} :
        /\ Posted(task[h].ticket, post)
        /\ task' = [task EXCEPT ![h] = [@ EXCEPT !.pc = "open", !.post = post]]
  BY DEF Post
<1>3. /\ task' \in [Handlers -> Task]
      /\ task'[h].pc # "button"
      /\ \A g \in Handlers \ {h} : task'[g] = task[g]
  BY <1>1, <1>2, PostType DEF Steps
<1>4. board' \in [Tickets -> SUBSET Nat]
  BY <1>1, <1>2 DEF Posted, IInv, TypeOK
<1>5. TypeOK'
  BY <1>3, <1>4 DEF Post, ghosts, IInv, TypeOK
<1>6. RowClosed'
  BY DEF Post, IInv, RowClosed
<1> QED
  BY <1>3, <1>5, <1>6, NoNewButton DEF Post, IInv

(* What is queued are writes.                                                *)
LEMMA TellKeeps ==
  ASSUME IInv, NEW h \in Handlers,
         TellClose(h) \/ TellClaim(h) \/ TellOpen(h)
  PROVE  IInv'
<1> DEFINE w(op) == [op |-> op, ticket |-> task[h].ticket,
                     user |-> task[h].user, post |-> task[h].post]
<1>1. \A op \in Ops : w(op) \in Write
  BY DEF IInv, TypeOK, Task, Write
<1>2. /\ queue' \in Seq(Write)
      /\ \E next \in Steps \ {"button"} : Goto(h, next)
      /\ UNCHANGED <<row, asked, live, old, file, slack, paid, ghosts>>
  <2>1. ASSUME NEW calls \in Seq(Ops), NEW pc, NEW next \in Steps \ {"button"},
               Tell(h, pc, calls, next)
        PROVE  /\ queue' \in Seq(Write)
               /\ \E n \in Steps \ {"button"} : Goto(h, n)
               /\ UNCHANGED <<row, asked, live, old, file, slack, paid, ghosts>>
    <3>1. [i \in 1 .. Len(calls) |-> w(calls[i])] \in Seq(Write)
      BY <1>1, <2>1
    <3>2. queue' = queue \o [i \in 1 .. Len(calls) |-> w(calls[i])]
      BY <2>1 DEF Tell
    <3> QED
      BY <2>1, <3>1, <3>2 DEF Tell, IInv, TypeOK
  <2>2. <<"close">> \in Seq(Ops) /\ <<"open">> \in Seq(Ops)
        /\ <<"claim", "pay">> \in Seq(Ops)
    BY DEF Ops
  <2>3. "idle" \in Steps \ {"button"}
    BY DEF Steps
  <2> QED
    BY <2>1, <2>2, <2>3, NextSteps DEF TellClose, TellClaim, TellOpen
<1>3. /\ task' \in [Handlers -> Task]
      /\ task'[h].pc # "button"
      /\ \A g \in Handlers \ {h} : task'[g] = task[g]
  BY <1>2, GotoType
<1>4. TypeOK'
  BY <1>2, <1>3 DEF slack, ghosts, IInv, TypeOK
<1>5. RowClosed'
  BY <1>2 DEF IInv, RowClosed
<1> QED
  BY <1>2, <1>3, <1>4, <1>5, NoNewButton DEF slack, IInv

(* The flag is taken by one handler.                                         *)
LEMMA AskKeeps ==
  ASSUME IInv, NEW h \in Handlers, Ask(h)
  PROVE  IInv'
<1> DEFINE t == task[h].ticket
<1>1. t \in Tickets
  BY DEF IInv, TypeOK, Task
<1>2. RowClosed'
  BY DEF Ask, IInv, RowClosed
<1>3. CASE t \notin asked /\ asked' = asked \cup {t} /\ Goto(h, "button")
  <2>1. /\ task' \in [Handlers -> Task]
        /\ task'[h].pc = "button" /\ task'[h].ticket = t
        /\ \A g \in Handlers \ {h} : task'[g] = task[g]
    BY <1>3, GotoType DEF Steps
  <2>2. TypeOK'
    BY <1>1, <1>3, <2>1 DEF Ask, slack, ghosts, IInv, TypeOK
  <2>3. UNCHANGED buttons
    BY DEF Ask, slack
  <2>4. OneButton'
    BY <1>1, <1>3, <2>1, <2>3 DEF IInv, OneButton
  <2> QED
    BY <1>2, <2>2, <2>4 DEF IInv
<1>4. CASE UNCHANGED asked /\ Goto(h, AfterAsking(task[h].cmd))
  <2>1. /\ task' \in [Handlers -> Task]
        /\ task'[h].pc # "button"
        /\ \A g \in Handlers \ {h} : task'[g] = task[g]
    BY <1>4, NextSteps, GotoType
  <2>2. TypeOK'
    BY <1>4, <2>1 DEF Ask, slack, ghosts, IInv, TypeOK
  <2> QED
    BY <1>2, <1>4, <2>1, <2>2, NoNewButton DEF Ask, slack, IInv
<1> QED
  BY <1>3, <1>4 DEF Ask

LEMMA ButtonKeeps ==
  ASSUME IInv, NEW h \in Handlers, Button(h)
  PROVE  IInv'
<1> DEFINE t == task[h].ticket
<1>1. t \in Tickets /\ t \in asked /\ buttons[t] = 0
  BY DEF Button, IInv, TypeOK, Task, OneButton
<1>2. /\ task' \in [Handlers -> Task]
      /\ task'[h].pc # "button"
      /\ \A g \in Handlers \ {h} : task'[g] = task[g]
  BY NextSteps, GotoType DEF Button
<1>3. /\ buttons' \in [Tickets -> Nat]
      /\ buttons'[t] = 1
      /\ \A s \in Tickets \ {t} : buttons'[s] = buttons[s]
  BY <1>1 DEF Button, IInv, TypeOK
<1>4. TypeOK'
  BY <1>2, <1>3 DEF Button, ghosts, IInv, TypeOK
<1>5. RowClosed'
  BY DEF Button, IInv, RowClosed
<1>6. OneButton'
  <2>1. \A g \in Handlers \ {h} : task[g].pc = "button" => task[g].ticket # t
    BY DEF Button, IInv, OneButton
  <2>2. \A g \in Handlers : task[g].ticket \in Tickets
    BY DEF IInv, TypeOK, Task
  <2> QED
    BY <1>1, <1>2, <1>3, <2>1, <2>2 DEF Button, IInv, OneButton
<1> QED
  BY <1>4, <1>5, <1>6 DEF IInv

LEMMA PromptAbortKeep ==
  ASSUME IInv, NEW h \in Handlers, Prompt(h) \/ Abort(h)
  PROVE  IInv'
<1>1. Goto(h, "idle") /\ "idle" \in Steps
  BY DEF Prompt, Abort, Steps
<1>2. /\ task' \in [Handlers -> Task]
      /\ task'[h].pc # "button"
      /\ \A g \in Handlers \ {h} : task'[g] = task[g]
  BY <1>1, GotoType
<1>3. TypeOK'
  BY <1>2 DEF Prompt, Abort, slack, ghosts, IInv, TypeOK, Task
<1>4. RowClosed'
  BY DEF Prompt, Abort, IInv, RowClosed
<1> QED
  BY <1>2, <1>3, <1>4, NoNewButton DEF Prompt, Abort, slack, IInv

------------------------------------------------------------------------------
(* The worker, lookups and restarts                                          *)

LEMMA LookKeeps ==
  ASSUME IInv, NEW t \in Tickets, Look(t)
  PROVE  IInv'
BY FillType DEF Look, slack, ghosts, IInv, TypeOK, RowClosed, OneButton

LEMMA WriteKeeps ==
  ASSUME IInv, Write1 \/ WriteFails
  PROVE  IInv'
<1> DEFINE w == Head(queue)
<1>1. w \in Write /\ Tail(queue) \in Seq(Write)
  BY DEF Write1, WriteFails, IInv, TypeOK
<1>2. CASE Write1
  <2>1. w.ticket \in Tickets /\ w.user \in Users /\ w.post \in Nat /\ w.op \in Ops
    BY <1>1 DEF Write
  <2>2. row[w.ticket] \in Entry
    BY <2>1 DEF IInv, TypeOK
  <2>3. /\ Applied(row[w.ticket], w) \in Entry
        /\ row[w.ticket].status = "closed" => row[w.ticket].post = 0
        /\ Applied(row[w.ticket], w).status = "closed" =>
             Applied(row[w.ticket], w).post = 0
    <3>1. row[w.ticket].status = "closed" => row[w.ticket].post = 0
      BY <2>1 DEF IInv, RowClosed
    <3>2. CASE w.op = "close"
      BY <2>2, <3>1, <3>2 DEF Applied, Closed, Entry
    <3>3. CASE w.op = "open"
      BY <2>1, <2>2, <3>1, <3>3 DEF Applied, Entry
    <3>4. CASE w.op = "claim"
      BY <2>1, <2>2, <3>1, <3>4 DEF Applied, Claimed, Entry
    <3>5. CASE w.op = "pay"
      BY <2>2, <3>1, <3>5 DEF Applied
    <3> QED
      BY <2>1, <3>2, <3>3, <3>4, <3>5 DEF Ops
  <2>4. row' = [row EXCEPT ![w.ticket] = Applied(row[w.ticket], w)]
    BY <1>2 DEF Write1
  <2>5. paid' \in [Tickets -> Nat]
    <3>1. \/ paid' = paid
          \/ paid' = [paid EXCEPT ![w.ticket] = @ + 1]
      BY <1>2 DEF Write1
    <3>2. paid \in [Tickets -> Nat]
      BY DEF IInv, TypeOK
    <3> HIDE DEF w
    <3> QED
      BY <2>1, <3>1, <3>2
  <2> HIDE DEF w
  <2>6. TypeOK'
    <3>1. row' \in [Tickets -> Entry]
      BY <2>1, <2>3, <2>4 DEF IInv, TypeOK
    <3>2. queue' \in Seq(Write)
      BY <1>1, <1>2 DEF Write1
    <3>3. UNCHANGED <<asked, live, old, file, slack, task, ghosts>>
      BY <1>2 DEF Write1
    <3>4. \A t \in Tickets : live'[t].status = "closed" => live'[t].post = 0
      BY <3>3 DEF IInv, TypeOK
    <3> QED
      BY <2>5, <3>1, <3>2, <3>3, <3>4, Zenon DEF slack, ghosts, IInv, TypeOK
  <2>7. RowClosed'
    BY <2>1, <2>3, <2>4 DEF IInv, RowClosed, TypeOK
  <2>8. OneButton'
    BY <1>2 DEF Write1, slack, IInv, OneButton
  <2> QED
    BY <2>6, <2>7, <2>8 DEF IInv
<1>3. CASE WriteFails
  <2>1. queue' \in Seq(Write) /\ faults' \in Nat /\ smooth' \in BOOLEAN
    <3>1. faults' = faults + 1 /\ smooth' = FALSE /\ queue' = Tail(queue)
      BY <1>3 DEF WriteFails
    <3>2. faults' \in Nat
      BY <3>1 DEF IInv, TypeOK
    <3> QED
      BY <1>1, <3>1, <3>2
  <2>2. UNCHANGED <<row, asked, live, old, file, slack, paid, task, due, ops>>
    BY <1>3 DEF WriteFails
  <2>3. TypeOK'
    BY <2>1, <2>2 DEF slack, IInv, TypeOK
  <2>4. RowClosed' /\ OneButton'
    BY <2>2 DEF slack, IInv, RowClosed, OneButton
  <2> QED
    BY <2>3, <2>4 DEF IInv
<1> QED
  BY <1>2, <1>3

LEMMA RestartKeeps ==
  ASSUME IInv, Restart
  PROVE  IInv'
<1>1. Absent \in Entry /\ Absent.status # "closed"
  BY DEF Absent, Entry
<1>2. Snapshot \in [Tickets -> Entry]
  BY DEF Snapshot, IInv, TypeOK
<1>3. file' \in [Tickets -> Entry] /\ old' \in [Tickets -> Entry]
      /\ live' = [t \in Tickets |-> Absent]
  BY <1>1, <1>2 DEF Restart, IInv, TypeOK
<1>4. TypeOK'
  <2>1. task' \in [Handlers -> Task]
    BY RestType DEF Restart
  <2>2. faults' \in Nat /\ smooth' \in BOOLEAN
    <3>1. faults' = faults + 1 /\ smooth' = FALSE
      BY DEF Restart
    <3>2. faults' \in Nat
      BY <3>1 DEF IInv, TypeOK
    <3> QED
      BY <3>1, <3>2
  <2>3. UNCHANGED <<row, asked, queue, slack, paid, due, ops>>
    BY DEF Restart
  <2> QED
    BY <1>1, <1>3, <2>1, <2>2, <2>3 DEF slack, IInv, TypeOK
<1>5. RowClosed' /\ OneButton'
  BY RestType DEF Restart, slack, IInv, RowClosed, OneButton
<1> QED
  BY <1>4, <1>5 DEF IInv

------------------------------------------------------------------------------
LEMMA InvStep == IInv /\ [Next]_vars => IInv'
<1> SUFFICES ASSUME IInv, [Next]_vars PROVE IInv'
  OBVIOUS
<1>1. ASSUME NEW h \in Handlers, Step(h)
      PROVE  IInv'
  BY <1>1, SaveKeeps, CacheNewKeeps, UnpostKeeps, CacheOpsKeep, PostKeeps,
     TellKeeps, AskKeeps, ButtonKeeps, PromptAbortKeep DEF Step
<1>2. ASSUME NEW h \in Handlers, Arrive(h) \/ Abort(h)
      PROVE  IInv'
  BY <1>2, ArriveKeeps, PromptAbortKeep
<1>3. CASE UNCHANGED vars
  BY <1>3 DEF vars, slack, ghosts, IInv, TypeOK, RowClosed, OneButton
<1> QED
  BY <1>1, <1>2, <1>3, LookKeeps, WriteKeeps, RestartKeeps DEF Next

(* Table, cache, snapshot and queue hold entries and writes of tickets, and *)
(* a cached closed ticket names no message, over races and restarts         *)
(* (cache.py:65-139, cache_store.py).                                        *)
THEOREM TicketTypes == Spec => []TypeOK
<1>1. IInv => TypeOK
  BY DEF IInv
<1> QED
  BY InvInit, InvStep, <1>1, PTL DEF Spec

(* However many handlers close a ticket at once, and however often it is    *)
(* reopened or the bot restarted, its asker is asked for feedback once      *)
(* (db.py:770-781, relay.py:42-61, 139-154).                                 *)
THEOREM OneFeedbackRequest == Spec => []FeedbackAskedOnce
<1>1. IInv => FeedbackAskedOnce
  BY DEF IInv, OneButton, FeedbackAskedOnce
<1> QED
  BY InvInit, InvStep, <1>1, PTL DEF Spec

------------------------------------------------------------------------------
(* One handler at a time                                                     *)

Busy(h) == task[h].pc # "idle"

(* What the opening, the missing claim and the command in hand may earn yet. *)
Open1(t) == IF ById(t).status = "open" THEN 1 ELSE 0
Claim1(t) ==
  IF ById(t).closer = NoUser /\ (t \in prompted \/ ById(t).status = "closed") THEN 1 ELSE 0
Command1(q) ==
  IF q.pc = "tellClaim" \/ (q.cmd \in {"macro", "purge"} /\ q.pc \in {"unpost", "close", "tellClose", "claim"})
  THEN 1 ELSE 0

Earned(t, n) == paid[t] + Cardinality(Writes(t, {"pay"})) + n <= due[t]

Covered(t, q) ==
  /\ Earned(t, Open1(t) + Claim1(t) + Command1(q))
  /\ q.cmd = "resolve" /\ q.pc \in {"tellClose", "claim"} => Earned(t, 1)

Unknown(t) ==
  /\ ~Has(row, t) => row[t] = Absent /\ live[t] = Absent /\ board[t] = {} /\ t \notin prompted
  /\ ~Has(live, t) => Writes(t, Ops) = {}

ToldStatus(t, q) == q.pc \notin {"tellClose", "tellOpen"} => LeavesStatus(t)
ToldCloser(t, q) == q.pc # "tellClaim" => LeavesCloser(t)

Shown(t, q) ==
  board[t] = (IF q.pc = "close" THEN {} ELSE IF q.pc = "open" THEN {q.post} ELSE {ById(t).post}) \ {0}

Underway(t, q) ==
  /\ q.pc = "save" => ~Has(row, t)
  /\ q.pc = "cache" => row[t] = [status |-> "open", closer |-> NoUser, post |-> q.post]
                       /\ ById(t) = row[t] /\ Writes(t, Ops) = {}
  /\ q.pc \notin {"idle", "save", "cache"} => Has(live, t)
  /\ q.pc \in {"unpost", "close", "tellClose"} => q.cmd \in {"resolve", "own", "macro", "purge"}
  /\ q.pc \in {"claim", "tellClaim"} => q.cmd \in {"resolve", "claim", "macro", "purge"}
  /\ q.pc \in {"unpost", "close"} /\ q.cmd \in {"resolve", "own"} => ById(t).status = "open"
  /\ q.pc \in {"tellClose", "post", "open", "ask", "button", "prompt"} => ById(t).status = "closed"
  /\ q.pc \in {"claim", "tellClaim"} /\ q.cmd # "claim" => ById(t).status = "closed"
  /\ q.pc = "claim" /\ q.cmd = "claim" => t \in prompted /\ ById(t).closer = NoUser
  /\ q.pc = "tellClaim" => ById(t).closer = q.user
  /\ q.pc = "tellOpen" => ById(t).status = "open" /\ ById(t).post = q.post

TicketHolds(t, q) ==
  /\ Unknown(t) /\ ToldStatus(t, q) /\ ToldCloser(t, q) /\ Shown(t, q)
  /\ Underway(t, q) /\ Covered(t, q)

SoloInv ==
  smooth =>
    /\ \A g, h \in Handlers : Busy(g) /\ Busy(h) => g = h
    /\ \A t \in Tickets : old[t] = Absent
    /\ \A h \in Handlers : Busy(h) => ~task[h].stale /\ TicketHolds(task[h].ticket, task[h])
    /\ \A t \in Tickets :
         (\A h \in Handlers : Busy(h) => task[h].ticket # t) => TicketHolds(t, Rest)
LEMMA WritesType ==
  ASSUME IInv, NEW t, NEW K
  PROVE  /\ Writes(t, K) \subseteq 1 .. Len(queue)
         /\ IsFiniteSet(Writes(t, K)) /\ Cardinality(Writes(t, K)) \in Nat
<1>1. Writes(t, K) \subseteq 1 .. Len(queue) /\ Len(queue) \in Nat
  BY DEF Writes, IInv, TypeOK
<1>2. IsFiniteSet(1 .. Len(queue))
  BY <1>1, FS_Interval
<1> QED
  BY <1>1, <1>2, FS_Subset, FS_CardinalityType

(* Row and queue as they were, the entry at most loaded.                     *)
LEMMA Unmoved ==
  ASSUME NEW t \in Tickets, row'[t] = row[t], live'[t] = live[t] \/ live'[t] = ById(t), queue' = queue
  PROVE  /\ ById(t)' = ById(t)
         /\ Has(live, t) => Has(live, t)'
         /\ \A K : Writes(t, K)' = Writes(t, K)
         /\ LeavesStatus(t)' <=> LeavesStatus(t)
         /\ LeavesCloser(t)' <=> LeavesCloser(t)
<1>1. ById(t)' = ById(t)
  BY DEF ById, Has
<1>2. Has(live, t) => Has(live, t)'
  BY DEF ById, Has
<1>3. \A K : Writes(t, K)' = Writes(t, K)
  BY DEF Writes
<1>4. LeavesStatus(t)' <=> LeavesStatus(t)
  BY <1>1, <1>3 DEF LeavesStatus
<1>5. LeavesCloser(t)' <=> LeavesCloser(t)
  BY <1>1, <1>3 DEF LeavesCloser
<1> QED
  BY <1>1, <1>2, <1>3, <1>4, <1>5

(* Nothing shown, paid or owed changed either: a ticket of no concern to a   *)
(* step, or a handler that goes on.                                          *)
Untouched(t) ==
  /\ row'[t] = row[t] /\ queue' = queue
  /\ live'[t] = live[t] \/ live'[t] = ById(t)
  /\ board'[t] = board[t] /\ (t \in prompted' <=> t \in prompted)
  /\ paid'[t] = paid[t] /\ due'[t] = due[t]

LEMMA UntouchedParts ==
  ASSUME NEW t \in Tickets, Untouched(t), Unknown(t)
  PROVE  /\ Unknown(t)'
         /\ \A n : Earned(t, n)' <=> Earned(t, n)
         /\ Open1(t)' = Open1(t) /\ Claim1(t)' = Claim1(t)
<1>1. ById(t)' = ById(t) /\ (Has(live, t) => Has(live, t)') /\ \A K : Writes(t, K)' = Writes(t, K)
  BY Unmoved DEF Untouched
<1>2. Unknown(t)'
  BY <1>1 DEF Unknown, Untouched, Has, ById
<1>3. ASSUME NEW n PROVE Earned(t, n)' <=> Earned(t, n)
  BY <1>1 DEF Earned, Untouched
<1>4. Open1(t)' = Open1(t) /\ Claim1(t)' = Claim1(t)
  BY <1>1 DEF Open1, Claim1, Untouched
<1> QED
  BY <1>2, <1>3, <1>4

LEMMA StillHolds ==
  ASSUME NEW t \in Tickets, NEW q, Untouched(t), TicketHolds(t, q)
  PROVE  TicketHolds(t, q)'
<1>1. Unknown(t)
  BY DEF TicketHolds
<1>2. ToldStatus(t, q)' /\ ToldCloser(t, q)'
  BY Unmoved DEF TicketHolds, ToldStatus, ToldCloser, Untouched
<1>3. ById(t)' = ById(t) /\ (Has(live, t) => Has(live, t)') /\ (Has(row, t)' <=> Has(row, t))
      /\ Writes(t, Ops)' = Writes(t, Ops)
  BY Unmoved DEF Untouched, Has
<1>4. Shown(t, q)'
  BY <1>3 DEF TicketHolds, Shown, Untouched
<1>5. Underway(t, q)'
  BY <1>3 DEF TicketHolds, Underway, Untouched
<1>6. Covered(t, q)'
  BY <1>1, UntouchedParts DEF TicketHolds, Covered
<1> QED
  BY <1>1, <1>2, <1>4, <1>5, <1>6, UntouchedParts DEF TicketHolds

(* A step of the one handler under way.                                      *)
LEMMA GoesOn ==
  ASSUME IInv, SoloInv, smooth, NEW h \in Handlers, Busy(h), NEW t \in Tickets, t = task[h].ticket, NEW q,
         task'[h] = q, \A g \in Handlers \ {h} : task'[g] = task[g], old' = old,
         q.pc = "idle" => q = Rest,
         q.pc # "idle" => q.ticket = t /\ q.stale = task[h].stale,
         TicketHolds(t, q)',
         \A s \in Tickets \ {t} : TicketHolds(s, Rest) => TicketHolds(s, Rest)'
  PROVE  SoloInv'
<1>1. \A g \in Handlers \ {h} : task'[g].pc = "idle" /\ task[g].pc = "idle"
  BY DEF SoloInv, Busy
<1>2. \A s \in Tickets : old'[s] = Absent
  BY DEF SoloInv
<1>3. \A s \in Tickets \ {t} : TicketHolds(s, Rest)'
  BY <1>1 DEF SoloInv, Busy
<1>4. ASSUME NEW g \in Handlers, task'[g].pc # "idle"
      PROVE  ~task'[g].stale /\ TicketHolds(t, q)' /\ task'[g].ticket = t /\ task'[g] = q
  BY <1>1, <1>4 DEF SoloInv, Busy
<1>5. ASSUME NEW s \in Tickets, \A g \in Handlers : task'[g].pc # "idle" => task'[g].ticket # s
      PROVE  TicketHolds(s, Rest)'
  <2>1. CASE s = t
    <3>1. q.pc = "idle"
      BY <1>5, <2>1
    <3>2. TicketHolds(t, q)' /\ q = Rest
      BY <3>1
    <3> QED
      BY <2>1, <3>2
  <2> QED
    BY <1>3, <2>1
<1>7. ASSUME NEW g \in Handlers, task'[g].pc # "idle"
      PROVE  TicketHolds(task[g].ticket, task[g])'
  BY <1>4, <1>7
<1> QED
  BY <1>1, <1>2, <1>4, <1>5, <1>7 DEF SoloInv, Busy

LEMMA GotoTask ==
  ASSUME IInv, NEW h \in Handlers, NEW pc \in Steps, Goto(h, pc)
  PROVE  \E q \in Task :
           /\ task'[h] = q /\ (\A g \in Handlers \ {h} : task'[g] = task[g])
           /\ q.pc = pc /\ (pc = "idle" => q = Rest)
           /\ pc # "idle" => /\ q.ticket = task[h].ticket /\ q.stale = task[h].stale
                             /\ q.cmd = task[h].cmd /\ q.post = task[h].post
                             /\ q.user = task[h].user
<1>1. CASE pc = "idle"
  BY <1>1, RestType DEF Goto, IInv, TypeOK
<1>2. CASE pc # "idle"
  <2> DEFINE q == [task[h] EXCEPT !.pc = pc]
  <2>1. /\ q \in Task /\ q.pc = pc /\ q.ticket = task[h].ticket /\ q.stale = task[h].stale
        /\ q.cmd = task[h].cmd /\ q.post = task[h].post /\ q.user = task[h].user
    BY DEF IInv, TypeOK, Task
  <2>2. task' = [task EXCEPT ![h] = q]
    BY <1>2 DEF Goto
  <2> HIDE DEF q
  <2>3. task'[h] = q /\ \A g \in Handlers \ {h} : task'[g] = task[g]
    BY <2>2 DEF IInv, TypeOK
  <2> QED
    BY <1>2, <2>1, <2>3
<1> QED
  BY <1>1, <1>2

(* The ticket of the handler under way, and the handler.                     *)
LEMMA InHand ==
  ASSUME IInv, SoloInv, smooth, NEW h \in Handlers, task[h].pc # "idle"
  PROVE  /\ task[h].ticket \in Tickets /\ task[h] \in Task
         /\ Busy(h) /\ ~task[h].stale
         /\ TicketHolds(task[h].ticket, task[h])
BY DEF IInv, TypeOK, Task, SoloInv, Busy

(* A handler that goes on and has changed nothing of its ticket.             *)
LEMMA Onward ==
  ASSUME IInv, SoloInv, smooth, NEW h \in Handlers, task[h].pc # "idle",
         NEW pc \in Steps, Goto(h, pc), old' = old,
         \A s \in Tickets : Untouched(s),
         NEW t \in Tickets, t = task[h].ticket,
         \A q \in Task : q.pc = pc /\ (pc # "idle" => q.cmd = task[h].cmd /\ q.post = task[h].post
                                                      /\ q.user = task[h].user)
           => TicketHolds(t, q)
  PROVE  SoloInv'
<1>1. PICK q \in Task :
           /\ task'[h] = q /\ (\A g \in Handlers \ {h} : task'[g] = task[g])
           /\ q.pc = pc /\ (pc = "idle" => q = Rest)
           /\ pc # "idle" => /\ q.ticket = task[h].ticket /\ q.stale = task[h].stale
                             /\ q.cmd = task[h].cmd /\ q.post = task[h].post
                             /\ q.user = task[h].user
  BY GotoTask
<1>2. TicketHolds(t, q)
  BY <1>1
<1>3. TicketHolds(t, q)'
  BY <1>2, StillHolds
<1>4. \A s \in Tickets \ {t} : TicketHolds(s, Rest) => TicketHolds(s, Rest)'
  BY StillHolds
<1> QED
  BY <1>1, <1>3, <1>4, InHand, GoesOn

LEMMA AskSolo ==
  ASSUME IInv, SoloInv, smooth, NEW h \in Handlers, Ask(h) \/ Button(h) \/ Abort(h)
  PROVE  SoloInv'
<1>1. PICK t \in Tickets : t = task[h].ticket
  BY DEF IInv, TypeOK, Task
<1>2. PICK pc \in {"idle", "button", "prompt"} :
        Goto(h, pc) /\ (pc # "idle" => task[h].pc \in {"ask", "button"})
  BY DEF Ask, Button, Abort, AfterAsking
<1>3. pc \in Steps /\ task[h].pc \in {"unpost", "ask", "button", "prompt"} /\ old' = old
  BY <1>2 DEF Ask, Button, Abort, Steps
<1>4. \A s \in Tickets : Untouched(s)
  BY DEF Ask, Button, Abort, slack, ghosts, Untouched
<1>5. TicketHolds(t, task[h]) /\ ~task[h].stale
  BY <1>1, <1>3, InHand
<1>6. ASSUME NEW q \in Task, q.pc = pc,
             pc # "idle" => q.cmd = task[h].cmd /\ q.post = task[h].post /\ q.user = task[h].user
      PROVE  TicketHolds(t, q)
  <2>1. ToldStatus(t, q) /\ ToldCloser(t, q) /\ Shown(t, q) /\ Underway(t, q)
    BY <1>2, <1>3, <1>5, <1>6 DEF TicketHolds, ToldStatus, ToldCloser, Shown, Underway
  <2>2. Covered(t, q)
    <3>1. Command1(q) = 0 /\ Command1(task[h]) \in {0, 1}
      BY <1>2, <1>3, <1>6 DEF Command1
    <3>2. paid[t] \in Nat /\ due[t] \in Nat /\ Cardinality(Writes(t, {"pay"})) \in Nat
          /\ Open1(t) \in Nat /\ Claim1(t) \in Nat
      BY WritesType DEF IInv, TypeOK, Open1, Claim1
    <3> QED
      BY <1>2, <1>5, <1>6, <3>1, <3>2 DEF TicketHolds, Covered, Earned
  <2> QED
    BY <1>5, <2>1, <2>2 DEF TicketHolds
<1> QED
  BY <1>1, <1>2, <1>3, <1>4, <1>6, Onward

LEMMA CacheNewSolo ==
  ASSUME IInv, SoloInv, smooth, NEW h \in Handlers, CacheNew(h)
  PROVE  SoloInv'
<1>1. PICK t \in Tickets : t = task[h].ticket
  BY DEF IInv, TypeOK, Task
<1>2. Goto(h, "idle") /\ "idle" \in Steps /\ task[h].pc = "cache" /\ old' = old
  BY DEF CacheNew, Steps
<1>3. TicketHolds(t, task[h])
  BY <1>1, <1>2, InHand
<1>4. \A s \in Tickets : Untouched(s)
  <2>1. ById(t) = [status |-> "open", closer |-> NoUser, post |-> task[h].post]
    BY <1>2, <1>3 DEF TicketHolds, Underway
  <2>2. live'[t] = ById(t) /\ \A s \in Tickets \ {t} : live'[s] = live[s]
    BY <1>1, <2>1 DEF CacheNew, IInv, TypeOK
  <2> QED
    BY <2>2 DEF CacheNew, slack, ghosts, Untouched
<1>5. ASSUME NEW q \in Task, q.pc = "idle" PROVE TicketHolds(t, q)
  <2>1. ToldStatus(t, q) /\ ToldCloser(t, q) /\ Shown(t, q) /\ Underway(t, q)
    BY <1>2, <1>3, <1>5 DEF TicketHolds, ToldStatus, ToldCloser, Shown, Underway
  <2>2. Covered(t, q)
    BY <1>2, <1>3, <1>5 DEF TicketHolds, Covered, Command1
  <2> QED
    BY <1>3, <2>1, <2>2 DEF TicketHolds
<1> QED
  BY <1>1, <1>2, <1>4, <1>5, Onward

(* Tickets, tasks and what holds of them as they were.                       *)
LEMMA Stays ==
  ASSUME IInv, SoloInv, smooth, task' = task, old' = old,
         \A q, s : s \in Tickets /\ TicketHolds(s, q) => TicketHolds(s, q)'
  PROVE  SoloInv'
<1>1. ASSUME NEW h \in Handlers, task'[h].pc # "idle"
      PROVE  TicketHolds(task[h].ticket, task[h])'
  <2>1. PICK s \in Tickets, q \in Task : s = task[h].ticket /\ q = task[h]
    BY DEF IInv, TypeOK, Task
  <2>2. TicketHolds(s, q)
    BY <1>1, <2>1 DEF SoloInv, Busy
  <2>3. TicketHolds(s, q)'
    BY <2>2
  <2>4. task'[h].ticket = s /\ task'[h] = q
    BY <2>1
  <2> QED
    BY <2>3, <2>4
<1>2. ASSUME NEW s \in Tickets, \A h \in Handlers : task'[h].pc # "idle" => task'[h].ticket # s
      PROVE  TicketHolds(s, Rest)'
  <2>1. TicketHolds(s, Rest)
    BY <1>2 DEF SoloInv, Busy
  <2> QED
    BY <2>1
<1> QED
  BY <1>1, <1>2 DEF SoloInv, Busy

LEMMA LookSolo ==
  ASSUME IInv, SoloInv, smooth, NEW t \in Tickets, Look(t)
  PROVE  SoloInv'
<1>1. \A s \in Tickets : Untouched(s)
  <2>1. live'[t] = ById(t) /\ \A s \in Tickets \ {t} : live'[s] = live[s]
    BY DEF Look, Fill, IInv, TypeOK
  <2> QED
    BY <2>1 DEF Look, slack, ghosts, Untouched
<1>2. task' = task /\ old' = old
  BY DEF Look
<1> QED
  BY <1>1, <1>2, StillHolds, Stays

(* A handler begins while all the others are through.                        *)
LEMMA Begins ==
  ASSUME IInv, SoloInv, smooth', NEW h \in Handlers, NEW t \in Tickets, NEW q \in Task,
         q.pc # "idle", q.ticket = t, ~q.stale, Begin(h, q), old' = old,
         TicketHolds(t, Rest) => TicketHolds(t, q)',
         \A s \in Tickets \ {t} : Untouched(s)
  PROVE  SoloInv'
<1>1. smooth /\ Quiet
  BY DEF Begin
<1>2. \A s \in Tickets : TicketHolds(s, Rest) /\ old'[s] = Absent
  BY <1>1 DEF SoloInv, Quiet, Busy
<1>3. task'[h] = q /\ \A g \in Handlers \ {h} : task'[g].pc = "idle"
  BY <1>1 DEF Begin, Quiet, IInv, TypeOK
<1>4. TicketHolds(t, q)' /\ \A s \in Tickets \ {t} : TicketHolds(s, Rest)'
  BY <1>2, StillHolds
<1>5. ASSUME NEW g \in Handlers, task'[g].pc # "idle"
      PROVE  ~task'[g].stale /\ TicketHolds(task[g].ticket, task[g])'
  <2>1. task'[g] = q /\ task'[g].ticket = t
    BY <1>3, <1>5
  <2> QED
    BY <1>4, <2>1
<1>6. \A s \in Tickets : (\A g \in Handlers : task'[g].pc # "idle" => task'[g].ticket # s)
        => TicketHolds(s, Rest)'
  BY <1>3, <1>4
<1> QED
  BY <1>2, <1>3, <1>5, <1>6 DEF SoloInv, Busy

(* What a command finds when it begins.                                      *)
Fits(t, q) ==
  \/ /\ q.pc = "unpost" /\ q.cmd \in {"macro", "purge"} /\ due'[t] = due[t] + 1
  \/ /\ q.pc = "unpost" /\ q.cmd \in {"resolve", "own"} /\ due'[t] = due[t]
     /\ ById(t).status = "open"
  \/ /\ q.pc = "claim" /\ q.cmd = "claim" /\ due'[t] = due[t]
     /\ t \in prompted /\ ById(t).closer = NoUser
  \/ /\ q.pc = "post" /\ q.cmd = "reopen" /\ due'[t] = due[t]
     /\ ById(t).status = "closed"

LEMMA RestIs == Rest.pc = "idle" /\ Rest.cmd = "create" /\ ~Rest.stale
BY DEF Rest

LEMMA TakenHolds ==
  ASSUME IInv, NEW t \in Tickets, NEW q \in Task, TicketHolds(t, Rest), Fits(t, q),
         Has(row, t), row'[t] = row[t], queue' = queue, live'[t] = ById(t),
         board'[t] = board[t], prompted' = prompted, paid'[t] = paid[t]
  PROVE  TicketHolds(t, q)'
<1>1. /\ ById(t)' = ById(t) /\ \A K : Writes(t, K)' = Writes(t, K)
      /\ LeavesStatus(t)' <=> LeavesStatus(t)
      /\ LeavesCloser(t)' <=> LeavesCloser(t)
  BY Unmoved
<1>2. LeavesStatus(t) /\ LeavesCloser(t) /\ Unknown(t) /\ board[t] = {ById(t).post} \ {0}
  BY RestIs DEF TicketHolds, ToldStatus, ToldCloser, Shown
<1>3. Has(live, t)' /\ Has(row, t)'
  BY DEF Has, ById
<1>4. Unknown(t)' /\ ToldStatus(t, q)' /\ ToldCloser(t, q)'
  BY <1>1, <1>2, <1>3 DEF Unknown, ToldStatus, ToldCloser
<1>5. Shown(t, q)'
  BY <1>1, <1>2 DEF Shown, Fits
<1>6. Underway(t, q)'
  BY <1>1, <1>3 DEF Underway, Fits
<1>7. Covered(t, q)'
  <2> DEFINE c == Cardinality(Writes(t, {"pay"}))
             o == Open1(t)
             m == Claim1(t)
  <2>1. paid[t] \in Nat /\ due[t] \in Nat /\ c \in Nat /\ o \in {0, 1} /\ m \in {0, 1}
    BY WritesType DEF IInv, TypeOK, Open1, Claim1
  <2>2. paid[t] + c + (o + m + 0) <= due[t]
    <3>1. Command1(Rest) = 0
      BY RestIs DEF Command1
    <3> QED
      BY <3>1 DEF TicketHolds, Covered, Earned
  <2>3. c' = c /\ o' = o /\ m' = m /\ paid'[t] = paid[t]
    BY <1>1 DEF Open1, Claim1
  <2>4. (due'[t] = due[t] /\ Command1(q) = 0) \/ (due'[t] = due[t] + 1 /\ Command1(q) = 1)
    BY DEF Fits, Command1
  <2>5. ~(q.cmd = "resolve" /\ q.pc \in {"tellClose", "claim"})
    BY DEF Fits
  <2>6. Command1(q)' = Command1(q)
    BY DEF Command1
  <2>7. paid'[t] + c' + (o' + m' + Command1(q)) <= due'[t]
    <3> HIDE DEF c, o, m
    <3> QED
      BY <2>1, <2>2, <2>3, <2>4
  <2> QED
    BY <2>5, <2>7 DEF Covered, Earned
<1> QED
  BY <1>4, <1>5, <1>6, <1>7 DEF TicketHolds

LEMMA TakeSolo ==
  ASSUME IInv, SoloInv, smooth', NEW h \in Handlers, NEW t \in Tickets, NEW u \in Users,
         NEW cmd \in Commands, NEW pc \in {"unpost", "claim", "post"}, NEW stale \in BOOLEAN,
         Take(h, t, u, cmd, pc, stale), stale => Has(old, t),
         t \in prompted \/ Has(row, t), \A s \in Tickets \ {t} : due'[s] = due[s],
         ~stale => \A q \in Task : q.pc = pc /\ q.cmd = cmd => Fits(t, q)
  PROVE  SoloInv'
<1>1. PICK q \in Task : /\ q.pc = pc /\ q.cmd = cmd /\ q.ticket = t /\ q.stale = stale
                        /\ q.pc # "idle" /\ Begin(h, q)
  <2> DEFINE q == [pc |-> pc, cmd |-> cmd, ticket |-> t, user |-> u, stale |-> stale,
                   post |-> IF cmd = "reopen" THEN ops + 1 ELSE 0]
  <2>0. ops \in Nat /\ pc \in Steps
    BY DEF IInv, TypeOK, Steps
  <2>1. q \in Task /\ q.pc = pc /\ q.cmd = cmd /\ q.ticket = t /\ q.stale = stale /\ q.pc # "idle"
    BY <2>0 DEF Task
  <2>2. Begin(h, q)
    BY DEF Take
  <2> HIDE DEF q
  <2> QED
    BY <2>1, <2>2
<1>2. UNCHANGED <<row, asked, old, file, queue, slack, paid>>
      /\ (IF stale THEN UNCHANGED live ELSE Fill(t))
  BY DEF Take
<1>3. smooth /\ Quiet
  BY <1>1 DEF Begin
<1>4. TicketHolds(t, Rest) /\ old[t] = Absent
  BY <1>3 DEF SoloInv, Quiet, Busy
<1>5. ~stale
  BY <1>4 DEF Has, Absent
<1>6. Fits(t, q)
  BY <1>1, <1>5
<1>7. Has(row, t)
  BY <1>4 DEF TicketHolds, Unknown
<1>8. live'[t] = ById(t) /\ \A s \in Tickets \ {t} : live'[s] = live[s]
  BY <1>2, <1>5 DEF Fill, IInv, TypeOK
<1>9. TicketHolds(t, q)'
  BY <1>1, <1>2, <1>4, <1>6, <1>7, <1>8, TakenHolds DEF slack
<1>10. \A s \in Tickets \ {t} : Untouched(s)
  BY <1>2, <1>8 DEF Untouched, slack
<1> QED
  BY <1>1, <1>2, <1>5, <1>9, <1>10, Begins

LEMMA ArriveSolo ==
  ASSUME IInv, SoloInv, smooth', NEW h \in Handlers, Arrive(h)
  PROVE  SoloInv'
<1>1. PICK t \in Tickets :
        \/ Create(h, t)
        \/ ResolveOwn(h, t)
        \/ \E u \in Users :
             \/ Resolve(h, t, u)
             \/ Claim(h, t, u)
             \/ Reopen(h, t, u)
             \/ \E cmd \in {"macro", "purge"} : CloseAnyway(h, t, u, cmd)
  BY DEF Arrive
<1>2. Has(old, t) \in BOOLEAN /\ Asker[t] \in Users /\ FALSE \in BOOLEAN
  BY DEF Has, Users
<1>3. ASSUME NEW u \in Users, Resolve(h, t, u)
      PROVE  SoloInv'
  <2>1. due' = due /\ Has(row, t)
    BY <1>3 DEF Resolve
  <2>2. PICK stale \in BOOLEAN : /\ Take(h, t, u, "resolve", "unpost", stale)
                                 /\ stale => Has(old, t)
                                 /\ ~stale => ById(t).status = "open"
    <3>1. CASE MayResolve(ById(t)) /\ Take(h, t, u, "resolve", "unpost", FALSE)
      BY <3>1 DEF MayResolve
    <3>2. CASE MayResolve(ByThread(t)) /\ Take(h, t, u, "resolve", "unpost", Has(old, t))
      BY <1>2, <3>2 DEF MayResolve, ByThread
    <3> QED
      BY <1>3, <3>1, <3>2 DEF Resolve
  <2>3. ~stale => \A q \in Task : q.pc = "unpost" /\ q.cmd = "resolve" => Fits(t, q)
    BY <2>1, <2>2 DEF Fits
  <2> QED
    BY <2>1, <2>2, <2>3, TakeSolo DEF Commands
<1>4. CASE ResolveOwn(h, t)
  <2>1. due' = due /\ Has(row, t) /\ Take(h, t, Asker[t], "own", "unpost", FALSE)
        /\ ById(t).status = "open"
    BY <1>4 DEF ResolveOwn, MayResolve
  <2>2. \A q \in Task : q.pc = "unpost" /\ q.cmd = "own" => Fits(t, q)
    BY <2>1 DEF Fits
  <2> QED
    BY <1>2, <2>1, <2>2, TakeSolo DEF Commands
<1>5. ASSUME NEW u \in Users, Claim(h, t, u)
      PROVE  SoloInv'
  <2>1. due' = due /\ t \in prompted /\ Take(h, t, u, "claim", "claim", FALSE)
        /\ ById(t).closer = NoUser
    BY <1>5 DEF Claim
  <2>2. \A q \in Task : q.pc = "claim" /\ q.cmd = "claim" => Fits(t, q)
    BY <2>1 DEF Fits
  <2> QED
    BY <1>2, <2>1, <2>2, TakeSolo DEF Commands
<1>6. ASSUME NEW u \in Users, Reopen(h, t, u)
      PROVE  SoloInv'
  <2>1. due' = due /\ Has(row, t)
    BY <1>6 DEF Reopen
  <2>2. PICK stale \in BOOLEAN : /\ Take(h, t, u, "reopen", "post", stale)
                                 /\ stale => Has(old, t)
                                 /\ ~stale => ById(t).status = "closed"
    <3>1. CASE MayReopen(ById(t)) /\ Take(h, t, u, "reopen", "post", FALSE)
      BY <3>1 DEF MayReopen
    <3>2. CASE MayReopen(ByThread(t)) /\ Take(h, t, u, "reopen", "post", Has(old, t))
      BY <1>2, <3>2 DEF MayReopen, ByThread
    <3> QED
      BY <1>6, <3>1, <3>2 DEF Reopen
  <2>3. ~stale => \A q \in Task : q.pc = "post" /\ q.cmd = "reopen" => Fits(t, q)
    BY <2>1, <2>2 DEF Fits
  <2> QED
    BY <2>1, <2>2, <2>3, TakeSolo DEF Commands
<1>7. ASSUME NEW u \in Users, NEW cmd \in {"macro", "purge"}, CloseAnyway(h, t, u, cmd)
      PROVE  SoloInv'
  <2>1. due' = [due EXCEPT ![t] = due[t] + 1] /\ Has(row, t) /\ Take(h, t, u, cmd, "unpost", Has(old, t))
    BY <1>7 DEF CloseAnyway
  <2>2. due'[t] = due[t] + 1 /\ \A s \in Tickets \ {t} : due'[s] = due[s]
    BY <2>1 DEF IInv, TypeOK
  <2>3. \A q \in Task : q.pc = "unpost" /\ q.cmd = cmd => Fits(t, q)
    BY <2>2 DEF Fits
  <2>4. cmd \in Commands
    BY DEF Commands
  <2> QED
    BY <1>2, <2>1, <2>2, <2>3, <2>4, TakeSolo
<1>8. CASE Create(h, t)
  <2>1. PICK q \in Task : /\ q.pc = "save" /\ q.cmd = "create" /\ q.ticket = t /\ ~q.stale
                          /\ Begin(h, q)
    <3> DEFINE q == [pc |-> "save", cmd |-> "create", ticket |-> t, user |-> Asker[t],
                     stale |-> FALSE, post |-> ops + 1]
    <3>1. q \in Task /\ q.pc = "save" /\ q.cmd = "create" /\ q.ticket = t /\ ~q.stale
      BY <1>2 DEF Task, Steps, Commands, IInv, TypeOK
    <3>2. Begin(h, q)
      BY <1>8 DEF Create
    <3> HIDE DEF q
    <3> QED
      BY <3>1, <3>2
  <2>2. ~Has(row, t) /\ UNCHANGED <<row, asked, live, old, file, queue, slack, paid, due>>
    BY <1>8 DEF Create
  <2>3. \A s \in Tickets : Untouched(s)
    BY <2>2 DEF Untouched, slack
  <2>4. TicketHolds(t, Rest) => TicketHolds(t, q)
    <3>1. SUFFICES ASSUME TicketHolds(t, Rest) PROVE TicketHolds(t, q)
      OBVIOUS
    <3>2. Unknown(t) /\ ToldStatus(t, q) /\ ToldCloser(t, q) /\ Shown(t, q)
      BY <2>1, <3>1, RestIs DEF TicketHolds, ToldStatus, ToldCloser, Shown
    <3>3. Underway(t, q)
      BY <2>1, <2>2 DEF Underway
    <3>4. Covered(t, q)
      BY <2>1, <3>1, RestIs DEF TicketHolds, Covered, Command1
    <3> QED
      BY <3>2, <3>3, <3>4 DEF TicketHolds
  <2>5. TicketHolds(t, Rest) => TicketHolds(t, q)'
    BY <2>3, <2>4, StillHolds
  <2>6. old' = old
    BY <2>2
  <2> QED
    BY <2>1, <2>2, <2>3, <2>5, <2>6, Begins
<1> QED
  BY <1>1, <1>3, <1>4, <1>5, <1>6, <1>7, <1>8

------------------------------------------------------------------------------
(* What the steps of the one handler do to its ticket                        *)

LEMMA Turns ==
  ASSUME IInv, SoloInv, smooth, NEW h \in Handlers, task[h].pc # "idle", NEW t \in Tickets,
         t = task[h].ticket, NEW q \in Task, NEW p \in Task, p = task[h],
         task'[h] = q, \A g \in Handlers \ {h} : task'[g] = task[g], old' = old,
         q.pc = "idle" => q = Rest,
         q.pc # "idle" => q.ticket = t /\ q.stale = p.stale,
         TicketHolds(t, p) => TicketHolds(t, q)',
         \A s \in Tickets \ {t} : Untouched(s)
  PROVE  SoloInv'
<1>1. TicketHolds(t, q)'
  BY InHand
<1>2. \A s \in Tickets \ {t} : TicketHolds(s, Rest) => TicketHolds(s, Rest)'
  BY StillHolds
<1>3. Busy(h)
  BY DEF Busy
<1> QED
  BY <1>1, <1>2, <1>3, GoesOn

(* What is left to earn, in numbers.                                         *)
LEMMA Numbers ==
  ASSUME IInv, NEW t \in Tickets
  PROVE  /\ paid[t] \in Nat /\ due[t] \in Nat
         /\ Cardinality(Writes(t, {"pay"})) \in Nat
         /\ Open1(t) \in {0, 1} /\ Claim1(t) \in {0, 1}
         /\ \A q : Command1(q) \in {0, 1}
BY WritesType DEF IInv, TypeOK, Open1, Claim1, Command1

(* An entry is written to the cache while row and queue stay.                *)
LEMMA Cached ==
  ASSUME IInv, NEW t \in Tickets, NEW e, e \in Entry, Unknown(t), Has(live, t), live'[t] = e, e.status # "absent",
         row'[t] = row[t], queue' = queue, board'[t] = board[t], prompted' = prompted
  PROVE  /\ ById(t) = live[t] /\ ById(t)' = e /\ Has(live, t)' /\ Has(row, t)'
         /\ Unknown(t)' /\ \A K : Writes(t, K)' = Writes(t, K)
         /\ e.closer = ById(t).closer /\ LeavesCloser(t) => LeavesCloser(t)'
         /\ e.status = ById(t).status /\ e.post = ById(t).post /\ LeavesStatus(t) => LeavesStatus(t)'
<1>1. ById(t) = live[t] /\ ById(t)' = e /\ Has(live, t)'
  BY DEF ById, Has
<1>2. Has(row, t)
  BY DEF Unknown, Has, Absent
<1>3. \A K : Writes(t, K)' = Writes(t, K)
  BY DEF Writes
<1>4. Has(row, t)' /\ Unknown(t)'
  BY <1>1, <1>2 DEF Unknown, Has
<1>5. ASSUME e.closer = ById(t).closer, LeavesCloser(t) PROVE LeavesCloser(t)'
  BY <1>1, <1>3, <1>5 DEF LeavesCloser
<1>6. ASSUME e.status = ById(t).status, e.post = ById(t).post, LeavesStatus(t) PROVE LeavesStatus(t)'
  BY <1>1, <1>3, <1>6 DEF LeavesStatus
<1> QED
  BY <1>1, <1>2, <1>3, <1>4, <1>5, <1>6

LEMMA CloseTurn ==
  ASSUME IInv, NEW t \in Tickets, NEW p \in Task, NEW q \in Task, p.pc = "close", TicketHolds(t, p),
         q.pc = "tellClose", q.cmd = p.cmd, live'[t] = Closed(ById(t)),
         row'[t] = row[t], queue' = queue, board'[t] = board[t], prompted' = prompted,
         paid'[t] = paid[t], due'[t] = due[t]
  PROVE  TicketHolds(t, q)'
<1> DEFINE e == Closed(ById(t))
<1>1. /\ Has(live, t) /\ Unknown(t) /\ LeavesCloser(t) /\ board[t] = {}
      /\ p.cmd \in {"resolve", "own", "macro", "purge"}
      /\ p.cmd \in {"resolve", "own"} => ById(t).status = "open"
  BY DEF TicketHolds, Underway, ToldCloser, Shown
<1>2. ById(t) \in Entry /\ ById(t).status \in {"open", "closed"}
  <2>1. ById(t) \in Entry /\ ById(t).status # "absent"
    BY <1>1, ByIdType DEF ById, Has
  <2> QED
    BY <2>1 DEF Entry
<1>3. e \in Entry /\ e.status = "closed" /\ e.post = 0 /\ e.closer = ById(t).closer /\ live'[t] = e
  BY <1>2 DEF Closed, Entry
<1> HIDE DEF e
<1>4. /\ ById(t)' = e /\ Has(live, t)' /\ Has(row, t)' /\ Unknown(t)' /\ \A K : Writes(t, K)' = Writes(t, K)
      /\ LeavesCloser(t)'
  BY <1>1, <1>3, Cached
<1>5. ToldStatus(t, q)' /\ ToldCloser(t, q)'
  BY <1>4 DEF ToldStatus, ToldCloser
<1>6. Shown(t, q)'
  BY <1>1, <1>3, <1>4 DEF Shown
<1>7. Underway(t, q)'
  BY <1>1, <1>3, <1>4 DEF Underway
<1>8. Covered(t, q)'
  <2> DEFINE c == Cardinality(Writes(t, {"pay"}))
             o == Open1(t)
             m == Claim1(t)
             k == Command1(p)
  <2>1. paid[t] \in Nat /\ due[t] \in Nat /\ c \in Nat /\ o \in {0, 1} /\ m \in {0, 1} /\ k \in {0, 1}
    BY Numbers
  <2>2. paid[t] + c + (o + m + k) <= due[t]
    BY DEF TicketHolds, Covered, Earned
  <2>3. /\ c' = c /\ o' = 0 /\ Command1(q) = k
        /\ m' = IF ById(t).closer = NoUser THEN 1 ELSE 0
    BY <1>3, <1>4 DEF Open1, Claim1, Command1
  <2>4. o = 1 \/ (o = 0 /\ m = IF ById(t).closer = NoUser THEN 1 ELSE 0)
    BY <1>2 DEF Open1, Claim1
  <2>5. p.cmd = "resolve" => o = 1
    BY <1>1 DEF Open1
  <2>6. paid'[t] = paid[t] /\ due'[t] = due[t]
    OBVIOUS
  <2>7. /\ paid'[t] + c' + (o' + m' + Command1(q)) <= due'[t]
        /\ q.cmd = "resolve" => paid'[t] + c' + 1 <= due'[t]
    <3> HIDE DEF c, o, m, k
    <3> QED
      BY <2>1, <2>2, <2>3, <2>4, <2>5, <2>6
  <2> QED
    BY <2>7 DEF Covered, Earned
<1> QED
  BY <1>4, <1>5, <1>6, <1>7, <1>8 DEF TicketHolds

LEMMA ClaimTurn ==
  ASSUME IInv, NEW t \in Tickets, NEW p \in Task, NEW q \in Task, p.pc = "claim", TicketHolds(t, p),
         q.pc = "tellClaim", q.cmd = p.cmd, q.user = p.user, live'[t] = Claimed(ById(t), p.user),
         row'[t] = row[t], queue' = queue, board'[t] = board[t], prompted' = prompted,
         paid'[t] = paid[t], due'[t] = due[t]
  PROVE  TicketHolds(t, q)'
<1> DEFINE e == Claimed(ById(t), p.user)
<1>1. /\ Has(live, t) /\ Unknown(t) /\ LeavesStatus(t) /\ board[t] = {ById(t).post} \ {0}
      /\ p.cmd \in {"resolve", "claim", "macro", "purge"}
      /\ p.cmd # "claim" => ById(t).status = "closed"
      /\ p.cmd = "claim" => t \in prompted /\ ById(t).closer = NoUser
  BY DEF TicketHolds, Underway, ToldStatus, Shown
<1>2. ById(t) \in Entry /\ ById(t).status # "absent"
  BY <1>1, ByIdType DEF ById, Has
<1>3. /\ e \in Entry /\ e.status = ById(t).status /\ e.post = ById(t).post /\ e.closer = p.user
      /\ live'[t] = e /\ p.user # NoUser
  <2>1. p.user \in Users /\ p.user # NoUser
    BY NoUserAssumption DEF Task
  <2> QED
    BY <1>2, <2>1 DEF Claimed, Entry
<1> HIDE DEF e
<1>4. /\ ById(t)' = e /\ Has(live, t)' /\ Has(row, t)' /\ Unknown(t)' /\ \A K : Writes(t, K)' = Writes(t, K)
      /\ LeavesStatus(t)'
  BY <1>1, <1>2, <1>3, Cached
<1>5. ToldStatus(t, q)' /\ ToldCloser(t, q)'
  BY <1>4 DEF ToldStatus, ToldCloser
<1>6. Shown(t, q)'
  BY <1>1, <1>3, <1>4 DEF Shown
<1>7. Underway(t, q)'
  BY <1>1, <1>3, <1>4 DEF Underway
<1>8. Covered(t, q)'
  <2> DEFINE c == Cardinality(Writes(t, {"pay"}))
             o == Open1(t)
             m == Claim1(t)
             k == Command1(p)
  <2>1. paid[t] \in Nat /\ due[t] \in Nat /\ c \in Nat /\ o \in {0, 1} /\ m \in {0, 1} /\ k \in {0, 1}
    BY Numbers
  <2>2. /\ paid[t] + c + (o + m + k) <= due[t]
        /\ p.cmd = "resolve" => paid[t] + c + 1 <= due[t]
    BY DEF TicketHolds, Covered, Earned
  <2>3. c' = c /\ o' = o /\ m' = 0 /\ Command1(q) = 1
    BY <1>3, <1>4 DEF Open1, Claim1, Command1
  <2>4. /\ p.cmd = "claim" => m = 1
        /\ p.cmd \in {"macro", "purge"} => k = 1
        /\ p.cmd = "resolve" => o = 0
    BY <1>1 DEF Open1, Claim1, Command1
  <2>6. paid'[t] = paid[t] /\ due'[t] = due[t]
    OBVIOUS
  <2>7. paid'[t] + c' + (o' + m' + Command1(q)) <= due'[t]
    <3> HIDE DEF c, o, m, k
    <3> QED
      BY <1>1, <2>1, <2>2, <2>3, <2>4, <2>6
  <2> QED
    BY <2>7 DEF Covered, Earned
<1> QED
  BY <1>4, <1>5, <1>6, <1>7, <1>8 DEF TicketHolds

LEMMA OpenTurn ==
  ASSUME IInv, NEW t \in Tickets, NEW p \in Task, NEW q \in Task, p.pc = "open", TicketHolds(t, p),
         q.pc = "tellOpen", q.cmd = p.cmd, q.post = p.post, live'[t] = Opened(ById(t), p.post),
         row'[t] = row[t], queue' = queue, board'[t] = board[t], prompted' = prompted,
         paid'[t] = paid[t], due'[t] = due[t] + 1
  PROVE  TicketHolds(t, q)'
<1> DEFINE e == Opened(ById(t), p.post)
<1>1. /\ Has(live, t) /\ Unknown(t) /\ LeavesCloser(t) /\ board[t] = {p.post} \ {0}
      /\ ById(t).status = "closed"
  BY DEF TicketHolds, Underway, ToldCloser, Shown
<1>2. ById(t) \in Entry /\ ById(t).post = 0 /\ p.post \in Nat
  BY <1>1, ByIdType DEF Task
<1>3. e \in Entry /\ e.status = "open" /\ e.post = p.post /\ e.closer = ById(t).closer /\ live'[t] = e
  BY <1>2 DEF Opened, Entry
<1> HIDE DEF e
<1>4. /\ ById(t)' = e /\ Has(live, t)' /\ Has(row, t)' /\ Unknown(t)' /\ \A K : Writes(t, K)' = Writes(t, K)
      /\ LeavesCloser(t)'
  BY <1>1, <1>3, Cached
<1>5. ToldStatus(t, q)' /\ ToldCloser(t, q)'
  BY <1>4 DEF ToldStatus, ToldCloser
<1>6. Shown(t, q)'
  BY <1>1, <1>3, <1>4 DEF Shown
<1>7. Underway(t, q)'
  BY <1>1, <1>3, <1>4 DEF Underway
<1>8. Covered(t, q)'
  <2> DEFINE c == Cardinality(Writes(t, {"pay"}))
             o == Open1(t)
             m == Claim1(t)
             k == Command1(p)
  <2>1. paid[t] \in Nat /\ due[t] \in Nat /\ c \in Nat /\ o \in {0, 1} /\ m \in {0, 1} /\ k \in {0, 1}
    BY Numbers
  <2>2. paid[t] + c + (o + m + k) <= due[t]
    BY DEF TicketHolds, Covered, Earned
  <2>3. c' = c /\ o = 0 /\ o' = 1 /\ m' \in {0, 1} /\ m' <= m /\ Command1(q) = 0
    BY <1>1, <1>3, <1>4 DEF Open1, Claim1, Command1
  <2>6. paid'[t] = paid[t] /\ due'[t] = due[t] + 1
    OBVIOUS
  <2>7. paid'[t] + c' + (o' + m' + Command1(q)) <= due'[t]
    <3> HIDE DEF c, o, m, k
    <3> QED
      BY <2>1, <2>2, <2>3, <2>6
  <2> QED
    BY <2>7 DEF Covered, Earned
<1> QED
  BY <1>4, <1>5, <1>6, <1>7, <1>8 DEF TicketHolds

(* The handler that goes on to pc with all it holds.                         *)
LEMMA GoesTo ==
  ASSUME IInv, SoloInv, smooth, NEW h \in Handlers, task[h].pc # "idle", old' = old,
         NEW pc \in Steps, Goto(h, pc),
         \A t \in Tickets, p, q \in Task :
           /\ t = task[h].ticket /\ p = task[h] /\ TicketHolds(t, p)
           /\ q.pc = pc
           /\ pc # "idle" => q.cmd = p.cmd /\ q.post = p.post /\ q.user = p.user
           => TicketHolds(t, q)',
         \A s \in Tickets \ {task[h].ticket} : Untouched(s)
  PROVE  SoloInv'
<1>1. PICK q \in Task :
           /\ task'[h] = q /\ (\A g \in Handlers \ {h} : task'[g] = task[g])
           /\ q.pc = pc /\ (pc = "idle" => q = Rest)
           /\ pc # "idle" => /\ q.ticket = task[h].ticket /\ q.stale = task[h].stale
                             /\ q.cmd = task[h].cmd /\ q.post = task[h].post
                             /\ q.user = task[h].user
  BY GotoTask
<1>2. PICK t \in Tickets, p \in Task : t = task[h].ticket /\ p = task[h]
  BY DEF IInv, TypeOK, Task
<1>3. TicketHolds(t, p) => TicketHolds(t, q)'
  BY <1>1, <1>2
<1> QED
  BY <1>1, <1>2, <1>3, Turns

LEMMA CacheOpsSolo ==
  ASSUME IInv, SoloInv, smooth, NEW h \in Handlers, Close(h) \/ ClaimCached(h) \/ Open(h)
  PROVE  SoloInv'
<1>1. PICK t \in Tickets, p \in Task : t = task[h].ticket /\ p = task[h]
  BY DEF IInv, TypeOK, Task
<1>2. task[h].pc # "idle" /\ old' = old
  BY DEF Close, ClaimCached, Open
<1>3. TicketHolds(t, p)
  BY <1>1, <1>2, InHand
<1>4. Has(live, t)
  BY <1>1, <1>3 DEF TicketHolds, Underway, Close, ClaimCached, Open
<1>5. PICK pc \in {"tellClose", "tellClaim", "tellOpen"} :
        Goto(h, pc) /\ \E e : live' = [live EXCEPT ![t] = e]
  <2>1. ASSUME NEW x, NEW pc \in {"tellClose", "tellClaim", "tellOpen"}, NEW skip, Update(h, x, pc, skip)
        PROVE  live' = [live EXCEPT ![t] = x] /\ Goto(h, pc)
    BY <1>1, <1>4, <2>1 DEF Update
  <2> QED
    BY <2>1 DEF Close, ClaimCached, Open
<1>6. pc \in Steps
  BY DEF Steps
<1>7. UNCHANGED <<row, queue, board, prompted, paid>>
  BY DEF Close, ClaimCached, Open, slack
<1>8. (\A s \in Tickets \ {t} : due'[s] = due[s]) /\ \A s \in Tickets \ {t} : live'[s] = live[s]
  BY <1>1, <1>5 DEF Close, ClaimCached, Open, ghosts, IInv, TypeOK
<1>9. \A s \in Tickets \ {t} : Untouched(s)
  BY <1>7, <1>8 DEF Untouched
<1>10. ASSUME NEW q \in Task, q.pc = pc, q.cmd = p.cmd, q.post = p.post, q.user = p.user
       PROVE  TicketHolds(t, q)'
  <2>1. CASE Close(h)
    <3>1. live'[t] = Closed(ById(t)) /\ Goto(h, "tellClose") /\ due' = due /\ p.pc = "close"
      BY <1>1, <1>4, <2>1 DEF Close, Update, ghosts, IInv, TypeOK
    <3>2. pc = "tellClose"
      BY <1>5, <1>6, <3>1, GotoType DEF Steps
    <3> QED
      BY <1>3, <1>7, <1>10, <3>1, <3>2, CloseTurn
  <2>2. CASE ClaimCached(h)
    <3>1. live'[t] = Claimed(ById(t), p.user) /\ Goto(h, "tellClaim") /\ due' = due /\ p.pc = "claim"
      BY <1>1, <1>4, <2>2 DEF ClaimCached, Update, ghosts, IInv, TypeOK
    <3>2. pc = "tellClaim"
      BY <1>5, <1>6, <3>1, GotoType DEF Steps
    <3> QED
      BY <1>3, <1>7, <1>10, <3>1, <3>2, ClaimTurn
  <2>3. CASE Open(h)
    <3>1. live'[t] = Opened(ById(t), p.post) /\ Goto(h, "tellOpen") /\ due'[t] = due[t] + 1 /\ p.pc = "open"
      BY <1>1, <1>4, <2>3 DEF Open, Update, IInv, TypeOK
    <3>2. pc = "tellOpen"
      BY <1>5, <1>6, <3>1, GotoType DEF Steps
    <3> QED
      BY <1>3, <1>7, <1>10, <3>1, <3>2, OpenTurn
  <2> QED
    BY <2>1, <2>2, <2>3
<1> QED
  BY <1>1, <1>2, <1>5, <1>6, <1>9, <1>10, GoesTo

LEMMA UnpostSolo ==
  ASSUME IInv, SoloInv, smooth, NEW h \in Handlers, Unpost(h)
  PROVE  SoloInv'
<1>1. PICK t \in Tickets, p \in Task : t = task[h].ticket /\ p = task[h]
  BY DEF IInv, TypeOK, Task
<1>2. p.pc = "unpost" /\ old' = old /\ Goto(h, "close") /\ "close" \in Steps
      /\ UNCHANGED <<row, live, queue, prompted, paid, due>>
  BY <1>1 DEF Unpost, ghosts, Steps
<1>3. TicketHolds(t, p) /\ ~p.stale
  BY <1>1, <1>2, InHand
<1>4. ById(t) = live[t]
  BY <1>2, <1>3 DEF TicketHolds, Underway, ById
<1>5. board' = [board EXCEPT ![t] = @ \ {live[t].post}]
  BY <1>1, <1>3 DEF Unpost
<1>6. board'[t] = {} /\ \A s \in Tickets \ {t} : board'[s] = board[s]
  <2>1. board[t] = {ById(t).post} \ {0}
    BY <1>2, <1>3 DEF TicketHolds, Shown
  <2> QED
    BY <1>4, <1>5, <2>1 DEF IInv, TypeOK
<1>7. \A s \in Tickets \ {t} : Untouched(s)
  BY <1>2, <1>6 DEF Untouched
<1>8. ASSUME NEW q \in Task, q.pc = "close", q.cmd = p.cmd PROVE TicketHolds(t, q)'
  <2>1. /\ ById(t)' = ById(t) /\ (Has(live, t) => Has(live, t)')
        /\ \A K : Writes(t, K)' = Writes(t, K)
        /\ LeavesStatus(t)' <=> LeavesStatus(t)
        /\ LeavesCloser(t)' <=> LeavesCloser(t)
    BY <1>2, Unmoved
  <2>2. Unknown(t)'
    BY <1>2, <1>3, <1>6, <2>1 DEF TicketHolds, Unknown, Has
  <2>3. ToldStatus(t, q)' /\ ToldCloser(t, q)' /\ Shown(t, q)'
    BY <1>2, <1>3, <1>6, <1>8, <2>1 DEF TicketHolds, ToldStatus, ToldCloser, Shown
  <2>4. Underway(t, q)'
    BY <1>2, <1>3, <1>8, <2>1 DEF TicketHolds, Underway
  <2>5. Command1(q)' = Command1(p) /\ Open1(t)' = Open1(t) /\ Claim1(t)' = Claim1(t)
    BY <1>2, <1>8, <2>1 DEF Command1, Open1, Claim1
  <2>6. Covered(t, q)'
    BY <1>2, <1>3, <1>8, <2>1, <2>5 DEF TicketHolds, Covered, Earned
  <2> QED
    BY <2>2, <2>3, <2>4, <2>6 DEF TicketHolds
<1> QED
  BY <1>1, <1>2, <1>7, <1>8, GoesTo

LEMMA PromptSolo ==
  ASSUME IInv, SoloInv, smooth, NEW h \in Handlers, Prompt(h)
  PROVE  SoloInv'
<1>1. PICK t \in Tickets, p \in Task : t = task[h].ticket /\ p = task[h]
  BY DEF IInv, TypeOK, Task
<1>2. p.pc = "prompt" /\ old' = old /\ Goto(h, "idle") /\ "idle" \in Steps
      /\ UNCHANGED <<row, live, queue, board, paid, due>> /\ prompted' = prompted \cup {t}
  BY <1>1 DEF Prompt, ghosts, Steps
<1>3. TicketHolds(t, p)
  BY <1>1, <1>2, InHand
<1>4. Has(live, t) /\ ById(t).status = "closed"
  BY <1>2, <1>3 DEF TicketHolds, Underway
<1>5. Has(row, t)
  BY <1>3, <1>4 DEF TicketHolds, Unknown, Has, Absent
<1>6. \A s \in Tickets \ {t} : Untouched(s)
  BY <1>2 DEF Untouched
<1>7. ASSUME NEW q \in Task, q.pc = "idle" PROVE TicketHolds(t, q)'
  <2>1. /\ ById(t)' = ById(t) /\ (Has(live, t) => Has(live, t)')
        /\ \A K : Writes(t, K)' = Writes(t, K)
        /\ LeavesStatus(t)' <=> LeavesStatus(t)
        /\ LeavesCloser(t)' <=> LeavesCloser(t)
    BY <1>2, Unmoved
  <2>2. Unknown(t)'
    BY <1>2, <1>4, <1>5, <2>1 DEF Unknown, Has
  <2>3. ToldStatus(t, q)' /\ ToldCloser(t, q)' /\ Shown(t, q)'
    BY <1>2, <1>3, <1>7, <2>1 DEF TicketHolds, ToldStatus, ToldCloser, Shown
  <2>4. Underway(t, q)'
    BY <1>7 DEF Underway
  <2>5. Command1(q)' = 0 /\ Command1(p) = 0 /\ Open1(t)' = Open1(t) /\ Claim1(t)' = Claim1(t)
    BY <1>2, <1>4, <1>7, <2>1 DEF Command1, Open1, Claim1
  <2>6. Covered(t, q)'
    BY <1>2, <1>3, <1>7, <2>1, <2>5 DEF TicketHolds, Covered, Earned
  <2> QED
    BY <2>2, <2>3, <2>4, <2>6 DEF TicketHolds
<1> QED
  BY <1>1, <1>2, <1>6, <1>7, GoesTo

LEMMA PostSolo ==
  ASSUME IInv, SoloInv, smooth, NEW h \in Handlers, Post(h)
  PROVE  SoloInv'
<1>1. PICK t \in Tickets, p \in Task : t = task[h].ticket /\ p = task[h]
  BY DEF IInv, TypeOK, Task
<1>2. p.pc = "post" /\ p.post \in Nat /\ old' = old /\ UNCHANGED <<row, live, queue, prompted, paid, due>>
  BY <1>1 DEF Post, ghosts, Task
<1>3. TicketHolds(t, p) /\ ~p.stale
  BY <1>1, <1>2, InHand
<1>4. PICK post \in {0, p.post} :
        /\ board' = [board EXCEPT ![t] = @ \cup ({post} \ {0})]
        /\ task' = [task EXCEPT ![h] = [@ EXCEPT !.pc = "open", !.post = post]]
  BY <1>1 DEF Post, Posted
<1>5. PICK q \in Task :
           /\ task'[h] = q /\ (\A g \in Handlers \ {h} : task'[g] = task[g])
           /\ q.pc = "open" /\ q.post = post /\ q.ticket = task[h].ticket
           /\ q.stale = task[h].stale /\ q.cmd = task[h].cmd
  <2> DEFINE r == [task[h] EXCEPT !.pc = "open", !.post = post]
  <2>0. post \in Nat /\ "open" \in Steps /\ task[h] \in Task
    <3>1. post \in Nat
      BY <1>2, <1>4
    <3>2. "open" \in Steps
      BY DEF Steps
    <3>3. task[h] \in Task
      BY DEF IInv, TypeOK
    <3> QED
      BY <3>1, <3>2, <3>3
  <2>1. /\ r \in Task /\ r.pc = "open" /\ r.post = post /\ r.ticket = task[h].ticket
        /\ r.stale = task[h].stale /\ r.cmd = task[h].cmd
    BY <2>0 DEF Task
  <2>2. task' = [task EXCEPT ![h] = r]
    BY <1>4
  <2> HIDE DEF r
  <2>3. task'[h] = r /\ \A g \in Handlers \ {h} : task'[g] = task[g]
    BY <2>2 DEF IInv, TypeOK
  <2> QED
    BY <2>1, <2>3
<1>6. Has(live, t) /\ ById(t).status = "closed" /\ ById(t).post = 0
  BY <1>2, <1>3, ByIdType DEF TicketHolds, Underway
<1>7. board'[t] = {post} \ {0} /\ \A s \in Tickets \ {t} : board'[s] = board[s]
  <2>1. board[t] = {}
    BY <1>2, <1>3, <1>6 DEF TicketHolds, Shown
  <2> QED
    BY <1>4, <2>1 DEF IInv, TypeOK
<1>8. \A s \in Tickets \ {t} : Untouched(s)
  BY <1>2, <1>7 DEF Untouched
<1>9. TicketHolds(t, q)'
  <2>1. /\ ById(t)' = ById(t) /\ (Has(live, t) => Has(live, t)')
        /\ \A K : Writes(t, K)' = Writes(t, K)
        /\ LeavesStatus(t)' <=> LeavesStatus(t)
        /\ LeavesCloser(t)' <=> LeavesCloser(t)
    BY <1>2, Unmoved
  <2>2. Has(row, t)
    BY <1>3, <1>6 DEF TicketHolds, Unknown, Has, Absent
  <2>3. Unknown(t)'
    BY <1>2, <1>6, <2>1, <2>2 DEF Unknown, Has
  <2>4. ToldStatus(t, q)' /\ ToldCloser(t, q)' /\ Shown(t, q)'
    BY <1>2, <1>3, <1>5, <1>7, <2>1 DEF TicketHolds, ToldStatus, ToldCloser, Shown
  <2>5. Underway(t, q)'
    BY <1>5, <1>6, <2>1 DEF Underway
  <2>6. Command1(q)' = 0 /\ Command1(p) = 0 /\ Open1(t)' = Open1(t) /\ Claim1(t)' = Claim1(t)
    BY <1>2, <1>5, <2>1 DEF Command1, Open1, Claim1
  <2>7. Covered(t, q)'
    BY <1>2, <1>3, <1>5, <2>1, <2>6 DEF TicketHolds, Covered, Earned
  <2> QED
    BY <2>3, <2>4, <2>5, <2>7 DEF TicketHolds
<1> QED
  BY <1>1, <1>2, <1>5, <1>8, <1>9, Turns

LEMMA SaveSolo ==
  ASSUME IInv, SoloInv, smooth, NEW h \in Handlers, Save(h)
  PROVE  SoloInv'
<1>1. PICK t \in Tickets, p \in Task : t = task[h].ticket /\ p = task[h]
  BY DEF IInv, TypeOK, Task
<1>2. p.pc = "save" /\ p.post \in Nat /\ UNCHANGED <<live, old, queue, prompted, paid>>
  BY <1>1 DEF Save, Task
<1>3. TicketHolds(t, p) /\ ~p.stale
  BY <1>1, <1>2, InHand
<1>4. PICK post \in {0, p.post} :
        /\ board' = [board EXCEPT ![t] = @ \cup ({post} \ {0})]
        /\ row' = [row EXCEPT ![t] = [status |-> "open", closer |-> NoUser, post |-> post]]
        /\ task' = [task EXCEPT ![h] = [@ EXCEPT !.pc = "cache", !.post = post]]
        /\ due' = [due EXCEPT ![t] = @ + 1]
  BY <1>1 DEF Save, Posted
<1>5. PICK q \in Task :
           /\ task'[h] = q /\ (\A g \in Handlers \ {h} : task'[g] = task[g])
           /\ q.pc = "cache" /\ q.post = post /\ q.ticket = task[h].ticket
           /\ q.stale = task[h].stale /\ q.cmd = task[h].cmd
  <2> DEFINE r == [task[h] EXCEPT !.pc = "cache", !.post = post]
  <2>0. post \in Nat /\ "cache" \in Steps /\ task[h] \in Task
    <3>1. post \in Nat
      BY <1>2, <1>4
    <3>2. "cache" \in Steps
      BY DEF Steps
    <3>3. task[h] \in Task
      BY DEF IInv, TypeOK
    <3> QED
      BY <3>1, <3>2, <3>3
  <2>1. /\ r \in Task /\ r.pc = "cache" /\ r.post = post /\ r.ticket = task[h].ticket
        /\ r.stale = task[h].stale /\ r.cmd = task[h].cmd
    BY <2>0 DEF Task
  <2>2. task' = [task EXCEPT ![h] = r]
    BY <1>4
  <2> HIDE DEF r
  <2>3. task'[h] = r /\ \A g \in Handlers \ {h} : task'[g] = task[g]
    BY <2>2 DEF IInv, TypeOK
  <2> QED
    BY <2>1, <2>3
<1>6. /\ ~Has(row, t) /\ live[t] = Absent /\ board[t] = {} /\ t \notin prompted
      /\ Writes(t, Ops) = {}
  BY <1>2, <1>3 DEF TicketHolds, Underway, Unknown, Has, Absent
<1>7. /\ board'[t] = {post} \ {0} /\ \A s \in Tickets \ {t} : board'[s] = board[s]
      /\ row'[t] = [status |-> "open", closer |-> NoUser, post |-> post]
      /\ \A s \in Tickets \ {t} : row'[s] = row[s]
      /\ due'[t] = due[t] + 1 /\ \A s \in Tickets \ {t} : due'[s] = due[s]
  BY <1>4, <1>6 DEF IInv, TypeOK
<1>8. \A s \in Tickets \ {t} : Untouched(s)
  BY <1>2, <1>7 DEF Untouched
<1>9. TicketHolds(t, q)'
  <2>1. ById(t)' = row'[t] /\ Has(row, t)' /\ ~Has(live, t)'
    BY <1>2, <1>6, <1>7 DEF ById, Has, Absent
  <2>2. \A K : Writes(t, K)' = Writes(t, K)
    BY <1>2 DEF Writes
  <2>3. \A K \in SUBSET Ops : Writes(t, K) = {}
    BY <1>6 DEF Writes
  <2>4. {"close", "open"} \in SUBSET Ops /\ {"claim"} \in SUBSET Ops /\ {"pay"} \in SUBSET Ops
    BY DEF Ops
  <2>5. Unknown(t)'
    BY <1>6, <2>1, <2>2 DEF Unknown
  <2>6. ToldStatus(t, q)' /\ ToldCloser(t, q)'
    BY <2>1, <2>2, <2>3, <2>4 DEF ToldStatus, ToldCloser, LeavesStatus, LeavesCloser
  <2>7. Shown(t, q)'
    BY <1>5, <1>7, <2>1 DEF Shown
  <2>8. Underway(t, q)'
    BY <1>5, <1>6, <1>7, <2>1, <2>2 DEF Underway
  <2>9. Open1(t)' = 1 /\ Claim1(t)' = 0 /\ Command1(q)' = 0
    BY <1>2, <1>5, <1>6, <1>7, <2>1 DEF Open1, Claim1, Command1
  <2>10. Covered(t, q)'
    <3> DEFINE c == Cardinality(Writes(t, {"pay"}))
               n == Open1(t) + Claim1(t) + Command1(p)
    <3>1. paid[t] \in Nat /\ due[t] \in Nat /\ c \in Nat /\ n \in Nat
      BY Numbers
    <3>2. paid[t] + c + n <= due[t]
      BY <1>3 DEF TicketHolds, Covered, Earned
    <3>3. c' = c /\ paid'[t] = paid[t]
      BY <1>2, <2>2
    <3>4. paid'[t] + c' + (1 + 0 + 0) <= due'[t]
      <4> HIDE DEF c, n
      <4> QED
        BY <1>7, <3>1, <3>2, <3>3
    <3> QED
      BY <1>5, <2>9, <3>4 DEF Covered, Earned
  <2> QED
    BY <2>5, <2>6, <2>7, <2>8, <2>10 DEF TicketHolds
<1> QED
  BY <1>1, <1>2, <1>5, <1>8, <1>9, Turns

------------------------------------------------------------------------------
(* Writes are queued                                                         *)

(* The queue is longer by m writes, and nothing else of a ticket changed.    *)
Longer(n, m) ==
  /\ n \in Nat /\ m \in Nat
  /\ DOMAIN queue = 1 .. n /\ DOMAIN queue' = 1 .. (n + m)
  /\ \A k \in 1 .. n : queue'[k] = queue[k]
  /\ UNCHANGED <<row, live, board, prompted, paid, due>>

LEMMA Queued ==
  ASSUME IInv, NEW h \in Handlers, NEW p \in Task, p = task[h], NEW calls \in Seq(Ops),
         NEW pc, NEW next, Tell(h, pc, calls, next)
  PROVE  /\ Longer(Len(queue), Len(calls))
         /\ \A i \in 1 .. Len(calls) :
              queue'[Len(queue) + i] = [op |-> calls[i], ticket |-> p.ticket, user |-> p.user, post |-> p.post]
<1> DEFINE new == [i \in 1 .. Len(calls) |->
                     [op |-> calls[i], ticket |-> p.ticket, user |-> p.user, post |-> p.post]]
<1>1. queue' = queue \o new /\ UNCHANGED <<row, live, slack, paid, ghosts>>
  BY DEF Tell
<1>2. queue \in Seq(Write) /\ Len(queue) \in Nat /\ Len(calls) \in Nat
  BY DEF IInv, TypeOK
<1>3. /\ new \in Seq(Write) /\ Len(new) = Len(calls)
      /\ \A i \in 1 .. Len(calls) :
           new[i] = [op |-> calls[i], ticket |-> p.ticket, user |-> p.user, post |-> p.post]
  <2>1. \A i \in 1 .. Len(calls) :
          [op |-> calls[i], ticket |-> p.ticket, user |-> p.user, post |-> p.post] \in Write
    BY DEF Task, Write
  <2> QED
    BY <1>2, <2>1
<1> HIDE DEF new
<1>4. /\ DOMAIN queue = 1 .. Len(queue) /\ DOMAIN queue' = 1 .. (Len(queue) + Len(calls))
      /\ \A k \in 1 .. Len(queue) : queue'[k] = queue[k]
      /\ \A i \in 1 .. Len(calls) : queue'[Len(queue) + i] = new[i]
  <2>1. DOMAIN queue = 1 .. Len(queue)
    BY <1>2
  <2>2. queue \o new \in Seq(Write) /\ Len(queue \o new) = Len(queue) + Len(calls)
    BY <1>2, <1>3
  <2>3. DOMAIN queue' = 1 .. (Len(queue) + Len(calls))
    BY <1>1, <2>2
  <2>4. \A k \in 1 .. Len(queue) : queue'[k] = queue[k]
    BY <1>1, <1>2, <1>3
  <2>5. \A i \in 1 .. Len(calls) : queue'[Len(queue) + i] = new[i]
    BY <1>1, <1>2, <1>3
  <2> QED
    BY <2>1, <2>3, <2>4, <2>5
<1> QED
  BY <1>1, <1>2, <1>3, <1>4 DEF Longer, slack, ghosts

LEMMA NotTold ==
  ASSUME NEW n, NEW m, Longer(n, m), NEW s, NEW K,
         \A k \in (n + 1) .. (n + m) : queue'[k].ticket # s \/ queue'[k].op \notin K
  PROVE  Writes(s, K)' = Writes(s, K)
<1>1. \A k : k \in 1 .. (n + m) <=> k \in 1 .. n \/ k \in (n + 1) .. (n + m)
  BY DEF Longer
<1> QED
  BY <1>1 DEF Writes, Longer

LEMMA SameLength ==
  ASSUME NEW n, NEW m, Longer(n, m), NEW s \in Tickets
  PROVE  /\ ById(s)' = ById(s) /\ (Has(live, s)' <=> Has(live, s)) /\ (Has(row, s)' <=> Has(row, s))
         /\ Open1(s)' = Open1(s) /\ Claim1(s)' = Claim1(s) /\ board'[s] = board[s]
         /\ (Writes(s, {"close", "open"})' = Writes(s, {"close", "open"}) /\ LeavesStatus(s)) => LeavesStatus(s)'
         /\ (Writes(s, {"claim"})' = Writes(s, {"claim"}) /\ LeavesCloser(s)) => LeavesCloser(s)'
<1>1. ById(s)' = ById(s) /\ (Has(live, s)' <=> Has(live, s)) /\ (Has(row, s)' <=> Has(row, s)) /\ board'[s] = board[s]
      /\ row'[s] = row[s]
  BY DEF Longer, ById, Has
<1>2. Open1(s)' = Open1(s) /\ Claim1(s)' = Claim1(s)
  BY <1>1 DEF Open1, Claim1, Longer
<1>3. \A K : \A k \in Writes(s, K) : queue'[k] = queue[k]
  BY DEF Writes, Longer
<1>4. ASSUME Writes(s, {"close", "open"})' = Writes(s, {"close", "open"}), LeavesStatus(s) PROVE LeavesStatus(s)'
  BY <1>1, <1>3, <1>4 DEF LeavesStatus
<1>5. ASSUME Writes(s, {"claim"})' = Writes(s, {"claim"}), LeavesCloser(s) PROVE LeavesCloser(s)'
  BY <1>1, <1>3, <1>5 DEF LeavesCloser
<1> QED
  BY <1>1, <1>2, <1>4, <1>5

(* Other tickets hear nothing of it.                                         *)
LEMMA ToldOthers ==
  ASSUME NEW n, NEW m, Longer(n, m), NEW s \in Tickets, NEW q, TicketHolds(s, q),
         \A k \in (n + 1) .. (n + m) : queue'[k].ticket # s
  PROVE  TicketHolds(s, q)'
<1>1. \A K : Writes(s, K)' = Writes(s, K)
  BY NotTold
<1>2. Unknown(s)'
  BY <1>1 DEF TicketHolds, Unknown, Longer, Has
<1>3. ToldStatus(s, q)' /\ ToldCloser(s, q)'
  BY <1>1, SameLength DEF TicketHolds, ToldStatus, ToldCloser
<1>4. Shown(s, q)'
  BY SameLength DEF TicketHolds, Shown
<1>5. Underway(s, q)'
  BY <1>1, SameLength DEF TicketHolds, Underway, Longer
<1>6. Command1(q)' = Command1(q) /\ paid'[s] = paid[s] /\ due'[s] = due[s]
  BY DEF Command1, Longer
<1>7. Covered(s, q)'
  BY <1>1, <1>6, SameLength DEF TicketHolds, Covered, Earned
<1> QED
  BY <1>2, <1>3, <1>4, <1>5, <1>7 DEF TicketHolds

LEMMA TellCloseTurn ==
  ASSUME IInv, NEW n, Longer(n, 1), NEW t \in Tickets, NEW p \in Task, NEW q \in Task, TicketHolds(t, p),
         p.pc = "tellClose", q.pc = Closing(p.cmd), q.cmd = p.cmd,
         queue'[n + 1].op = "close", queue'[n + 1].ticket = t
  PROVE  TicketHolds(t, q)'
<1>1. /\ Has(live, t) /\ Unknown(t) /\ LeavesCloser(t) /\ board[t] = {ById(t).post} \ {0}
      /\ p.cmd \in {"resolve", "own", "macro", "purge"} /\ ById(t).status = "closed" /\ ById(t).post = 0
  BY ByIdType DEF TicketHolds, Underway, ToldCloser, Shown
<1>2. q.pc \in {"ask", "claim"} /\ (q.pc = "claim" <=> q.cmd # "own")
  BY DEF Closing
<1>3. Has(row, t)
  BY <1>1 DEF Unknown, Has, Absent
<1>4. \A k \in (n + 1) .. (n + 1) : k = n + 1
  BY DEF Longer
<1>5. Writes(t, {"claim"})' = Writes(t, {"claim"}) /\ Writes(t, {"pay"})' = Writes(t, {"pay"})
  <2>1. ASSUME NEW K, queue'[n + 1].op \notin K PROVE Writes(t, K)' = Writes(t, K)
    <3>1. PICK m : m = 1
      OBVIOUS
    <3>2. Longer(n, m) /\ \A k \in (n + 1) .. (n + m) : queue'[k].ticket # t \/ queue'[k].op \notin K
      BY <1>4, <2>1, <3>1
    <3> QED
      BY <3>2, NotTold
  <2>2. queue'[n + 1].op \notin {"claim"} /\ queue'[n + 1].op \notin {"pay"}
    OBVIOUS
  <2> QED
    BY <2>1, <2>2, Zenon
<1>6. Unknown(t)'
  BY <1>1, <1>3, SameLength DEF Unknown
<1>7. ToldCloser(t, q)'
  BY <1>1, <1>5, SameLength DEF ToldCloser
<1>8. ToldStatus(t, q)'
  <2>1. n + 1 \in Writes(t, {"close", "open"})'
    BY DEF Writes, Longer
  <2>2. ASSUME NEW k \in Writes(t, {"close", "open"})', \A j \in Writes(t, {"close", "open"})' : j <= k
        PROVE  k = n + 1
    BY <2>1, <2>2 DEF Writes, Longer
  <2>3. row'[t] = row[t] /\ row[t] \in Entry
    BY DEF Longer, IInv, TypeOK
  <2>4. Applied(row'[t], queue'[n + 1]).status = "closed" /\ Applied(row'[t], queue'[n + 1]).post = 0
    BY <2>3 DEF Applied, Closed, Entry
  <2>5. LeavesStatus(t)'
    BY <1>1, <2>1, <2>2, <2>4, SameLength DEF LeavesStatus
  <2> QED
    BY <2>5 DEF ToldStatus
<1>9. Shown(t, q)'
  BY <1>1, <1>2, SameLength DEF Shown
<1>10. Underway(t, q)'
  BY <1>1, <1>2, SameLength DEF Underway
<1>11. Covered(t, q)'
  <2> DEFINE c == Cardinality(Writes(t, {"pay"}))
             o == Open1(t)
             m == Claim1(t)
  <2>1. paid[t] \in Nat /\ due[t] \in Nat /\ c \in Nat /\ o \in {0, 1} /\ m \in {0, 1}
        /\ Command1(p) \in {0, 1} /\ Command1(q) \in {0, 1}
    BY Numbers
  <2>2. /\ paid[t] + c + (o + m + Command1(p)) <= due[t]
        /\ p.cmd = "resolve" => paid[t] + c + 1 <= due[t]
    BY DEF TicketHolds, Covered, Earned
  <2>3. c' = c /\ o' = o /\ m' = m /\ paid'[t] = paid[t] /\ due'[t] = due[t]
    BY <1>5, SameLength DEF Longer
  <2>4. Command1(q) <= Command1(p)
    BY <1>2 DEF Command1
  <2>5. /\ paid'[t] + c' + (o' + m' + Command1(q)) <= due'[t]
        /\ q.cmd = "resolve" => paid'[t] + c' + 1 <= due'[t]
    <3> HIDE DEF c, o, m
    <3> QED
      BY <2>1, <2>2, <2>3, <2>4
  <2> QED
    BY <2>5 DEF Covered, Earned
<1> QED
  BY <1>6, <1>7, <1>8, <1>9, <1>10, <1>11 DEF TicketHolds

LEMMA TellOpenTurn ==
  ASSUME IInv, NEW n, Longer(n, 1), NEW t \in Tickets, NEW p \in Task, NEW q \in Task, TicketHolds(t, p),
         p.pc = "tellOpen", q.pc = "idle",
         queue'[n + 1].op = "open", queue'[n + 1].ticket = t, queue'[n + 1].post = p.post
  PROVE  TicketHolds(t, q)'
<1>1. /\ Has(live, t) /\ Unknown(t) /\ LeavesCloser(t) /\ board[t] = {ById(t).post} \ {0}
      /\ ById(t).status = "open" /\ ById(t).post = p.post
  BY DEF TicketHolds, Underway, ToldCloser, Shown
<1>3. Has(row, t)
  BY <1>1 DEF Unknown, Has, Absent
<1>4. \A k \in (n + 1) .. (n + 1) : k = n + 1
  BY DEF Longer
<1>5. Writes(t, {"claim"})' = Writes(t, {"claim"}) /\ Writes(t, {"pay"})' = Writes(t, {"pay"})
  <2>1. ASSUME NEW K, queue'[n + 1].op \notin K PROVE Writes(t, K)' = Writes(t, K)
    <3>1. PICK m : m = 1
      OBVIOUS
    <3>2. Longer(n, m) /\ \A k \in (n + 1) .. (n + m) : queue'[k].ticket # t \/ queue'[k].op \notin K
      BY <1>4, <2>1, <3>1
    <3> QED
      BY <3>2, NotTold
  <2>2. queue'[n + 1].op \notin {"claim"} /\ queue'[n + 1].op \notin {"pay"}
    OBVIOUS
  <2> QED
    BY <2>1, <2>2, Zenon
<1>6. Unknown(t)'
  BY <1>1, <1>3, SameLength DEF Unknown
<1>7. ToldCloser(t, q)'
  BY <1>1, <1>5, SameLength DEF ToldCloser
<1>8. ToldStatus(t, q)'
  <2>1. n + 1 \in Writes(t, {"close", "open"})'
    BY DEF Writes, Longer
  <2>2. ASSUME NEW k \in Writes(t, {"close", "open"})', \A j \in Writes(t, {"close", "open"})' : j <= k
        PROVE  k = n + 1
    BY <2>1, <2>2 DEF Writes, Longer
  <2>3. row'[t] = row[t] /\ row[t] \in Entry
    BY DEF Longer, IInv, TypeOK
  <2>4. Applied(row'[t], queue'[n + 1]).status = "open" /\ Applied(row'[t], queue'[n + 1]).post = p.post
    BY <2>3 DEF Applied, Entry
  <2>5. LeavesStatus(t)'
    BY <1>1, <2>1, <2>2, <2>4, SameLength DEF LeavesStatus
  <2> QED
    BY <2>5 DEF ToldStatus
<1>9. Shown(t, q)'
  BY <1>1, SameLength DEF Shown
<1>10. Underway(t, q)'
  BY DEF Underway
<1>11. Covered(t, q)'
  <2>1. Command1(q) = 0 /\ Command1(p) = 0
    BY DEF Command1
  <2>2. paid'[t] = paid[t] /\ due'[t] = due[t]
    BY DEF Longer
  <2>3. Command1(q)' = 0
    BY DEF Command1
  <2> QED
    BY <1>5, <2>1, <2>2, <2>3, SameLength DEF TicketHolds, Covered, Earned
<1> QED
  BY <1>6, <1>7, <1>8, <1>9, <1>10, <1>11 DEF TicketHolds

LEMMA TellClaimTurn ==
  ASSUME IInv, NEW n, Longer(n, 2), NEW t \in Tickets, NEW p \in Task, NEW q \in Task, TicketHolds(t, p),
         p.pc = "tellClaim", q.pc = Claiming(p.cmd),
         queue'[n + 1].op = "claim", queue'[n + 1].ticket = t, queue'[n + 1].user = p.user,
         queue'[n + 2].op = "pay", queue'[n + 2].ticket = t
  PROVE  TicketHolds(t, q)'
<1>1. /\ Has(live, t) /\ Unknown(t) /\ LeavesStatus(t) /\ board[t] = {ById(t).post} \ {0}
      /\ p.cmd \in {"resolve", "claim", "macro", "purge"}
      /\ p.cmd # "claim" => ById(t).status = "closed"
      /\ ById(t).closer = p.user
  BY DEF TicketHolds, Underway, ToldStatus, Shown
<1>2. q.pc \in {"ask", "idle"} /\ (q.pc = "ask" => p.cmd # "claim")
  BY DEF Claiming
<1>3. Has(row, t)
  BY <1>1 DEF Unknown, Has, Absent
<1>4. \A k \in (n + 1) .. (n + 2) : k = n + 1 \/ k = n + 2
  BY DEF Longer
<1>5. Writes(t, {"close", "open"})' = Writes(t, {"close", "open"})
  BY <1>4, NotTold
<1>6. Unknown(t)'
  BY <1>1, <1>3, SameLength DEF Unknown
<1>7. ToldStatus(t, q)'
  BY <1>1, <1>5, SameLength DEF ToldStatus
<1>8. ToldCloser(t, q)'
  <2>1. n + 1 \in Writes(t, {"claim"})'
    BY DEF Writes, Longer
  <2>2. ASSUME NEW k \in Writes(t, {"claim"})', \A j \in Writes(t, {"claim"})' : j <= k
        PROVE  k = n + 1
    <3>1. k \in 1 .. (n + 2) /\ n + 1 <= k /\ queue'[k].op = "claim"
      BY <2>1, <2>2 DEF Writes, Longer
    <3>2. k # n + 2
      BY <3>1
    <3> QED
      BY <3>1, <3>2 DEF Longer
  <2>3. row'[t] = row[t] /\ row[t] \in Entry
    BY DEF Longer, IInv, TypeOK
  <2>4. Applied(row'[t], queue'[n + 1]).closer = p.user
    BY <2>3 DEF Applied, Claimed, Entry
  <2>5. LeavesCloser(t)'
    BY <1>1, <2>1, <2>2, <2>4, SameLength DEF LeavesCloser
  <2> QED
    BY <2>5 DEF ToldCloser
<1>9. Shown(t, q)'
  BY <1>1, <1>2, SameLength DEF Shown
<1>10. Underway(t, q)'
  BY <1>1, <1>2, SameLength DEF Underway
<1>11. Covered(t, q)'
  <2> DEFINE W == Writes(t, {"pay"})
             c == Cardinality(W)
             o == Open1(t)
             m == Claim1(t)
  <2>1. paid[t] \in Nat /\ due[t] \in Nat /\ c \in Nat /\ o \in {0, 1} /\ m \in {0, 1}
    BY Numbers
  <2>2. paid[t] + c + (o + m + 1) <= due[t]
    <3>1. Command1(p) = 1
      BY DEF Command1
    <3> QED
      BY <3>1 DEF TicketHolds, Covered, Earned
  <2>3. W' = W \cup {n + 2}
    <3>1. \A k : k \in 1 .. (n + 2) <=> k \in 1 .. n \/ k = n + 1 \/ k = n + 2
      BY DEF Longer
    <3> QED
      BY <3>1 DEF Writes, Longer
  <2>4. n + 2 \notin W /\ IsFiniteSet(W)
    <3>1. W \subseteq 1 .. n /\ n \in Nat
      BY DEF Writes, Longer
    <3>2. IsFiniteSet(W)
      BY WritesType
    <3> HIDE DEF W
    <3> QED
      BY <3>1, <3>2
  <2>5. c' = c + 1
    <3> HIDE DEF W
    <3> QED
      BY <2>3, <2>4, FS_AddElement
  <2>6. o' = o /\ m' = m /\ paid'[t] = paid[t] /\ due'[t] = due[t] /\ Command1(q) = 0
    BY <1>2, SameLength DEF Longer, Command1
  <2>7. paid'[t] + c' + (o' + m' + Command1(q)) <= due'[t]
    <3> HIDE DEF c, o, m
    <3> QED
      BY <2>1, <2>2, <2>5, <2>6
  <2> QED
    BY <1>2, <2>7 DEF Covered, Earned
<1> QED
  BY <1>6, <1>7, <1>8, <1>9, <1>10, <1>11 DEF TicketHolds

LEMMA TellSolo ==
  ASSUME IInv, SoloInv, smooth, NEW h \in Handlers, TellClose(h) \/ TellClaim(h) \/ TellOpen(h)
  PROVE  SoloInv'
<1>1. PICK t \in Tickets, p \in Task : t = task[h].ticket /\ p = task[h]
  BY DEF IInv, TypeOK, Task
<1>2. /\ p.pc \in {"tellClose", "tellClaim", "tellOpen"} /\ old' = old
      /\ p.pc = "tellClose" => Tell(h, "tellClose", <<"close">>, Closing(p.cmd))
      /\ p.pc = "tellClaim" => Tell(h, "tellClaim", <<"claim", "pay">>, Claiming(p.cmd))
      /\ p.pc = "tellOpen" => Tell(h, "tellOpen", <<"open">>, "idle")
  BY <1>1 DEF TellClose, TellClaim, TellOpen, Tell
<1>3. TicketHolds(t, p) /\ ~p.stale /\ Busy(h)
  BY <1>1, <1>2, InHand
<1>4. PICK pc \in Steps :
        /\ Goto(h, pc)
        /\ \E n, m : Longer(n, m) /\ \A k \in (n + 1) .. (n + m) : queue'[k].ticket = t
        /\ \A q \in Task : q.pc = pc /\ (pc # "idle" => q.cmd = p.cmd) => TicketHolds(t, q)'
  <2>1. CASE p.pc = "tellClose"
    <3> DEFINE n == Len(queue)
               pc == Closing(p.cmd)
               calls == <<"close">>
    <3>1. calls \in Seq(Ops) /\ Len(calls) = 1 /\ calls[1] = "close" /\ 1 \in 1 .. 1 /\ n \in Nat
      BY DEF Ops, IInv, TypeOK
    <3>2. Tell(h, "tellClose", calls, pc)
      BY <1>2, <2>1
    <3> HIDE DEF calls
    <3>3. Longer(n, 1) /\ queue'[n + 1] = [op |-> "close", ticket |-> t, user |-> p.user, post |-> p.post]
      BY <1>1, <3>1, <3>2, Queued
    <3>4. pc \in Steps /\ pc # "idle" /\ Goto(h, pc)
      BY <3>2 DEF Tell, Closing, Steps
    <3> HIDE DEF n
    <3>5. \A q \in Task : q.pc = pc /\ q.cmd = p.cmd => TicketHolds(t, q)'
      BY <1>3, <2>1, <3>3, TellCloseTurn
    <3>6. \A k \in (n + 1) .. (n + 1) : queue'[k].ticket = t
      BY <3>1, <3>3
    <3> HIDE DEF pc
    <3> QED
      BY <3>3, <3>4, <3>5, <3>6
  <2>2. CASE p.pc = "tellOpen"
    <3> DEFINE n == Len(queue)
               calls == <<"open">>
    <3>1. calls \in Seq(Ops) /\ Len(calls) = 1 /\ calls[1] = "open" /\ 1 \in 1 .. 1 /\ n \in Nat
      BY DEF Ops, IInv, TypeOK
    <3>2. Tell(h, "tellOpen", calls, "idle")
      BY <1>2, <2>2
    <3> HIDE DEF calls
    <3>3. Longer(n, 1) /\ queue'[n + 1] = [op |-> "open", ticket |-> t, user |-> p.user, post |-> p.post]
      BY <1>1, <3>1, <3>2, Queued
    <3>4. "idle" \in Steps /\ Goto(h, "idle")
      BY <3>2 DEF Tell, Steps
    <3> HIDE DEF n
    <3>5. \A q \in Task : q.pc = "idle" => TicketHolds(t, q)'
      BY <1>3, <2>2, <3>3, TellOpenTurn
    <3>6. \A k \in (n + 1) .. (n + 1) : queue'[k].ticket = t
      BY <3>1, <3>3
    <3> QED
      BY <3>3, <3>4, <3>5, <3>6
  <2>3. CASE p.pc = "tellClaim"
    <3> DEFINE n == Len(queue)
               pc == Claiming(p.cmd)
               calls == <<"claim", "pay">>
    <3>1. calls \in Seq(Ops) /\ Len(calls) = 2 /\ calls[1] = "claim" /\ calls[2] = "pay" /\ n \in Nat
          /\ 1 \in 1 .. 2 /\ 2 \in 1 .. 2
      BY DEF Ops, IInv, TypeOK
    <3>2. Tell(h, "tellClaim", calls, pc)
      BY <1>2, <2>3
    <3> HIDE DEF calls
    <3>3. /\ Longer(n, 2) /\ queue'[n + 1] = [op |-> "claim", ticket |-> t, user |-> p.user, post |-> p.post]
          /\ queue'[n + 2] = [op |-> "pay", ticket |-> t, user |-> p.user, post |-> p.post]
      <4>1. \A i \in 1 .. 2 :
              queue'[n + i] = [op |-> calls[i], ticket |-> t, user |-> p.user, post |-> p.post]
        BY <1>1, <3>1, <3>2, Queued
      <4>2. Longer(n, 2)
        BY <1>1, <3>1, <3>2, Queued
      <4> HIDE DEF n
      <4> QED
        BY <3>1, <4>1, <4>2
    <3>4. pc \in Steps /\ Goto(h, pc)
      BY <3>2 DEF Tell, Claiming, Steps
    <3> HIDE DEF n
    <3>5. \A q \in Task : q.pc = pc => TicketHolds(t, q)'
      BY <1>3, <2>3, <3>3, TellClaimTurn
    <3>6. \A k \in (n + 1) .. (n + 2) : queue'[k].ticket = t
      BY <3>1, <3>3
    <3> HIDE DEF pc
    <3> QED
      BY <3>3, <3>4, <3>5, <3>6
  <2> QED
    BY <1>2, <2>1, <2>2, <2>3
<1>5. PICK q \in Task :
           /\ task'[h] = q /\ (\A g \in Handlers \ {h} : task'[g] = task[g])
           /\ q.pc = pc /\ (pc = "idle" => q = Rest)
           /\ pc # "idle" => /\ q.ticket = task[h].ticket /\ q.stale = task[h].stale
                             /\ q.cmd = task[h].cmd /\ q.post = task[h].post
                             /\ q.user = task[h].user
  BY <1>4, GotoTask
<1>6. TicketHolds(t, q)'
  BY <1>1, <1>4, <1>5
<1>7. \A s \in Tickets \ {t} : TicketHolds(s, Rest) => TicketHolds(s, Rest)'
  BY <1>4, ToldOthers
<1> QED
  BY <1>1, <1>2, <1>3, <1>5, <1>6, <1>7, GoesOn

------------------------------------------------------------------------------
(* The worker does the first write                                           *)

(* The queue is shorter by its first write.                                  *)
Shorter(n, w) ==
  /\ n \in Nat /\ w \in Write /\ queue[1] = w
  /\ DOMAIN queue = 1 .. (n + 1) /\ DOMAIN queue' = 1 .. n
  /\ \A k \in 1 .. n : queue'[k] = queue[k + 1]

LEMMA Dequeued ==
  ASSUME IInv, queue # <<>>, queue' = Tail(queue)
  PROVE  \E n : Shorter(n, Head(queue))
<1> DEFINE n == Len(queue) - 1
<1>1. queue \in Seq(Write) /\ n \in Nat /\ Len(queue) = n + 1
  BY DEF IInv, TypeOK
<1>2. Head(queue) \in Write /\ queue[1] = Head(queue)
  BY <1>1
<1>3. Tail(queue) \in Seq(Write) /\ Len(Tail(queue)) = n /\ \A k \in 1 .. n : Tail(queue)[k] = queue[k + 1]
  BY <1>1
<1>4. DOMAIN queue = 1 .. (n + 1)
  BY <1>1
<1>5. DOMAIN queue' = 1 .. n
  BY <1>1, <1>3
<1> HIDE DEF n
<1>6. Shorter(n, Head(queue))
  BY <1>1, <1>2, <1>3, <1>4, <1>5 DEF Shorter
<1> QED
  BY <1>6

LEMMA WritesShift ==
  ASSUME IInv, NEW n, NEW w, Shorter(n, w), NEW s, NEW K
  PROVE  /\ \A k : k \in Writes(s, K)' <=> k \in 1 .. n /\ k + 1 \in Writes(s, K)
         /\ \A j \in Writes(s, K) : j = 1 \/ (j - 1 \in Writes(s, K)' /\ j = (j - 1) + 1)
         /\ 1 \in Writes(s, K) <=> w.ticket = s /\ w.op \in K
         /\ Cardinality(Writes(s, K)') = Cardinality(Writes(s, K) \ {1})
<1> DEFINE W == Writes(s, K)
           V == {k \in 1 .. n : k + 1 \in W}
<1>1. W' = V
  BY DEF Writes, Shorter
<1>2. \A j \in W : j = 1 \/ (j - 1 \in V /\ j = (j - 1) + 1)
  BY DEF Writes, Shorter
<1>3. 1 \in W <=> w.ticket = s /\ w.op \in K
  BY DEF Writes, Shorter
<1>4. Cardinality(V) = Cardinality(W \ {1})
  <2>1. W \subseteq 1 .. (n + 1) /\ n \in Nat
    BY DEF Writes, Shorter
  <2> HIDE DEF W
  <2>2. IsFiniteSet(V)
    <3>1. IsFiniteSet(1 .. n) /\ V \subseteq 1 .. n
      BY <2>1, FS_Interval
    <3> QED
      BY <3>1, FS_Subset
  <2> DEFINE f == [k \in V |-> k + 1]
  <2>3. f \in Bijection(V, W \ {1})
    <3>1. f \in [V -> W \ {1}]
      BY <2>1
    <3>2. \A j, k \in V : f[j] = f[k] => j = k
      BY <2>1
    <3>3. \A j \in W \ {1} : \E k \in V : f[k] = j
      <4>1. ASSUME NEW j \in W \ {1} PROVE j - 1 \in V /\ f[j - 1] = j
        BY <2>1
      <4> QED
        BY <4>1
    <3> HIDE DEF f, V
    <3> QED
      BY <3>1, <3>2, <3>3 DEF Bijection, Injection, Surjection, IsInjective
  <2> HIDE DEF V
  <2> QED
    BY <2>2, <2>3, FS_Bijection DEF ExistsBijection
<1> HIDE DEF W
<1>5. \A k : k \in V <=> k \in 1 .. n /\ k + 1 \in W
  OBVIOUS
<1> HIDE DEF V
<1> QED
  BY <1>1, <1>2, <1>3, <1>4, <1>5 DEF W

LEMMA QueuedIs ==
  ASSUME IInv, NEW s, NEW K, NEW k \in Writes(s, K)
  PROVE  queue[k] \in Write /\ queue[k].op \in K
<1>1. queue \in Seq(Write) /\ k \in 1 .. Len(queue)
  BY DEF Writes, IInv, TypeOK
<1>2. queue[k] \in Write
  BY <1>1
<1> QED
  BY <1>2 DEF Writes

(* What a write sets, whatever the row was.                                  *)
LEMMA AppliedSets ==
  ASSUME NEW e \in Entry, NEW w \in Write
  PROVE  /\ w.op = "close" => /\ Applied(e, w).status = "closed" /\ Applied(e, w).post = 0
                              /\ Applied(e, w).closer = e.closer
         /\ w.op = "open" => /\ Applied(e, w).status = "open" /\ Applied(e, w).post = w.post
                             /\ Applied(e, w).closer = e.closer
         /\ w.op = "claim" => /\ Applied(e, w).status = e.status /\ Applied(e, w).post = e.post
                              /\ Applied(e, w).closer = w.user
         /\ w.op = "pay" => Applied(e, w) = e
         /\ w.op \in Ops
<1>1. w.op \in Ops
  BY DEF Write
<1>2. CASE w.op = "close"
  BY <1>1, <1>2 DEF Applied, Closed, Entry
<1>3. CASE w.op = "open"
  BY <1>1, <1>3 DEF Applied, Entry
<1>4. CASE w.op = "claim"
  BY <1>1, <1>4 DEF Applied, Claimed, Entry
<1>5. CASE w.op = "pay"
  BY <1>1, <1>5 DEF Applied
<1> QED
  BY <1>1, <1>2, <1>3, <1>4, <1>5 DEF Ops

LEMMA WrittenHolds ==
  ASSUME IInv, Write1, NEW n, NEW w, w = Head(queue), Shorter(n, w), NEW t \in Tickets, NEW q, TicketHolds(t, q)
  PROVE  TicketHolds(t, q)'
<1>1. /\ UNCHANGED <<live, board, prompted, due>> /\ w \in Write /\ w.ticket \in Tickets /\ row[t] \in Entry
      /\ t # w.ticket => row'[t] = row[t]
      /\ t = w.ticket => row'[t] = Applied(row[t], w)
  BY DEF Write1, slack, ghosts, Shorter, Write, IInv, TypeOK
<1>2. Unknown(t)
  BY DEF TicketHolds
<1>3. t = w.ticket => Has(live, t) /\ Has(row, t) /\ Writes(t, Ops) # {}
  <2>1. t = w.ticket => 1 \in Writes(t, Ops)
    BY <1>1, WritesShift, AppliedSets
  <2> QED
    BY <1>2, <2>1 DEF Unknown, Has, Absent
<1>4. (Has(row, t)' <=> Has(row, t)) /\ (Has(live, t)' <=> Has(live, t))
  <2>1. t = w.ticket => row'[t].status # "absent"
    BY <1>1, <1>3, AppliedSets DEF Has, Ops
  <2> QED
    BY <1>1, <1>3, <2>1 DEF Has
<1>5. ById(t)' = ById(t)
  BY <1>1, <1>3, <1>4 DEF ById
<1>6. \A K : Writes(t, K) = {} => Writes(t, K)' = {}
  BY WritesShift
<1>7. Unknown(t)'
  BY <1>1, <1>2, <1>3, <1>4, <1>6 DEF Unknown
<1>8. LeavesStatus(t) => LeavesStatus(t)'
  <2> DEFINE W == Writes(t, {"close", "open"})
  <2>1. SUFFICES ASSUME LeavesStatus(t) PROVE LeavesStatus(t)'
    OBVIOUS
  <2>2. /\ \A k : k \in W' <=> k \in 1 .. n /\ k + 1 \in W
        /\ \A j \in W : j = 1 \/ (j - 1 \in W' /\ j = (j - 1) + 1)
        /\ 1 \in W <=> w.ticket = t /\ w.op \in {"close", "open"}
    BY WritesShift
  <2>3. W \subseteq 1 .. (n + 1) /\ n \in Nat /\ queue[1] = w /\ \A k \in 1 .. n : queue'[k] = queue[k + 1]
    BY DEF Writes, Shorter
  <2>4. /\ W = {} => row[t].status = ById(t).status /\ row[t].post = ById(t).post
        /\ \A k \in W : (\A j \in W : j <= k) =>
             /\ Applied(row[t], queue[k]).status = ById(t).status
             /\ Applied(row[t], queue[k]).post = ById(t).post
    BY <2>1 DEF LeavesStatus
  <2>5. ASSUME W' = {} PROVE row'[t].status = ById(t).status /\ row'[t].post = ById(t).post
    <3>1. CASE 1 \in W
      <4>1. \A j \in W : j = 1
        BY <2>2, <2>5
      <4>2. Applied(row[t], w).status = ById(t).status /\ Applied(row[t], w).post = ById(t).post
        BY <2>3, <2>4, <3>1, <4>1
      <4> QED
        BY <1>1, <2>2, <3>1, <4>2
    <3>2. CASE 1 \notin W
      <4>1. W = {}
        BY <2>2, <2>5, <3>2
      <4>2. row'[t].status = row[t].status /\ row'[t].post = row[t].post
        BY <1>1, <2>2, <3>2, AppliedSets DEF Ops
      <4> QED
        BY <2>4, <4>1, <4>2
    <3> QED
      BY <3>1, <3>2
  <2>6. ASSUME NEW k \in W', \A j \in W' : j <= k
        PROVE  /\ Applied(row'[t], queue'[k]).status = ById(t).status
               /\ Applied(row'[t], queue'[k]).post = ById(t).post
    <3>1. k \in 1 .. n /\ k + 1 \in W /\ queue'[k] = queue[k + 1]
      BY <2>2, <2>3, <2>6
    <3>2. \A j \in W : j <= k + 1
      BY <2>2, <2>3, <2>6, <3>1
    <3>3. /\ Applied(row[t], queue[k + 1]).status = ById(t).status
          /\ Applied(row[t], queue[k + 1]).post = ById(t).post
      BY <2>4, <3>1, <3>2
    <3>4. queue[k + 1] \in Write /\ queue[k + 1].op \in {"close", "open"} /\ row'[t] \in Entry
      <4>1. queue[k + 1].op \in {"close", "open"} /\ queue[k + 1] \in Write
        BY <3>1, QueuedIs
      <4>2. row' \in [Tickets -> Entry]
        BY WriteKeeps DEF IInv, TypeOK
      <4> QED
        BY <4>1, <4>2
    <3> QED
      BY <1>1, <3>1, <3>3, <3>4, AppliedSets
  <2> QED
    BY <1>5, <2>5, <2>6 DEF LeavesStatus
<1>9. LeavesCloser(t) => LeavesCloser(t)'
  <2> DEFINE W == Writes(t, {"claim"})
  <2>1. SUFFICES ASSUME LeavesCloser(t) PROVE LeavesCloser(t)'
    OBVIOUS
  <2>2. /\ \A k : k \in W' <=> k \in 1 .. n /\ k + 1 \in W
        /\ \A j \in W : j = 1 \/ (j - 1 \in W' /\ j = (j - 1) + 1)
        /\ 1 \in W <=> w.ticket = t /\ w.op \in {"claim"}
    BY WritesShift
  <2>3. W \subseteq 1 .. (n + 1) /\ n \in Nat /\ queue[1] = w /\ \A k \in 1 .. n : queue'[k] = queue[k + 1]
    BY DEF Writes, Shorter
  <2>4. /\ W = {} => row[t].closer = ById(t).closer
        /\ \A k \in W : (\A j \in W : j <= k) => Applied(row[t], queue[k]).closer = ById(t).closer
    BY <2>1 DEF LeavesCloser
  <2>5. ASSUME W' = {} PROVE row'[t].closer = ById(t).closer
    <3>1. CASE 1 \in W
      <4>1. \A j \in W : j = 1
        BY <2>2, <2>5
      <4>2. Applied(row[t], w).closer = ById(t).closer
        BY <2>3, <2>4, <3>1, <4>1
      <4> QED
        BY <1>1, <2>2, <3>1, <4>2
    <3>2. CASE 1 \notin W
      <4>1. W = {}
        BY <2>2, <2>5, <3>2
      <4>2. row'[t].closer = row[t].closer
        BY <1>1, <2>2, <3>2, AppliedSets DEF Ops
      <4> QED
        BY <2>4, <4>1, <4>2
    <3> QED
      BY <3>1, <3>2
  <2>6. ASSUME NEW k \in W', \A j \in W' : j <= k
        PROVE  Applied(row'[t], queue'[k]).closer = ById(t).closer
    <3>1. k \in 1 .. n /\ k + 1 \in W /\ queue'[k] = queue[k + 1]
      BY <2>2, <2>3, <2>6
    <3>2. \A j \in W : j <= k + 1
      BY <2>2, <2>3, <2>6, <3>1
    <3>3. Applied(row[t], queue[k + 1]).closer = ById(t).closer
      BY <2>4, <3>1, <3>2
    <3>4. queue[k + 1] \in Write /\ queue[k + 1].op = "claim" /\ row'[t] \in Entry
      <4>1. queue[k + 1].op \in {"claim"} /\ queue[k + 1] \in Write
        BY <3>1, QueuedIs
      <4>2. row' \in [Tickets -> Entry]
        BY WriteKeeps DEF IInv, TypeOK
      <4> QED
        BY <4>1, <4>2
    <3> QED
      BY <1>1, <3>1, <3>3, <3>4, AppliedSets
  <2> QED
    BY <1>5, <2>5, <2>6 DEF LeavesCloser
<1>10. ToldStatus(t, q)' /\ ToldCloser(t, q)' /\ Shown(t, q)'
  BY <1>1, <1>5, <1>8, <1>9 DEF TicketHolds, ToldStatus, ToldCloser, Shown
<1>11. Underway(t, q)'
  <2>1. q.pc = "cache" => row'[t] = row[t]
    BY <1>1, <1>3 DEF TicketHolds, Underway
  <2> QED
    BY <1>1, <1>4, <1>5, <1>6, <2>1 DEF TicketHolds, Underway
<1>12. \A m : Earned(t, m) => Earned(t, m)'
  <2> DEFINE W == Writes(t, {"pay"})
             a == Cardinality(W)
             b == Cardinality(W \ {1})
  <2>1. /\ Cardinality(W') = b
        /\ 1 \in W <=> w.ticket = t /\ w.op = "pay"
    <3>1. /\ Cardinality(W') = b
          /\ 1 \in W <=> w.ticket = t /\ w.op \in {"pay"}
      BY WritesShift
    <3> QED
      BY <3>1
  <2>2. IsFiniteSet(W) /\ a \in Nat /\ paid[t] \in Nat /\ due'[t] = due[t] /\ paid \in [Tickets -> Nat]
    BY <1>1, WritesType DEF IInv, TypeOK
  <2>3. paid' = IF w.op = "pay" THEN [paid EXCEPT ![w.ticket] = @ + 1] ELSE paid
    BY DEF Write1
  <2>4. paid'[t] + Cardinality(W') = paid[t] + a
    <3> HIDE DEF W
    <3>1. CASE 1 \in W
      <4>1. b = a - 1
        BY <2>2, <3>1, FS_RemoveElement
      <4>2. paid'[t] = paid[t] + 1
        BY <1>1, <2>1, <2>2, <2>3, <3>1
      <4> HIDE DEF a, b
      <4> QED
        BY <2>1, <2>2, <4>1, <4>2
    <3>2. CASE 1 \notin W
      <4>1. W \ {1} = W
        BY <3>2
      <4>2. paid'[t] = paid[t]
        BY <1>1, <2>1, <2>2, <2>3, <3>2
      <4> QED
        BY <2>1, <4>1, <4>2
    <3> QED
      BY <3>1, <3>2
  <2> QED
    BY <2>2, <2>4 DEF Earned
<1>13. Open1(t)' = Open1(t) /\ Claim1(t)' = Claim1(t)
  BY <1>1, <1>5 DEF Open1, Claim1
<1>14. Covered(t, q)'
  BY <1>12, <1>13 DEF TicketHolds, Covered
<1> QED
  BY <1>7, <1>10, <1>11, <1>14 DEF TicketHolds

LEMMA WriteSolo ==
  ASSUME IInv, SoloInv, smooth, Write1
  PROVE  SoloInv'
<1>1. PICK n, w : w = Head(queue) /\ Shorter(n, w)
  BY Dequeued DEF Write1
<1>2. task' = task /\ old' = old
  BY DEF Write1
<1> QED
  BY <1>1, <1>2, WrittenHolds, Stays

------------------------------------------------------------------------------
LEMMA SoloInit == Init => SoloInv
<1> SUFFICES ASSUME Init PROVE SoloInv
  OBVIOUS
<1>1. \A h \in Handlers : task[h].pc = "idle"
  BY RestIs DEF Init
<1>2. ASSUME NEW t \in Tickets PROVE TicketHolds(t, Rest)
  <2>1. row[t] = Absent /\ live[t] = Absent /\ board[t] = {} /\ t \notin prompted /\ paid[t] = 0 /\ due[t] = 0
        /\ Absent.status = "absent" /\ Absent.post = 0
    BY DEF Init, Absent
  <2>2. \A K : Writes(t, K) = {}
    BY DEF Writes, Init
  <2>3. ById(t) = Absent
    BY <2>1 DEF ById
  <2>4. Unknown(t)
    BY <2>1, <2>2 DEF Unknown
  <2>5. ToldStatus(t, Rest) /\ ToldCloser(t, Rest)
    BY <2>1, <2>2, <2>3 DEF ToldStatus, ToldCloser, LeavesStatus, LeavesCloser
  <2>6. Shown(t, Rest)
    BY <2>1, <2>3, RestIs DEF Shown
  <2>7. Underway(t, Rest)
    BY RestIs DEF Underway
  <2>8. Open1(t) = 0 /\ Claim1(t) = 0 /\ Command1(Rest) = 0
    BY <2>1, <2>3, RestIs DEF Open1, Claim1, Command1
  <2>9. Cardinality(Writes(t, {"pay"})) = 0
    BY <2>2, FS_EmptySet
  <2>10. Covered(t, Rest)
    BY <2>1, <2>8, <2>9, RestIs DEF Covered, Earned
  <2> QED
    BY <2>4, <2>5, <2>6, <2>7, <2>10 DEF TicketHolds
<1>3. \A t \in Tickets : old[t] = Absent
  BY DEF Init
<1> QED
  BY <1>1, <1>2, <1>3 DEF SoloInv, Busy

LEMMA SoloStep == IInv /\ SoloInv /\ [Next]_vars => SoloInv'
<1> SUFFICES ASSUME IInv, SoloInv, [Next]_vars, smooth' PROVE SoloInv'
  BY DEF SoloInv
<1>1. CASE UNCHANGED vars
  <2>1. task' = task /\ old' = old /\ smooth /\ \A s \in Tickets : Untouched(s)
    BY <1>1 DEF vars, slack, ghosts, Untouched
  <2> QED
    BY <2>1, StillHolds, Stays
<1>2. ASSUME NEW h \in Handlers, Arrive(h) PROVE SoloInv'
  BY <1>2, ArriveSolo
<1>3. ASSUME NEW h \in Handlers, Step(h) \/ Abort(h) PROVE SoloInv'
  <2>1. smooth
    BY <1>3 DEF Step, Save, CacheNew, Unpost, Close, ClaimCached, Post, Open, TellClose, TellClaim, TellOpen,
       Tell, Ask, Button, Prompt, Abort, ghosts
  <2> QED
    BY <1>3, <2>1, SaveSolo, CacheNewSolo, UnpostSolo, CacheOpsSolo, PostSolo, TellSolo, AskSolo, PromptSolo DEF Step
<1>4. ASSUME NEW t \in Tickets, Look(t) PROVE SoloInv'
  BY <1>4, LookSolo DEF Look, ghosts
<1>5. CASE Write1
  BY <1>5, WriteSolo DEF Write1, ghosts
<1>6. ~WriteFails /\ ~Restart
  BY DEF WriteFails, Restart
<1> QED
  BY <1>1, <1>2, <1>3, <1>4, <1>5, <1>6 DEF Next

(* For any number of tickets, users and threads: as long as handlers do not  *)
(* overlap and nothing fails, queue and table lead to what the cache shows,  *)
(* and the channel has the open tickets, each by its message                 *)
(* (cache.py:110-139, relay.py:252-283, 308-322).                            *)
THEOREM TableFollowsCache == Spec => []TicketAgrees
<1>1. SoloInv => TicketAgrees
  <2> SUFFICES ASSUME SoloInv, smooth, Quiet, NEW t \in Tickets
               PROVE  LeavesStatus(t) /\ LeavesCloser(t) /\ board[t] = {ById(t).post} \ {0}
    BY DEF TicketAgrees
  <2>1. TicketHolds(t, Rest)
    BY DEF SoloInv, Quiet, Busy
  <2> QED
    BY <2>1, RestIs DEF TicketHolds, ToldStatus, ToldCloser, Shown
<1>2. IInv /\ SoloInv /\ [Next]_vars => (IInv /\ SoloInv)'
  BY InvStep, SoloStep
<1>3. Init => IInv /\ SoloInv
  BY InvInit, SoloInit
<1> QED
  BY <1>1, <1>2, <1>3, PTL DEF Spec

(* As long as handlers do not overlap and nothing fails, no mix of resolving,*)
(* reopening, closing and claiming a ticket earns more stardust than its     *)
(* openings and the commands that ask for no status                          *)
(* (handlers.py:156-209, relay.py:188-213).                                  *)
THEOREM NoOpeningPaidTwice == Spec => []PaidPerOpening
<1>1. IInv /\ SoloInv => PaidPerOpening
  <2> SUFFICES ASSUME IInv, SoloInv, smooth, NEW t \in Tickets
               PROVE  paid[t] + Cardinality(Writes(t, {"pay"})) <= due[t]
    BY DEF PaidPerOpening
  <2>1. PICK q : TicketHolds(t, q)
    BY DEF SoloInv
  <2> QED
    BY <2>1, Numbers DEF TicketHolds, Covered, Earned
<1>2. IInv /\ SoloInv /\ [Next]_vars => (IInv /\ SoloInv)'
  BY InvStep, SoloStep
<1>3. Init => IInv /\ SoloInv
  BY InvInit, SoloInit
<1> QED
  BY <1>1, <1>2, <1>3, PTL DEF Spec
=============================================================================
