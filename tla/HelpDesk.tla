------------------------------ MODULE HelpDesk ------------------------------
(***************************************************************************)
(* One ticket between the dashboard and the bot that answers on its bridge   *)
(* (deprecated-bot/Source).  The dashboard writes the row and then calls the *)
(* bot; the bot answers from a cache that nothing expires and writes the row *)
(* after it; both decorate the two Slack threads.  A handler is the list of  *)
(* what it still has to do, and handlers take turns after every call.        *)
(***************************************************************************)
EXTENDS Naturals, FiniteSets, Sequences

LOCAL INSTANCE FiniteSetsExt

CONSTANTS
  Helpers,   \* staff who use Slack
  Clicker,   \* staff who use the dashboard
  Vacant,
  Mates,     \* staff who may be assigned
  DeskJobs,  \* slots for handlers in progress
  MaxJobs,   \* bound: handlers begun
  MaxMixed   \* bound: handlers begun while others are in progress

VARIABLES
  ticket,   \* the row: status, closedBy, assignees
  known,    \* the bot's cache of it
  threads,  \* Slack: check mark and open mark on the two threads, what the asker was told last
  pushed,   \* [Mates -> BOOLEAN]: the last push said that the ticket is theirs
  duty,      \* [DeskJobs -> ...]: what a handler still has to do
  hired,    \* handlers begun
  setbacks   \* history: what went wrong so far

deskVars == <<ticket, known, threads, pushed, duty, hired, setbacks>>

Status == {"open", "closed"}
Places == {"staff", "user"}
Unknown == [status |-> "unknown", closedBy |-> Vacant]

(* A handler's list of steps; <<"try", "">> and <<"end", "">> enclose what an   *)
(* except clause guards.                                                    *)
Try(steps) == <<<<"try", "">>>> \o steps \o <<<<"end", "">>>>
CloseIt == <<<<"cache", "closed">>, <<"row", "closed">>>>
OpenIt == <<<<"cache", "open">>, <<"row", "open">>>>
TakeIt == <<<<"claim", "cache">>, <<"claim", "row">>>>
TellClosed == <<<<"tell", "closed">>>>
Checks == <<<<"check", "staff">>, <<"check", "user">>>>
Unfrog == Try(<<<<"unfrog", "user">>, <<"unfrog", "staff">>>>)

(* What each handler does once it has found the ticket with this status; a    *)
(* detected answer and a macro are sent before the ticket is closed.         *)
BridgeCloseUncached == TellClosed \o Checks  \* fault: the cache and its write are left out
BridgeClose == CloseIt \o TellClosed \o Checks
ButtonClose(s) == IF s = "open" THEN CloseIt \o TakeIt \o TellClosed \o Checks \o Unfrog ELSE <<>>
DetectedClose(s) == ButtonClose(s)
MacroClose(s) == IF s = "closed" THEN <<>> ELSE ButtonClose("open")
OwnerClose(s) == IF s = "open" THEN CloseIt \o TellClosed \o Unfrog \o Checks ELSE <<>>
CommandClose(s) ==
  IF s = "open" THEN CloseIt \o TakeIt \o Try(<<<<"check", "staff">>>>) \o Try(<<<<"check", "user">>>>)
                       \o Unfrog \o TellClosed
                ELSE <<>>
Reopen ==
  OpenIt \o <<<<"tell", "open">>, <<"uncheck", "staff">>, <<"uncheck", "user">>,
            <<"frog", "staff">>, <<"frog", "user">>>>
ClaimButton(by) == IF by = Vacant THEN TakeIt ELSE <<>>

BotKinds == {"button", "detected", "macro", "owner", "command", "reopen", "claim"}

Plan(kind, found) ==
  CASE kind = "dashboard" -> BridgeClose
    [] kind = "button" -> ButtonClose(found.status)
    [] kind = "detected" -> DetectedClose(found.status)
    [] kind = "macro" -> MacroClose(found.status)
    [] kind = "owner" -> OwnerClose(found.status)
    [] kind = "command" -> CommandClose(found.status)
    [] kind = "reopen" -> Reopen
    [] kind = "claim" -> ClaimButton(found.closedBy)

Marks(rest) == {i \in DOMAIN rest : rest[i][1] \in {"try", "end"}}
Tidy(rest) ==
  LET calls == DOMAIN rest \ Marks(rest)
  IN IF calls = {} THEN <<>> ELSE SubSeq(rest, Min(calls), Len(rest))

(* An exception ends the try block it happens in, or the handler.           *)
AfterFailure(rest) ==
  LET marks == Marks(rest)
  IN IF marks # {} /\ rest[Min(marks)][1] = "end"
       THEN Tidy(SubSeq(rest, Min(marks) + 1, Len(rest))) ELSE <<>>

NoJob == [kind |-> "none", rest |-> <<>>, who |-> Vacant, got |-> Unknown, set |-> "unknown",
          old |-> {}, new |-> {}]

DeskTypeOK ==
  /\ ticket \in [status : Status, closedBy : Helpers \cup {Clicker, Vacant}, assignees : SUBSET Mates]
  /\ known \in [status : Status \cup {"unknown"}, closedBy : Helpers \cup {Clicker, Vacant}]
  /\ threads \in [check : SUBSET Places, frog : SUBSET Places, told : Status]
  /\ pushed \in [Mates -> BOOLEAN]
  /\ \A h \in DeskJobs : duty[h].rest = <<>> => duty[h] = NoJob
  /\ hired \in 0 .. MaxJobs
  /\ setbacks \subseteq {"overtaken", "db", "bridge", "slack"}

(* A new ticket: both threads carry the open mark.                          *)
DeskInit ==
  /\ ticket = [status |-> "open", closedBy |-> Vacant, assignees |-> {}]
  /\ known = Unknown
  /\ threads = [check |-> {}, frog |-> Places, told |-> "open"]
  /\ pushed = [m \in Mates |-> FALSE]
  /\ duty = [h \in DeskJobs |-> NoJob]
  /\ hired = 0 /\ setbacks = {}

------------------------------------------------------------------------------
(* Handlers begin, and find the ticket                                       *)

MayHire(h) ==
  /\ duty[h].kind = "none" /\ hired < MaxJobs
  /\ hired < MaxMixed \/ \A g \in DeskJobs : duty[g].kind = "none"

Hire(h, kind, who, rest) ==
  /\ MayHire(h)
  /\ hired' = hired + 1
  /\ duty' = [duty EXCEPT ![h] = [NoJob EXCEPT !.kind = kind, !.who = who, !.rest = rest]]
  /\ UNCHANGED <<ticket, known, threads, pushed, setbacks>>

(* A click or a command in Slack.                                           *)
BotBegins(h, kind, who) == kind \in BotKinds /\ Hire(h, kind, who, <<<<"look", "">>>>)

(* CloseIt on the dashboard: the row first, whatever its status, then the bot. *)
DashBegins(h) == Hire(h, "dashboard", Clicker, <<<<"write", "">>, <<"look", "">>>>)

Continue(h, rest, set) ==
  duty' = [duty EXCEPT ![h] = IF rest = <<>> THEN NoJob ELSE [@ EXCEPT !.rest = rest, !.set = set]]
Planned(h, found) ==
  LET rest == Plan(duty[h].kind, found)
  IN duty' = [duty EXCEPT ![h] = IF rest = <<>> THEN NoJob
                ELSE [NoJob EXCEPT !.kind = "planned", !.who = duty[h].who, !.rest = rest]]
At(h, op) == duty[h].rest # <<>> /\ Head(duty[h].rest)[1] = op
Arg(h) == Head(duty[h].rest)[2]
Rest(h) == Tidy(Tail(duty[h].rest))
Setback(ms) == setbacks' = setbacks \cup ms

DashWrite(h) ==
  /\ At(h, "write")
  /\ ticket' = [ticket EXCEPT !.status = "closed", !.closedBy = Clicker]
  /\ Continue(h, Rest(h), duty[h].set)
  /\ UNCHANGED <<known, threads, pushed, hired, setbacks>>

(* Errors of the call are swallowed.                                        *)
BridgeFails(h) ==
  /\ duty[h].kind = "dashboard" /\ At(h, "look")
  /\ Continue(h, <<>>, "unknown")
  /\ Setback({"bridge"})
  /\ UNCHANGED <<ticket, known, threads, pushed, hired>>

(* From the cache, or else from the table.                                  *)
Look(h) ==
  /\ At(h, "look")
  /\ IF known # Unknown
       THEN Planned(h, known)
       ELSE duty' = [duty EXCEPT ![h].rest = <<<<"fill", "">>>>,
                               ![h].got = [status |-> ticket.status, closedBy |-> ticket.closedBy]]
  /\ UNCHANGED <<ticket, known, threads, pushed, hired, setbacks>>

Stale(h) == duty[h].got # [status |-> ticket.status, closedBy |-> ticket.closedBy]

(* What was read goes into the cache, whatever is there by now; if that is    *)
(* newer, or what was read is stale, one handler has overtaken another.      *)
Replaces(h) == known # Unknown /\ known # duty[h].got
FillCache(h) ==
  /\ At(h, "fill")
  /\ known' = duty[h].got
  /\ Planned(h, duty[h].got)
  /\ Setback(IF Stale(h) \/ Replaces(h) THEN {"overtaken"} ELSE {})
  /\ UNCHANGED <<ticket, threads, pushed, hired>>

------------------------------------------------------------------------------
(* Their steps                                                               *)

SetCache(h) ==
  /\ At(h, "cache")
  /\ known' = [known EXCEPT !.status = Arg(h)]
  /\ Continue(h, Rest(h), Arg(h))
  /\ UNCHANGED <<ticket, threads, pushed, hired, setbacks>>

(* Another handler has changed the cache since this one did.                *)
Overtaken(h) == IF duty[h].set \in Status /\ known.status # duty[h].set THEN {"overtaken"} ELSE {}

(* A write that fails is printed and forgotten.                             *)
SetRow(h) ==
  /\ At(h, "row")
  /\ \/ ticket' = [ticket EXCEPT !.status = Arg(h)] /\ Setback(Overtaken(h))
     \/ UNCHANGED ticket /\ Setback({"db"})
  /\ Continue(h, Rest(h), duty[h].set)
  /\ UNCHANGED <<known, threads, pushed, hired>>

(* The claimer in the cache; then in the row, and paid.                     *)
Claim(h) ==
  /\ At(h, "claim")
  /\ IF Arg(h) = "cache"
       THEN known' = [known EXCEPT !.closedBy = duty[h].who] /\ UNCHANGED <<ticket, setbacks>>
       ELSE /\ \/ /\ ticket' = [ticket EXCEPT !.closedBy = duty[h].who]
                  /\ Setback(IF known.closedBy # duty[h].who THEN {"overtaken"} ELSE {})
               \/ UNCHANGED ticket /\ Setback({"db"})
            /\ UNCHANGED known
  /\ Continue(h, Rest(h), duty[h].set)
  /\ UNCHANGED <<threads, pushed, hired>>

TellAsker(h) ==
  /\ At(h, "tell")
  /\ threads' = [threads EXCEPT !.told = Arg(h)]
  /\ Continue(h, Rest(h), duty[h].set)
  /\ Setback(Overtaken(h))
  /\ UNCHANGED <<ticket, known, pushed, hired>>

(* Slack refuses a mark that is there already, or one to be taken that isn't. *)
React(h) ==
  /\ \E op \in {"check", "uncheck", "frog", "unfrog"} :
       LET mark == IF op \in {"check", "uncheck"} THEN "check" ELSE "frog"
           adds == op \in {"check", "frog"}
           fails == (Arg(h) \in threads[mark]) = adds
       IN /\ At(h, op)
          /\ threads' = IF fails THEN threads ELSE
               [threads EXCEPT ![mark] = IF adds THEN @ \cup {Arg(h)} ELSE @ \ {Arg(h)}]
          /\ Continue(h, IF fails THEN AfterFailure(Tail(duty[h].rest)) ELSE Rest(h), duty[h].set)
  /\ Setback(Overtaken(h))
  /\ UNCHANGED <<ticket, known, pushed, hired>>

(* Slack fails for another reason.                                          *)
SlackFails(h) ==
  /\ \E op \in {"tell", "check", "uncheck", "frog", "unfrog"} : At(h, op)
  /\ Continue(h, AfterFailure(Tail(duty[h].rest)), duty[h].set)
  /\ Setback({"slack"})
  /\ UNCHANGED <<ticket, known, threads, pushed, hired>>

(* The bot restarts with an empty cache; its handlers and calls are cut.   *)
BotRestart ==
  LET cut == {h \in DeskJobs : duty[h].rest # <<>> /\ ~At(h, "write") /\ duty[h].kind # "assign"}
  IN /\ known # Unknown \/ cut # {}
     /\ known' = Unknown
     /\ duty' = [h \in DeskJobs |-> IF h \in cut THEN NoJob ELSE duty[h]]
     /\ Setback(IF cut # {} THEN {"slack"} ELSE {})
     /\ UNCHANGED <<ticket, threads, pushed, hired>>

------------------------------------------------------------------------------
(* Assignees, on the dashboard                                               *)

AssignBegins(h, new) ==
  /\ MayHire(h)
  /\ hired' = hired + 1
  /\ duty' = [duty EXCEPT ![h] = [NoJob EXCEPT !.kind = "assign", !.rest = <<<<"assign", "">>, <<"push", "">>>>,
                                             !.old = ticket.assignees, !.new = new]]
  /\ UNCHANGED <<ticket, known, threads, pushed, setbacks>>

AssignWrite(h) ==
  /\ At(h, "assign")
  /\ ticket' = [ticket EXCEPT !.assignees = duty[h].new]
  /\ Setback(IF ticket.assignees # duty[h].old THEN {"overtaken"} ELSE {})
  /\ Continue(h, Rest(h), "unknown")
  /\ UNCHANGED <<known, threads, pushed, hired>>

(* Those added and those removed.                                           *)
Pushes(h) ==
  [m \in Mates |-> IF m \in duty[h].new \ duty[h].old THEN TRUE
                   ELSE IF m \in duty[h].old \ duty[h].new THEN FALSE ELSE pushed[m]]

AssignPush(h) ==
  /\ At(h, "push")
  /\ pushed' = Pushes(h)
  /\ Setback(IF ticket.assignees # duty[h].new THEN {"overtaken"} ELSE {})
  /\ Continue(h, Rest(h), "unknown")
  /\ UNCHANGED <<ticket, known, threads, hired>>

(* Bound: nothing is claimed, and nothing followed, once a handler was         *)
(* overtaken or a write failed.                                             *)
Hopeful == setbacks \cap {"overtaken", "db"} = {}

DeskNext ==
  /\ Hopeful
  /\ \/ \E h \in DeskJobs :
          \/ \E kind \in BotKinds, who \in Helpers : BotBegins(h, kind, who)
          \/ DashBegins(h) \/ DashWrite(h) \/ BridgeFails(h)
          \/ Look(h) \/ FillCache(h) \/ SetCache(h) \/ SetRow(h) \/ Claim(h)
          \/ TellAsker(h) \/ React(h) \/ SlackFails(h)
          \/ \E new \in SUBSET Mates : AssignBegins(h, new)
          \/ AssignWrite(h) \/ AssignPush(h)
     \/ BotRestart

DeskSpec == DeskInit /\ [][DeskNext]_deskVars

------------------------------------------------------------------------------
(* Properties                                                                *)

DeskQuiet == \A h \in DeskJobs : duty[h] = NoJob

(* When all handlers are done, and none overtook another (wrote, or filled the *)
(* cache, over what another had changed) and no write of the bot failed: the bot's cache has the status of the row, but where the      *)
(* dashboard closed the ticket and its call did not come through; and the    *)
(* row's closer, but where the dashboard closed it (api.py:91-129 does not   *)
(* say who).  If besides Slack did what it was asked, the asker was told the *)
(* status last and the check marks show it, although marks are refused when  *)
(* they are there already (relay.py:188-410, main.py:127-300); and who is    *)
(* assigned was told so, and nobody else.                                    *)
DeskAgrees ==
  DeskQuiet /\ Hopeful =>
    /\ known # Unknown =>
         /\ known.status = ticket.status \/ (ticket.status = "closed" /\ "bridge" \in setbacks)
         /\ known.closedBy = ticket.closedBy \/ ticket.closedBy = Clicker
    /\ setbacks = {} =>
         /\ threads.told = ticket.status
         /\ threads.check = IF ticket.status = "closed" THEN Places ELSE {}
         /\ \A m \in Mates : pushed[m] <=> m \in ticket.assignees
=============================================================================
