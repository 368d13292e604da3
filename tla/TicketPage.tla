------------------------------ MODULE TicketPage ------------------------------
(***************************************************************************)
(* The page of one ticket, open before somebody who may edit it: assignees,  *)
(* the composer of replies, closing, and the socket by which the bot tells   *)
(* it to load again.  Requests overlap; colleagues write the same row.       *)
(* What the page shows of messages is PageNotes'; this is what it sends.     *)
(***************************************************************************)
EXTENDS Naturals, Sequences, FiniteSets

CONSTANTS
  Staffers,   \* who may be assigned
  Papers,     \* files there are to attach
  Tabs,       \* slots for requests on their way
  MaxRecon,   \* 5: failed connections before the socket gives up
  MaxReplies, MaxChanges, MaxColleague, MaxFlaps,
  MaxDone, MaxWithReplies   \* bounds: of each, of all, and of all when replies are sent

ASSUME ReconAssumption == MaxRecon \in Nat \ {0}

VARIABLES
  ticketRow,  \* the row: open, assignees, and how often these were written
  replies,       \* ticket_msgs
  inThread,   \* the asker's thread and the staff's: replies in order
  composer,   \* text and files, and a number for what is being composed
  face,       \* what the page shows
  task,       \* [Tabs -> ...]: requests
  ear,        \* the socket: connected, failed tries, events not yet acted on
  botOk,      \* the page's belief, shown as a banner when it is FALSE
  botUp,
  spent,      \* how much of each bound is used
  meant,      \* history: the assignees as people asked for them
  foreign     \* history: the last write of assignees this page may not know

ticketPageVars ==
  <<ticketRow, replies, inThread, composer, face, task, ear, botOk, botUp, spent, meant, foreign>>

Wordings == {"", "note", "?note"}
Unasked ==
  [kind |-> "none", pc |-> "idle", text |-> "", files |-> {}, no |-> 0,
   list |-> {}, add |-> {}, drop |-> {}, base |-> 0, rash |-> FALSE,
   open |-> TRUE]

TicketPageTypeOK ==
  /\ ticketRow \in [open : BOOLEAN, who : SUBSET Staffers, ver : Nat]
  /\ replies \subseteq [no : Nat, text : Wordings, files : SUBSET Papers]
  /\ composer \in [text : Wordings, files : SUBSET Papers, no : Nat]
  /\ face \in [on : BOOLEAN, open : BOOLEAN, who : SUBSET Staffers, ver : Nat, newest : Nat,
               assigning : BOOLEAN, closing : BOOLEAN]
  /\ \A t \in Tabs : /\ task[t].kind \in {"none", "send", "assign", "close", "load"}
                     /\ task[t].pc \in {"idle", "auth", "post", "read", "stored", "told", "ok",
                                        "bad", "loading", "loaded"}
  /\ ear.at \in {"on", "off", "closed"} /\ ear.tries \in 0..MaxRecon
  /\ botOk \in BOOLEAN /\ botUp \in BOOLEAN /\ meant \subseteq Staffers

(* The page as its first load and first connection leave it.                 *)
TicketPageInit ==
  /\ ticketRow = [open |-> TRUE, who |-> {}, ver |-> 0] /\ meant = {} /\ foreign = 0
  /\ replies = {} /\ inThread = [asker |-> <<>>, staff |-> <<>>]
  /\ composer = [text |-> "", files |-> {}, no |-> 1]
  /\ face = [on |-> TRUE, open |-> TRUE, who |-> {}, ver |-> 0, newest |-> 0,
             assigning |-> FALSE, closing |-> FALSE]
  /\ task = [t \in Tabs |-> Unasked]
  /\ ear = [at |-> "on", tries |-> 0, news |-> 0] /\ botOk = TRUE /\ botUp = TRUE
  /\ spent = [what \in {"sends", "changes", "closes", "theirs", "flaps"} |-> 0]

Emitted == [ear EXCEPT !.news = IF ear.at = "on" THEN @ + 1 ELSE @]

Composed == composer.text # "" \/ composer.files # {}
AllDone == spent.sends + spent.changes + spent.closes + spent.theirs + spent.flaps
More(what, max) ==
  /\ spent[what] < max
  /\ AllDone < IF what = "sends" \/ spent.sends > 0 \/ Composed THEN MaxWithReplies ELSE MaxDone
  /\ spent' = [spent EXCEPT ![what] = @ + 1]

Free(t) == task[t].pc = "idle" /\ \A q \in Tabs : q < t => task[q].pc # "idle"
Goes(t, pc) == task' = [task EXCEPT ![t].pc = pc]
Over(t) == task' = [task EXCEPT ![t] = Unasked]
Outside == UNCHANGED <<ear, botOk, botUp>>
RowsAlone == UNCHANGED <<ticketRow, replies, inThread, meant, foreign>>

------------------------------------------------------------------------------
(* The composer                                                              *)

Composing == face.on /\ spent.sends < MaxReplies /\ AllDone < MaxWithReplies
ComposerOnly == RowsAlone /\ Outside /\ UNCHANGED <<face, task, spent>>

(* Typed, or a macro put in the place of what was typed.                     *)
Compose(text) ==
  /\ Composing /\ text # composer.text
  /\ composer' = [composer EXCEPT !.text = text] /\ ComposerOnly

(* A mark on both sides of the selection: one that begins at the start puts  *)
(* something before the question mark.                                       *)
Format ==
  /\ Composing /\ composer' = [composer EXCEPT !.text = "note"] /\ ComposerOnly

Attach(p) ==
  /\ Composing /\ composer' = [composer EXCEPT !.files = @ \cup {p}] /\ ComposerOnly

Detach(p) ==
  /\ Composing /\ composer' = [composer EXCEPT !.files = @ \ {p}] /\ ComposerOnly

(* Fault: the composer is emptied when the answer is there.                  *)
SendKeepsText(t) ==
  /\ face.on /\ Free(t) /\ Composed
  /\ More("sends", MaxReplies)
  /\ task' = [task EXCEPT ![t] = [Unasked EXCEPT !.kind = "send", !.pc = "auth", !.no = composer.no,
                                              !.text = composer.text, !.files = composer.files]]
  /\ RowsAlone /\ Outside /\ UNCHANGED <<composer, face>>

(* Enter or the button, while an earlier reply may still be on its way.      *)
SendReply(t) ==
  /\ face.on /\ Free(t) /\ Composed
  /\ More("sends", MaxReplies)
  /\ task' = [task EXCEPT ![t] = [Unasked EXCEPT !.kind = "send", !.pc = "auth", !.no = composer.no,
                                              !.text = composer.text, !.files = composer.files]]
  /\ composer' = [text |-> "", files |-> {}, no |-> composer.no + 1]
  /\ RowsAlone /\ Outside /\ UNCHANGED face

(* Files whose upload fails are left out; without a session all is dropped.  *)
Uploads(t) ==
  /\ task[t].kind = "send" /\ task[t].pc = "auth"
  /\ \/ \E up \in SUBSET task[t].files : task' = [task EXCEPT ![t].pc = "post", ![t].files = up]
     \/ Over(t)
  /\ RowsAlone /\ Outside /\ UNCHANGED <<composer, face, spent>>

------------------------------------------------------------------------------
(* The reply's handler, and the bridge it calls                              *)

ReadTicket(t) ==
  /\ task[t].kind = "send" /\ task[t].pc = "post"
  /\ Goes(t, IF (task[t].text = "" /\ task[t].files = {}) \/ ~ticketRow.open THEN "bad" ELSE "read")
  /\ RowsAlone /\ Outside /\ UNCHANGED <<composer, face, spent>>

Reply(t) == [no |-> task[t].no, text |-> task[t].text, files |-> task[t].files]

StoreReply(t) ==
  /\ task[t].pc = "read" /\ Goes(t, "stored") /\ replies' = replies \cup {Reply(t)}
  /\ Outside /\ UNCHANGED <<ticketRow, inThread, meant, foreign, composer, face, spent>>

(* Fault: every reply goes to the asker.                                     *)
SendAlways(t) == TRUE

SendToUser(t) == task[t].text = "?note"

(* A bot that is gone fails the request though the reply is stored; one that *)
(* Slack refuses answers, and nobody looks at what.                          *)
BridgeAsker(t) ==
  /\ task[t].pc = "stored"
  /\ \/ ~botUp /\ Goes(t, "bad") /\ UNCHANGED inThread
     \/ /\ botUp /\ Goes(t, "told")
        /\ inThread' = IF SendToUser(t) THEN [inThread EXCEPT !.asker = Append(@, Reply(t))] ELSE inThread
     \/ botUp /\ SendToUser(t) /\ Goes(t, "ok") /\ UNCHANGED inThread
  /\ Outside /\ UNCHANGED <<ticketRow, replies, meant, foreign, composer, face, spent>>

BridgeStaff(t) ==
  /\ task[t].pc = "told" /\ Goes(t, "ok")
  /\ \/ inThread' = [inThread EXCEPT !.staff = Append(@, Reply(t))] /\ ear' = Emitted
     \/ UNCHANGED <<inThread, ear>>
  /\ UNCHANGED <<ticketRow, replies, meant, foreign, composer, face, spent, botOk, botUp>>

------------------------------------------------------------------------------
(* Assignees                                                                 *)

(* Changes are rash when two are on their way or an old answer is shown.     *)
Rash == face.ver < face.newest \/ \E t \in Tabs : task[t].kind = "assign"

Change(t, add, drop) ==
  /\ face.on /\ Free(t) /\ More("changes", MaxChanges)
  /\ task' = [q \in Tabs |->
       IF q = t THEN [Unasked EXCEPT !.kind = "assign", !.pc = "post", !.add = add, !.drop = drop,
                                  !.list = (face.who \cup add) \ drop, !.base = face.ver, !.rash = Rash]
       ELSE [task[q] EXCEPT !.rash = task[q].kind = "assign"]]
  /\ face' = [face EXCEPT !.assigning = TRUE]
  /\ RowsAlone /\ Outside /\ UNCHANGED composer

(* Those not shown as assigned are offered, also while a change is made.     *)
AddAssignee(t, p) == p \notin face.who /\ Change(t, {p}, {})
RemoveAssignee(t, p) == p \in face.who /\ ~face.assigning /\ Change(t, {}, {p})

(* The handler writes the list it is sent, and tells the bot, which may say  *)
(* so; it refuses one with somebody who is no longer staff.                  *)
WriteList(t) ==
  /\ task[t].kind = "assign" /\ task[t].pc = "post"
  /\ \/ Goes(t, "bad") /\ RowsAlone /\ UNCHANGED ear
     \/ /\ Goes(t, "ok") /\ ear' \in {ear, IF botUp THEN Emitted ELSE ear}
        /\ ticketRow' = [ticketRow EXCEPT !.who = task[t].list, !.ver = @ + 1]
        /\ meant' = IF task[t].rash \/ foreign > task[t].base THEN task[t].list
                    ELSE (ticketRow.who \cup task[t].add) \ task[t].drop
        /\ UNCHANGED <<replies, inThread, foreign>>
  /\ UNCHANGED <<composer, face, spent, botOk, botUp>>

------------------------------------------------------------------------------
(* Closing, and what the bot tells                                           *)

CloseTicket(t) ==
  /\ face.on /\ face.open /\ ~face.closing /\ Free(t) /\ More("closes", 1)
  /\ task' = [task EXCEPT ![t] = [Unasked EXCEPT !.kind = "close", !.pc = "post"]]
  /\ face' = [face EXCEPT !.closing = TRUE]
  /\ RowsAlone /\ Outside /\ UNCHANGED composer

WriteClosed(t) ==
  /\ task[t].kind = "close" /\ task[t].pc = "post"
  /\ \/ Goes(t, "bad") /\ UNCHANGED <<ticketRow, ear>>
     \/ /\ Goes(t, "ok") /\ ticketRow' = [ticketRow EXCEPT !.open = FALSE]
        /\ ear' = IF botUp THEN Emitted ELSE ear
  /\ UNCHANGED <<replies, inThread, meant, foreign, composer, face, spent, botOk, botUp>>

Hear(t) ==
  /\ face.on /\ ear.news > 0 /\ Free(t)
  /\ ear' = [ear EXCEPT !.news = @ - 1]
  /\ task' = [task EXCEPT ![t] = [Unasked EXCEPT !.kind = "load", !.pc = "loading"]]
  /\ RowsAlone /\ UNCHANGED <<composer, face, spent, botOk, botUp>>

------------------------------------------------------------------------------
(* Answers and loads                                                         *)

Freed(t, as) ==
  CASE task[t].kind = "assign" -> [as EXCEPT !.assigning = FALSE]
    [] task[t].kind = "close" -> [as EXCEPT !.closing = FALSE]
    [] OTHER -> as

(* Fault: a change that succeeded is not followed by a load.                 *)
AnsweredNoLoad(t) ==
  /\ task[t].pc = "ok" /\ task[t].kind # "close"
  /\ Over(t) /\ face' = Freed(t, face)
  /\ RowsAlone /\ Outside /\ UNCHANGED <<composer, spent>>

(* Done: the page loads again.                                               *)
DoneLoadAgain(t) ==
  /\ task[t].pc = "ok" /\ task[t].kind # "close" /\ Goes(t, "loading")
  /\ RowsAlone /\ Outside /\ UNCHANGED <<composer, face, spent>>

ClosedAnswered(t) ==
  /\ task[t].pc = "ok" /\ task[t].kind = "close" /\ Over(t)
  /\ face' = [face EXCEPT !.on = FALSE]
  /\ RowsAlone /\ Outside /\ UNCHANGED <<composer, spent>>

(* Refused, or the answer or the load after it does not come: what was typed *)
(* is gone, and a change that was made is not shown.                         *)
Unanswered(t) ==
  /\ task[t].pc \in {"bad", "ok", "loading", "loaded"}
  /\ Over(t) /\ face' = Freed(t, face)
  /\ foreign' = IF task[t].kind = "assign" /\ task[t].pc # "bad" THEN ticketRow.ver ELSE foreign
  /\ Outside /\ UNCHANGED <<ticketRow, replies, inThread, meant, composer, spent>>

(* A load that is refused sends its reader back to the list.                 *)
LoadRefused(t) ==
  /\ task[t].pc = "loading" /\ Over(t) /\ face' = [Freed(t, face) EXCEPT !.on = FALSE]
  /\ RowsAlone /\ Outside /\ UNCHANGED <<composer, spent>>

ServeTicket(t) ==
  /\ task[t].pc = "loading"
  /\ task' = [task EXCEPT ![t].pc = "loaded", ![t].list = ticketRow.who, ![t].base = ticketRow.ver,
                          ![t].open = ticketRow.open]
  /\ RowsAlone /\ Outside /\ UNCHANGED <<composer, face, spent>>

LoadShown(t) ==
  /\ task[t].pc = "loaded" /\ Over(t)
  /\ face' = [Freed(t, face) EXCEPT !.who = task[t].list, !.ver = task[t].base, !.open = task[t].open,
                                    !.newest = IF task[t].base > @ THEN task[t].base ELSE @]
  /\ RowsAlone /\ Outside /\ UNCHANGED <<composer, spent>>

------------------------------------------------------------------------------
(* The socket and the banner                                                 *)

SocketOnly == RowsAlone /\ UNCHANGED <<composer, face, task>>

BotFlaps ==
  /\ More("flaps", MaxFlaps)
  /\ botUp' = ~botUp /\ SocketOnly /\ UNCHANGED <<ear, botOk>>

CheckHealth ==
  /\ face.on /\ botOk # botUp /\ botOk' = botUp /\ SocketOnly /\ UNCHANGED <<ear, botUp, spent>>

Connects ==
  /\ face.on /\ ear.at = "off" /\ botUp
  /\ ear' = [ear EXCEPT !.at = "on", !.tries = 0] /\ botOk' = TRUE
  /\ SocketOnly /\ UNCHANGED <<botUp, spent>>

Disconnects ==
  /\ face.on /\ ear.at = "on" /\ ~botUp /\ ear' = [ear EXCEPT !.at = "off"] /\ botOk' = FALSE
  /\ SocketOnly /\ UNCHANGED <<botUp, spent>>

(* After the last try the socket is closed for as long as the page is open,  *)
(* whatever the health check says later.                                     *)
ConnectError ==
  /\ face.on /\ ear.at = "off" /\ ~botUp /\ botOk' = FALSE
  /\ ear' = [ear EXCEPT !.tries = @ + 1, !.at = IF ear.tries + 1 >= MaxRecon THEN "closed" ELSE "off"]
  /\ SocketOnly /\ UNCHANGED <<botUp, spent>>

(* A colleague assigns or closes from a page of their own.                   *)
Colleague ==
  /\ More("theirs", MaxColleague)
  /\ \/ \E who \in SUBSET Staffers :
          /\ ticketRow' = [ticketRow EXCEPT !.who = who, !.ver = @ + 1]
          /\ meant' = who /\ foreign' = ticketRow.ver + 1
     \/ ticketRow' = [ticketRow EXCEPT !.open = FALSE] /\ UNCHANGED <<meant, foreign>>
  /\ Outside /\ UNCHANGED <<replies, inThread, composer, face, task>>

TicketPageNext ==
  \/ \E text \in Wordings \ {""} : Compose(text)
  \/ Format
  \/ \E p \in Papers : Attach(p) \/ Detach(p)
  \/ \E t \in Tabs :
       \/ SendReply(t) \/ Uploads(t) \/ ReadTicket(t) \/ StoreReply(t)
       \/ BridgeAsker(t) \/ BridgeStaff(t) \/ WriteList(t)
       \/ CloseTicket(t) \/ WriteClosed(t) \/ ClosedAnswered(t) \/ Hear(t)
       \/ DoneLoadAgain(t) \/ Unanswered(t) \/ LoadRefused(t) \/ ServeTicket(t) \/ LoadShown(t)
  \/ \E t \in Tabs, p \in Staffers : AddAssignee(t, p) \/ RemoveAssignee(t, p)
  \/ BotFlaps \/ CheckHealth \/ Connects \/ Disconnects \/ ConnectError
  \/ Colleague

TicketPageSpec == TicketPageInit /\ [][TicketPageNext]_ticketPageVars

------------------------------------------------------------------------------
(* Properties                                                                *)

(* The row's assignees are what people asked for, one at a time: a page that *)
(* sends the whole list loses nobody, unless it sent it while another change *)
(* was on its way, while an older answer was shown, or not knowing of a      *)
(* colleague's write or of an own one whose answer was lost                  *)
(* (useTicketActions.ts:147-188, assign/route.ts:53-57).                     *)
AssigneesAsAsked == ticketRow.who = meant

(* What stands in the threads is what was composed, once: stored before it   *)
(* is posted, never empty, nothing in the asker's thread that its writer did *)
(* not begin with a question mark, and one row for each thing composed       *)
(* however fast Enter is pressed (useTicketActions.ts:33-145, reply          *)
(* route.ts:20-73).                                                          *)
RepliesAsTyped ==
  /\ \A r \in replies : /\ r.text # "" \/ r.files # {}
                     /\ \A q \in replies : q.no = r.no => q = r
  /\ \A where \in {"asker", "staff"} : \A i \in DOMAIN inThread[where] :
       /\ inThread[where][i] \in replies
       /\ \A j \in DOMAIN inThread[where] : inThread[where][i].no = inThread[where][j].no => i = j
       /\ where = "asker" => inThread[where][i].text = "?note"

TicketPageHolds == AssigneesAsAsked /\ RepliesAsTyped
=============================================================================
