------------------------------- MODULE Relay -------------------------------
(***************************************************************************)
(* The messages of one ticket between the asker's thread, the staff's thread *)
(* and ticket_msgs (relay.py, handlers.py, db.py).  The bot posts a copy of  *)
(* a message on the other side and queues its row; staff edit and delete     *)
(* copies by buttons and by link; the asker edits the header.  Of a reply    *)
(* the asker edits nothing follows: find_ticket_by_ts is asked for the       *)
(* reply's own ts, and knows only those of headers.                          *)
(***************************************************************************)
EXTENDS Naturals, Sequences, FiniteSets

CONSTANTS
  Letters,   \* messages that may be sent
  Editors,   \* slots for edits in progress
  MaxTexts   \* bound: texts a message or the header goes through

ASSUME TextsAssumption == MaxTexts \in Nat \ {0}

VARIABLES
  sort,      \* [Letters -> Sorts]
  sending,   \* [Letters -> ...]: how far the handler that sends it is
  duplicate, \* [Letters -> the text of the copy on the other side; None, Gone]
  rows,      \* [Letters -> the text in ticket_msgs; None]
  editor,    \* [Editors -> ...]: handle_edited_message in progress
  outbox,    \* the write queue: rows to be saved and edits to be stored
  purging,   \* the copies _handle_purge has listed
  header,    \* the asker's text, the staff's copy of it, edits on their way
  spoiled    \* history: messages whose three places may differ from now on

relayVars == <<sort, sending, duplicate, rows, editor, outbox, purging, header, spoiled>>

Sorts == {"client", "question", "paraphrase", "detected"}
None == 0
Gone == MaxTexts + 1
Texts == 1 .. MaxTexts
NoEdit == [letter |-> "none", text |-> None]
Head0 == [said |-> 1, copied |-> 1, coming |-> {}]
HeaderName == "header"

RelayTypeOK ==
  /\ sort \in [Letters -> Sorts]
  /\ sending \in [Letters -> {"no", "posted", "sent"}]
  /\ duplicate \in [Letters -> 0 .. Gone]
  /\ rows \in [Letters -> 0 .. MaxTexts]
  /\ \A e \in Editors : editor[e].text \in 0 .. MaxTexts
  /\ \A i \in DOMAIN outbox : outbox[i].letter \in Letters /\ outbox[i].text \in Texts
  /\ purging \subseteq Letters
  /\ header \in [said : Texts, copied : Texts, coming : SUBSET Texts]
  /\ spoiled \subseteq Letters \cup {HeaderName}

RelayInit ==
  /\ sort \in [Letters -> Sorts]
  /\ sending = [l \in Letters |-> "no"]
  /\ duplicate = [l \in Letters |-> None] /\ rows = [l \in Letters |-> None]
  /\ editor = [e \in Editors |-> NoEdit]
  /\ outbox = <<>> /\ purging = {} /\ header = Head0 /\ spoiled = {}

------------------------------------------------------------------------------
(* A message is sent: the asker's reply, a "?" reply, a paraphrased answer,  *)
(* or the answer to a question that was detected                             *)

PostCopy(l) ==
  /\ sending[l] = "no"
  /\ sending' = [sending EXCEPT ![l] = "posted"]
  /\ duplicate' = [duplicate EXCEPT ![l] = 1]
  /\ UNCHANGED <<sort, rows, editor, outbox, purging, header, spoiled>>

(* The row is queued; of a detected answer there is none.                   *)
QueueRow(l) ==
  /\ sending[l] = "posted"
  /\ sending' = [sending EXCEPT ![l] = "sent"]
  /\ outbox' = IF sort[l] = "detected" THEN outbox
                 ELSE Append(outbox, [op |-> "save", letter |-> l, text |-> 1])
  /\ UNCHANGED <<sort, duplicate, rows, editor, purging, header, spoiled>>

(* Fault: the row is looked for by the ts of the staff's message.            *)
EditedRowByOrigin(l, text) == IF rows[l] # None /\ sort[l] = "paraphrase" THEN text ELSE rows[l]

(* UPDATE by the ts of the asker's copy: a paraphrased answer is stored           *)
(* under the ts of the staff's.                                             *)
EditedRow(l, text) == IF rows[l] # None /\ sort[l] = "question" THEN text ELSE rows[l]

(* The worker; an error is logged and the write lost.                       *)
RunTask ==
  /\ outbox # <<>>
  /\ outbox' = Tail(outbox)
  /\ LET task == Head(outbox) IN
       \/ /\ rows' = [rows EXCEPT ![task.letter] =
                        IF task.op = "save" THEN task.text ELSE EditedRow(task.letter, task.text)]
          /\ UNCHANGED spoiled
       \/ /\ spoiled' = spoiled \cup {task.letter}
          /\ UNCHANGED rows
  /\ UNCHANGED <<sort, sending, duplicate, editor, purging, header>>

(* What the journal can put back on the queue, in its order: all but edits, *)
(* whose function TASK_REGISTRY does not know.                              *)
Saves == {i \in DOMAIN outbox : outbox[i].op = "save"}
SaveAt(k) == CHOOSE i \in Saves : Cardinality({j \in Saves : j <= i}) = k
Replayed == [k \in 1 .. Cardinality(Saves) |-> outbox[SaveAt(k)]]

(* A restart replays these; handlers in progress are lost.                   *)
RestartRelay ==
  /\ outbox' = Replayed
  /\ spoiled' = spoiled \cup {outbox[i].letter : i \in {k \in DOMAIN outbox : outbox[k].op = "edit"}}
                        \cup {l \in Letters : sending[l] = "posted"}
                        \cup {editor[e].letter : e \in {x \in Editors : editor[x] # NoEdit}}
                        \cup (IF header.coming # {} THEN {HeaderName} ELSE {})
  /\ sending' = [l \in Letters |-> IF sending[l] = "posted" THEN "sent" ELSE sending[l]]
  /\ editor' = [e \in Editors |-> NoEdit]
  /\ purging' = {}
  /\ header' = [header EXCEPT !.coming = {}]
  /\ UNCHANGED <<sort, duplicate, rows>>

------------------------------------------------------------------------------
(* Staff edit and delete                                                     *)

Shown(l) == duplicate[l] \in Texts

(* The button comes once the message is sent; the copy changes first, and         *)
(* Slack refuses to change one that is gone.  Texts are numbered as edited.  *)
EditCopy(e, l, text) ==
  /\ editor[e] = NoEdit
  /\ sort[l] # "client" /\ sending[l] = "sent" /\ Shown(l) /\ text > duplicate[l]
  /\ duplicate' = [duplicate EXCEPT ![l] = text]
  /\ editor' = [editor EXCEPT ![e] = [letter |-> l, text |-> text]]
  /\ UNCHANGED <<sort, sending, rows, outbox, purging, header, spoiled>>

QueueEdit(e) ==
  LET l == editor[e].letter IN
  /\ editor[e] # NoEdit
  /\ outbox' = Append(outbox, [op |-> "edit", letter |-> l, text |-> editor[e].text])
  /\ editor' = [editor EXCEPT ![e] = NoEdit]
  /\ spoiled' = IF Shown(l) /\ duplicate[l] # editor[e].text THEN spoiled \cup {l} ELSE spoiled
  /\ UNCHANGED <<sort, sending, duplicate, rows, purging, header>>

(* The button deletes the asker's copy.                                          *)
DeleteCopy(l) ==
  /\ sort[l] # "client" /\ sending[l] = "sent" /\ Shown(l)
  /\ duplicate' = [duplicate EXCEPT ![l] = Gone]
  /\ UNCHANGED <<sort, sending, rows, editor, outbox, purging, header, spoiled>>

(* !delete knows only what has a row, and finds the other side by it; of a   *)
(* paraphrased answer there is none.                                        *)
DeleteByLink(l) ==
  /\ rows[l] # None /\ Shown(l) /\ sort[l] # "paraphrase"
  /\ duplicate' = [duplicate EXCEPT ![l] = Gone]
  /\ UNCHANGED <<sort, sending, rows, editor, outbox, purging, header, spoiled>>

(* !purge lists the asker's thread, then deletes what it listed.            *)
PurgeList ==
  /\ purging = {}
  /\ purging' = {l \in Letters : Shown(l) /\ sort[l] # "client"}
  /\ UNCHANGED <<sort, sending, duplicate, rows, editor, outbox, header, spoiled>>

PurgeDelete(l) ==
  /\ l \in purging
  /\ purging' = purging \ {l}
  /\ duplicate' = [duplicate EXCEPT ![l] = Gone]
  /\ UNCHANGED <<sort, sending, rows, editor, outbox, header, spoiled>>

------------------------------------------------------------------------------
(* The header                                                                *)

EditHeader ==
  /\ header.said < MaxTexts
  /\ header' = [header EXCEPT !.said = @ + 1, !.coming = @ \cup {header.said + 1}]
  /\ UNCHANGED <<sort, sending, duplicate, rows, editor, outbox, purging, spoiled>>

(* Each event has a handler of its own, and the last one wins.              *)
CopyHeader(text) ==
  /\ text \in header.coming
  /\ header' = [header EXCEPT !.copied = text, !.coming = @ \ {text}]
  /\ spoiled' = IF text < header.copied THEN spoiled \cup {HeaderName} ELSE spoiled
  /\ UNCHANGED <<sort, sending, duplicate, rows, editor, outbox, purging>>

RelayNext ==
  \/ \E l \in Letters :
       \/ PostCopy(l) \/ QueueRow(l) \/ DeleteCopy(l) \/ DeleteByLink(l) \/ PurgeDelete(l)
       \/ \E e \in Editors, text \in Texts : EditCopy(e, l, text)
  \/ \E e \in Editors : QueueEdit(e)
  \/ RunTask \/ RestartRelay \/ PurgeList \/ EditHeader
  \/ \E text \in Texts : CopyHeader(text)

RelaySpec == RelayInit /\ [][RelayNext]_relayVars

------------------------------------------------------------------------------
(* Properties                                                                *)

Drained ==
  /\ outbox = <<>> /\ header.coming = {}
  /\ \A l \in Letters : sending[l] # "posted"
  /\ \A e \in Editors : editor[e] = NoEdit

(* When the queue is empty and every handler done, ticket_msgs has each      *)
(* message somebody still sees as he sees it, in whatever order it was sent, *)
(* edited and deleted (relay.py:157-185, 362-514, handlers.py:245-251): but  *)
(* a detected answer has no row and a paraphrased one is kept as first sent. *)
(* Excepted are messages whose edits overlapped, whose write failed, or which *)
(* a restart caught between the copy and the row or with an edit queued.          *)
(* The staff's header is the asker's latest unless its edits crossed.        *)
RecordsAgree ==
  Drained =>
    /\ \A l \in Letters \ spoiled : Shown(l) =>
         rows[l] = CASE sort[l] = "question" -> duplicate[l]
                     [] sort[l] = "detected" -> None
                     [] OTHER -> 1
    /\ HeaderName \notin spoiled => header.copied = header.said
=============================================================================
