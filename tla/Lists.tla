------------------------------- MODULE Lists --------------------------------
(***************************************************************************)
(* The lists of the dashboard: ship certs, YSWS reviews, assignments and     *)
(* tickets.  A table that others write, answers kept for a while in Redis,   *)
(* and a page with filters, an address that remembers them, and loads that   *)
(* may be answered in any order.  `list` says which of the four it is.       *)
(***************************************************************************)
EXTENDS Naturals, Sequences, FiniteSets

CONSTANTS
  ListRows,   \* the rows there may be
  Named,      \* those a name, a type or a date picks
  Asked,    \* the filters people choose
  Slots,      \* numbers of the loads that may be on their way at once
  CertsTtl, YswsTtl, AssignTtl,  \* 15 s, 300 s, 3600 s
  LastClock, MaxWrites, MaxAsks  \* bounds

Filters == [status : {"pending", "done", "all"}, only : BOOLEAN, but : BOOLEAN, oldest : BOOLEAN]

ASSUME ListAssumption ==
  /\ Named \subseteq ListRows /\ Slots \subseteq Nat /\ Asked \subseteq Filters
  /\ CertsTtl \in Nat /\ YswsTtl \in Nat /\ AssignTtl \in Nat

VARIABLES
  list,      \* which list
  past,      \* the table after each write, the present one last
  when,      \* when each was written
  clock,
  copies,    \* Redis: what is kept for which filters, and until when
  owing,     \* writes whose bust is still to come: their number in past
  screen,    \* the page: filters, address, answer shown and the load it is of
  fetch,     \* loads on their way
  asks,      \* number of the last load
  lastBust   \* history: the last write busted while nothing was being fetched

listVars == <<list, past, when, clock, copies, owing, screen, fetch, asks, lastBust>>

ListKinds == {"certs", "ysws", "assignments", "tickets"}
Stages == {"none", "pending", "done"}
Present == Len(past)
NoAnswer == [rows |-> {}, oldest |-> FALSE, of |-> 0]
NotFetching ==
  [pc |-> "idle", f |-> CHOOSE f \in Asked : TRUE, ans |-> NoAnswer, no |-> 0, recent |-> TRUE]

ListTypeOK ==
  /\ list \in ListKinds /\ past \in Seq([ListRows -> Stages]) /\ Len(when) = Len(past)
  /\ DOMAIN copies \subseteq Filters /\ owing \subseteq 1..Present
  /\ screen.open \in {"no", "opening", "yes"} /\ screen.f \in Filters
  /\ \A s \in Slots : fetch[s].pc \in {"idle", "sent", "fetched", "answered", "failed"}

------------------------------------------------------------------------------
(* What the pages begin with, and what the address keeps of their filters    *)

CertsDefault == [status |-> "pending", only |-> FALSE, but |-> FALSE, oldest |-> TRUE]
YswsDefault == [status |-> "pending", only |-> FALSE, but |-> FALSE, oldest |-> FALSE]
AssignDefault == [status |-> "all", only |-> FALSE, but |-> FALSE, oldest |-> FALSE]
TicketsDefault == [status |-> "pending", only |-> FALSE, but |-> FALSE, oldest |-> FALSE]
Default == CASE list = "certs" -> CertsDefault [] list = "ysws" -> YswsDefault
             [] list = "assignments" -> AssignDefault [] OTHER -> TicketsDefault

(* What is not as it begins goes into the address.                           *)
Changed(f, names, start) == {x \in names : f[x] # start[x]}
CertsUrl(f) == [x \in Changed(f, {"status", "only", "oldest"}, CertsDefault) |-> f[x]]
YswsUrl(f) == [x \in Changed(f, DOMAIN f, YswsDefault) |-> f[x]]
AssignUrl(f) == [x \in Changed(f, {"status", "only"}, AssignDefault) |-> f[x]]
Url(f) == CASE list = "certs" -> CertsUrl(f) [] list = "ysws" -> YswsUrl(f)
            [] list = "assignments" -> AssignUrl(f) [] OTHER -> <<>>
FromUrl(url) == [x \in DOMAIN Default |-> IF x \in DOMAIN url THEN url[x] ELSE Default[x]]

(* Fault: the order is forgotten.                                            *)
CertsAskedNoSort(url) == DOMAIN url \cap {"status", "only"} # {}

(* Whether a page that opens has filters to load by.                         *)
CertsAsked(url) == DOMAIN url \cap {"status", "only", "oldest"} # {}
YswsAsked(url) == DOMAIN url # {}

------------------------------------------------------------------------------
(* The answers                                                               *)

CertsQuery(f, table) ==
  [rows |-> {r \in ListRows : /\ table[r] # "none" /\ (f.status = "all" \/ table[r] = f.status)
                              /\ f.only => r \in Named},
   oldest |-> f.oldest, of |-> Present]

(* Reviewers to leave out count only when none is asked for.                 *)
YswsQuery(f, table) ==
  [rows |-> {r \in ListRows : /\ table[r] # "none" /\ (f.status = "all" \/ table[r] = f.status)
                              /\ IF f.only THEN r \in Named ELSE f.but => r \notin Named},
   oldest |-> f.oldest, of |-> Present]

(* All assignments come, the page filters.                                   *)
AssignQuery(table) == [rows |-> {r \in ListRows : table[r] # "none"}, oldest |-> FALSE, of |-> Present]

TicketsQuery(f, table) ==
  [rows |-> {r \in ListRows : table[r] # "none" /\ (f.status = "all" \/ table[r] = f.status)},
   oldest |-> FALSE, of |-> Present]

Query(f, table) ==
  CASE list = "certs" -> CertsQuery(f, table) [] list = "ysws" -> YswsQuery(f, table)
    [] list = "assignments" -> AssignQuery(table) [] OTHER -> TicketsQuery(f, table)

Ttl == CASE list = "certs" -> CertsTtl [] list = "ysws" -> YswsTtl [] OTHER -> AssignTtl
Key(f) == IF list = "assignments" THEN AssignDefault ELSE f

ListInit ==
  /\ list \in ListKinds
  /\ past \in {<<t>> : t \in [ListRows -> {"none", "pending"}]} /\ when = <<0>> /\ clock = 0
  /\ copies = <<>> /\ owing = {}
  /\ screen = [open |-> "no", f |-> Default, url |-> <<>>, ans |-> NoAnswer, no |-> 0, recent |-> TRUE]
  /\ fetch = [s \in Slots |-> NotFetching] /\ asks = 0 /\ lastBust = 1

------------------------------------------------------------------------------
(* The table, and what its writers bust                                      *)

Busts(r) == list \in {"certs", "ysws"} \/ (list = "assignments" /\ past[Present][r] = "none")

Write(r) ==
  /\ Present < MaxWrites + 1
  /\ LET to == IF past[Present][r] = "pending" THEN "done" ELSE "pending" IN
     past' = Append(past, [past[Present] EXCEPT ![r] = to])
  /\ when' = Append(when, clock)
  /\ owing' = IF Busts(r) THEN owing \cup {Present + 1} ELSE owing
  /\ UNCHANGED <<list, clock, copies, screen, fetch, asks, lastBust>>

(* Fault: copies dropped before the table changes are there again after it.  *)
BustTooEarly(w) ==
  /\ w \in owing /\ owing' = owing \ {w}
  /\ lastBust' = IF w < lastBust \/ \E s \in Slots : fetch[s].pc = "fetched" THEN lastBust ELSE w
  /\ UNCHANGED <<list, past, when, clock, copies, screen, fetch, asks>>

(* The keys of the ship certs' lists match no pattern that is busted.        *)
Bust(w) ==
  /\ w \in owing /\ owing' = owing \ {w}
  /\ IF list = "certs" THEN UNCHANGED <<copies, lastBust>>
     ELSE /\ copies' = <<>>
          /\ lastBust' = IF w < lastBust \/ \E s \in Slots : fetch[s].pc = "fetched" THEN lastBust ELSE w
  /\ UNCHANGED <<list, past, when, clock, screen, fetch, asks>>

(* Redis and the table answer within a tick.                                 *)
Tick ==
  /\ clock < LastClock /\ clock' = clock + 1
  /\ \A s \in Slots : fetch[s].pc # "fetched"
  /\ UNCHANGED <<list, past, when, copies, owing, screen, fetch, asks, lastBust>>

------------------------------------------------------------------------------
(* Loads                                                                     *)

AskList(s, f) ==
  /\ fetch[s].pc = "idle" /\ \A q \in Slots : q < s => fetch[q].pc # "idle"
  /\ asks < MaxAsks /\ asks' = asks + 1
  /\ fetch' = [fetch EXCEPT ![s] = [NotFetching EXCEPT !.pc = "sent", !.f = f, !.no = asks + 1]]

Kept(f) == list # "tickets" /\ Key(f) \in DOMAIN copies /\ clock < copies[Key(f)].until

(* The table was the present one a time-to-live ago or since, and is no older *)
(* than the last that was busted.                                             *)
Recent(ans) ==
  /\ ans.of >= lastBust
  /\ ans.of = Present \/ when[ans.of + 1] + Ttl >= clock

(* The handler looks into Redis and, when nothing is kept, asks the table.   *)
ServeList(s) ==
  /\ fetch[s].pc = "sent"
  /\ LET f == fetch[s].f
         ans == IF Kept(f) THEN copies[Key(f)].ans ELSE Query(f, past[Present])
     IN fetch' = [fetch EXCEPT ![s].pc = IF Kept(f) \/ list = "tickets" THEN "answered" ELSE "fetched",
                               ![s].ans = ans, ![s].recent = Recent(ans)]
  /\ UNCHANGED <<list, past, when, clock, copies, owing, screen, asks, lastBust>>

Keep(s) ==
  /\ fetch[s].pc = "fetched"
  /\ copies' = [k \in DOMAIN copies \cup {Key(fetch[s].f)} |->
                  IF k = Key(fetch[s].f) THEN [ans |-> fetch[s].ans, until |-> clock + Ttl] ELSE copies[k]]
  /\ fetch' = [fetch EXCEPT ![s].pc = "answered"]
  /\ UNCHANGED <<list, past, when, clock, owing, screen, asks, lastBust>>

ServeListFails(s) ==
  /\ fetch[s].pc = "sent" /\ fetch' = [fetch EXCEPT ![s].pc = "failed"]
  /\ UNCHANGED <<list, past, when, clock, copies, owing, screen, asks, lastBust>>

------------------------------------------------------------------------------
(* The pages                                                                 *)

Rest == UNCHANGED <<list, past, when, clock, copies, owing, lastBust>>

(* Assignments are all asked for, whatever the filters.                      *)
FirstAsked == IF list = "assignments" THEN AssignDefault ELSE Default

(* Opened, or loaded again: the server fetches for the filters a page of     *)
(* certs or reviews begins with, the others fetch for themselves.            *)
OpenList(s) ==
  /\ screen.open # "opening" /\ \A q \in Slots : fetch[q].pc = "idle"
  /\ AskList(s, FirstAsked)
  /\ screen' = [screen EXCEPT !.open = IF list \in {"certs", "ysws"} THEN "opening" ELSE "yes",
                              !.f = FromUrl(screen.url), !.ans = NoAnswer, !.no = 0]
  /\ Rest

Showing(s) == [screen EXCEPT !.ans = fetch[s].ans, !.no = fetch[s].no, !.recent = fetch[s].recent]

(* The page appears, and loads if its address has filters.                   *)
Mounted(s) ==
  /\ screen.open = "opening" /\ fetch[s].pc = "answered"
  /\ screen' = [Showing(s) EXCEPT !.open = "yes"]
  /\ IF (list = "certs" /\ CertsAsked(screen.url)) \/ (list = "ysws" /\ YswsAsked(screen.url))
     THEN /\ asks' = asks + 1
          /\ fetch' = [fetch EXCEPT ![s] = [NotFetching EXCEPT !.pc = "sent", !.f = screen.f, !.no = asks + 1]]
     ELSE fetch' = [fetch EXCEPT ![s] = NotFetching] /\ UNCHANGED asks
  /\ Rest

(* The last answer to come is shown, whichever load it is of.                *)
ListArrived(s) ==
  /\ screen.open = "yes" /\ fetch[s].pc = "answered"
  /\ screen' = Showing(s) /\ fetch' = [fetch EXCEPT ![s] = NotFetching]
  /\ UNCHANGED asks /\ Rest

(* A failed load leaves certs and reviews as they are and empties tickets.   *)
LoadFailed(s) ==
  /\ fetch[s].pc = "failed" /\ fetch' = [fetch EXCEPT ![s] = NotFetching]
  /\ screen' = CASE screen.open = "opening" -> [screen EXCEPT !.open = "no"]
               [] list = "tickets" -> [screen EXCEPT !.ans = NoAnswer, !.no = 0]
               [] OTHER -> screen
  /\ UNCHANGED asks /\ Rest

CertsChoices == {f \in Asked : ~f.but}
YswsChoices == Asked
TicketsChoices == {f \in Asked : ~f.but /\ ~f.only /\ ~f.oldest}
AssignChoices == {f \in Asked : ~f.but /\ ~f.oldest}

Pick(s, f) ==
  /\ screen.open = "yes" /\ f # screen.f
  /\ f \in CASE list = "certs" -> CertsChoices [] list = "ysws" -> YswsChoices
             [] list = "tickets" -> TicketsChoices [] OTHER -> AssignChoices
  /\ screen' = [screen EXCEPT !.f = f, !.url = Url(f)]
  /\ IF list = "assignments" THEN UNCHANGED <<fetch, asks>> ELSE AskList(s, f)
  /\ Rest

(* What stands on the screen.                                                *)
OnScreen ==
  IF list = "assignments"
  THEN {r \in screen.ans.rows : /\ screen.f.status = "all" \/ past[screen.ans.of][r] = screen.f.status
                                /\ screen.f.only => r \in Named}
  ELSE screen.ans.rows

ListNext ==
  \/ \E r \in ListRows : Write(r)
  \/ \E w \in owing : Bust(w)
  \/ Tick
  \/ \E s \in Slots : \/ ServeList(s) \/ Keep(s) \/ ServeListFails(s)
                       \/ OpenList(s) \/ Mounted(s) \/ ListArrived(s) \/ LoadFailed(s)
  \/ \E s \in Slots : \E f \in Asked : Pick(s, f)

ListSpec == ListInit /\ [][ListNext]_listVars

------------------------------------------------------------------------------
(* Properties                                                                *)

(* When the newest load is the one answered last, the page shows the rows    *)
(* its filters pick, in their order, of a table that was the present one at  *)
(* most a time-to-live before the load was served, and of no table older     *)
(* than one whose writer had dropped the copies before, unless a fetch was   *)
(* on its way then.  Opening a page by an address with filters included      *)
(* (certs-view.tsx:164-218, ysws-view.tsx:226-280, lib/cache.ts:3-39).       *)
ListsShowWhatIsAsked ==
  screen.open = "yes" /\ screen.no = asks /\ (\A s \in Slots : fetch[s].pc = "idle") =>
    LET then == past[screen.ans.of]
        f == screen.f
        picked == {r \in ListRows : /\ then[r] # "none" /\ (f.status = "all" \/ then[r] = f.status)
                                    /\ f.only => r \in Named
                                    /\ f.but /\ ~f.only => r \notin Named}
    IN /\ OnScreen = picked
       /\ list \in {"certs", "ysws"} => screen.ans.oldest = screen.f.oldest
       /\ screen.recent
=============================================================================
