------------------------------ MODULE Sessions ------------------------------
(***************************************************************************)
(* Logins of the dashboard (lib/auth.ts): rows of the sessions table, the   *)
(* copies of their users kept in Redis for at most CopyTtl, and everything  *)
(* that ends a session or changes its user.  A request looks at the copy,   *)
(* then at the row, then fills the copy, with an await between any two; a   *)
(* logout, a yoink or a change of role may fall between them.               *)
(***************************************************************************)
EXTENDS Integers, FiniteSets

CONSTANTS
  Staff,       \* users
  Tokens,      \* sessions.token
  Bearer,      \* [Tokens -> Staff]: who logs in with it
  Roles, Observer,
  Readers,     \* requests in progress
  CopyTtl,     \* the copy's 300 s, in ticks
  SessionTtl,  \* SESSION_TTL, in ticks
  Latency,     \* bound: ticks a request may take
  MaxTime,     \* bound: the clock
  MaxEdits     \* bound: changes of users and ends of sessions

ASSUME TokensAssumption == Tokens # {}
ASSUME RolesAssumption == Observer \in Roles
ASSUME BearerAssumption == Bearer \in [Tokens -> Staff]
ASSUME TtlAssumption ==
  CopyTtl \in Nat /\ SessionTtl \in Nat /\ Latency \in Nat /\ MaxTime \in Nat /\ MaxEdits \in Nat

VARIABLES
  time,
  account,  \* [Staff -> Account]: the users table
  session,  \* [Tokens -> Nat]: expiresAt of the row, 0 if there is none
  copy,     \* [Tokens -> Copy]: session:<token> in Redis
  fresh,    \* tokens nobody was given yet
  reader,   \* [Readers -> Reader]: getSession in progress
  slides,   \* updates of expiresAt that nobody waits for
  ending,   \* kill and nuke in progress: tokens whose copy went, row did not
  edits

sessionVars == <<time, account, fresh, session, copy, reader, slides, ending, edits>>

Account == [active : BOOLEAN, role : Roles]
Copy == [account : Account, at : Nat, until : Nat]
Reader == [pc : {"idle", "row", "fill", "slide", "serve"}, token : Tokens, since : Nat,
           account : Account, at : Nat, until : Nat]

SessionTypeOK ==
  /\ time \in Nat /\ edits \in Nat
  /\ account \in [Staff -> Account]
  /\ session \in [Tokens -> Nat]
  /\ copy \in [Tokens -> Copy]
  /\ reader \in [Readers -> Reader]
  /\ slides \subseteq [token : Tokens, until : Nat]
  /\ ending \subseteq Tokens /\ fresh \subseteq Tokens

Nobody == [active |-> FALSE, role |-> Observer]
NoCopy == [account |-> Nobody, at |-> 0, until |-> 0]
FreeReader == [pc |-> "idle", token |-> CHOOSE t \in Tokens : TRUE, since |-> 0,
         account |-> Nobody, at |-> 0, until |-> 0]

SessionInit ==
  /\ time = 0
  /\ account \in [Staff -> [active : {TRUE}, role : Roles]]
  /\ session = [t \in Tokens |-> 0] /\ fresh = Tokens
  /\ copy = [t \in Tokens |-> NoCopy]
  /\ reader = [h \in Readers |-> FreeReader]
  /\ slides = {} /\ ending = {} /\ edits = 0

------------------------------------------------------------------------------
(* getSession                                                                *)

Least(a, b) == IF a < b THEN a ELSE b

Cached(t) == time < copy[t].until /\ copy[t].account.active

(* No copy, or Redis does not answer.                                       *)
Miss(h, t) ==
  /\ reader[h].pc = "idle"
  /\ reader' = [reader EXCEPT ![h] = [FreeReader EXCEPT !.pc = "row", !.token = t, !.since = time]]
  /\ UNCHANGED <<time, account, fresh, session, copy, slides, ending, edits>>

(* The row and its user, in one query; a dead one is answered with 401.     *)
ReadRow(h) ==
  /\ reader[h].pc = "row"
  /\ LET t == reader[h].token
         a == account[Bearer[t]] IN
       reader' = [reader EXCEPT ![h] =
         IF session[t] <= time \/ ~a.active THEN FreeReader
         ELSE [@ EXCEPT !.pc = "fill", !.account = a, !.at = time, !.until = session[t]]]
  /\ UNCHANGED <<time, account, fresh, session, copy, slides, ending, edits>>

(* Fault: the copy is kept as long as the session.                           *)
CopyOfForever(a, at, left) == [account |-> a, at |-> at, until |-> time + left]

CopyOf(a, at, left) ==
  [account |-> a, at |-> at, until |-> time + Least(left, CopyTtl)]

(* The copy is written, unless the session ran out or Redis fails.          *)
Refill(h, left) ==
  LET t == reader[h].token IN
    copy' \in {copy} \cup
      IF left > 0 THEN {[copy EXCEPT ![t] = CopyOf(reader[h].account, reader[h].at, left)]}
      ELSE {}

(* In its second half a session is renewed, behind the answer's back.       *)
Fill(h) ==
  /\ reader[h].pc = "fill"
  /\ Refill(h, reader[h].until - time)
  /\ IF 2 * (reader[h].until - time) < SessionTtl
       THEN /\ slides' = slides \cup {[token |-> reader[h].token, until |-> time + SessionTtl]}
            /\ reader' = [reader EXCEPT ![h].pc = "slide"]
       ELSE /\ reader' = [reader EXCEPT ![h].pc = "serve"]
            /\ UNCHANGED slides
  /\ UNCHANGED <<time, account, fresh, session, ending, edits>>

FillAgain(h) ==
  /\ reader[h].pc = "slide"
  /\ Refill(h, SessionTtl)
  /\ reader' = [reader EXCEPT ![h].pc = "serve"]
  /\ UNCHANGED <<time, account, fresh, session, slides, ending, edits>>

Serve(h) ==
  /\ reader[h].pc = "serve"
  /\ reader' = [reader EXCEPT ![h] = FreeReader]
  /\ UNCHANGED <<time, account, fresh, session, copy, slides, ending, edits>>

(* The renewal reaches the table, or finds no row and fails unheard.        *)
Slide(s) ==
  /\ s \in slides
  /\ slides' = slides \ {s}
  /\ session' = [session EXCEPT ![s.token] = IF @ = 0 THEN 0 ELSE s.until]
  /\ UNCHANGED <<time, account, fresh, copy, reader, ending, edits>>

------------------------------------------------------------------------------
(* What creates, ends and changes sessions and users                         *)

Owned(u) == {t \in Tokens : Bearer[t] = u}
RowsWithout(S) == [t \in Tokens |-> IF t \in S THEN 0 ELSE session[t]]

EditUser == edits < MaxEdits /\ edits' = edits + 1

Login(t) ==
  /\ t \in fresh /\ account[Bearer[t]].active
  /\ fresh' = fresh \ {t}
  /\ session' = [session EXCEPT ![t] = time + SessionTtl]
  /\ UNCHANGED <<time, account, copy, reader, slides, ending, edits>>

(* kill, and nuke for all of a user's sessions: first the copies, which     *)
(* Redis may keep, then the rows.                                           *)
DropCopies(S) == copy' \in {copy, [t \in Tokens |-> IF t \in S THEN NoCopy ELSE copy[t]]}

Logout(t) ==
  /\ EditUser
  /\ t \notin fresh
  /\ DropCopies({t})
  /\ ending' = ending \cup {t}
  /\ UNCHANGED <<time, account, fresh, session, reader, slides>>

DropRows ==
  /\ ending # {}
  /\ session' = RowsWithout(ending)
  /\ ending' = {}
  /\ UNCHANGED <<time, account, fresh, copy, reader, slides, edits>>

(* A user ends one of his sessions from the list: the row goes, the copy     *)
(* stays.                                                                    *)
EndSession(t) ==
  /\ EditUser
  /\ session[t] # 0
  /\ session' = RowsWithout({t})
  /\ UNCHANGED <<time, account, fresh, copy, reader, slides, ending>>

Disable(u) ==
  /\ EditUser
  /\ account' = [account EXCEPT ![u].active = FALSE]
  /\ DropCopies({t \in Owned(u) : session[t] # 0})
  /\ ending' = ending \cup Owned(u)
  /\ UNCHANGED <<time, fresh, session, reader, slides>>

Enable(u) ==
  /\ EditUser
  /\ account' = [account EXCEPT ![u].active = TRUE]
  /\ UNCHANGED <<time, fresh, session, copy, reader, slides, ending>>

(* One transaction: rows and account, not the copies.  The internal route   *)
(* leaves the role.                                                         *)
Yoink(u) ==
  /\ EditUser
  /\ session' = RowsWithout(Owned(u))
  /\ \E role \in {Observer, account[u].role} :
       account' = [account EXCEPT ![u] = [active |-> FALSE, role |-> role]]
  /\ UNCHANGED <<time, fresh, copy, reader, slides, ending>>

SetRole(u, role) ==
  /\ EditUser
  /\ account' = [account EXCEPT ![u].role = role]
  /\ UNCHANGED <<time, fresh, session, copy, reader, slides, ending>>

CleanExpired ==
  /\ session' = RowsWithout({t \in Tokens : session[t] < time})
  /\ session' # session
  /\ UNCHANGED <<time, account, fresh, copy, reader, slides, ending, edits>>

(* Time passes as long as no request has taken more than Latency.           *)
SessionTick ==
  /\ time < MaxTime
  /\ \A h \in Readers : reader[h].pc # "idle" => time < reader[h].since + Latency
  /\ time' = time + 1
  /\ UNCHANGED <<account, fresh, session, copy, reader, slides, ending, edits>>

SessionNext ==
  \/ \E h \in Readers :
       \/ \E t \in Tokens : Miss(h, t)
       \/ ReadRow(h) \/ Fill(h) \/ FillAgain(h) \/ Serve(h)
  \/ \E t \in Tokens : Login(t) \/ Logout(t) \/ EndSession(t)
  \/ \E u \in Staff : Disable(u) \/ Enable(u) \/ Yoink(u) \/ \E role \in Roles : SetRole(u, role)
  \/ \E s \in slides : Slide(s)
  \/ DropRows \/ CleanExpired \/ SessionTick

SessionSpec == SessionInit /\ [][SessionNext]_sessionVars

------------------------------------------------------------------------------
(* Properties                                                                *)

(* Whatever ends a session, disables its user or changes the role, and      *)
(* however it falls between another request's read and its fill of the      *)
(* copy: a request is answered with an account that was in the table, with  *)
(* a live session, at most CopyTtl and one request ago (auth.ts:64-142).    *)
ServedIsRecent ==
  /\ \A t \in Tokens : Cached(t) => time - copy[t].at <= CopyTtl + Latency
  /\ \A h \in Readers : reader[h].pc = "serve" => time - reader[h].at <= Latency
=============================================================================
