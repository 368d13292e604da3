------------------------------- MODULE DbPool -------------------------------
(***************************************************************************)
(* The connection pool of the bot (db.py) and, line for line the same, of    *)
(* the AI service (sw-ai/Source/db.py).  A thread takes a connection, tries  *)
(* it, runs a statement, commits and puts it back; one that finds a dead     *)
(* connection closes the pool under everybody and makes another.  Callers    *)
(* take an exception for "nothing was written".                             *)
(***************************************************************************)
EXTENDS Naturals, FiniteSets

CONSTANTS
  Clients,   \* threads
  MaxConn,   \* maxconn
  MaxPools   \* bound: pools made

ASSUME PoolsAssumption == MaxPools \in Nat

VARIABLES
  pools,    \* pools made so far are 1 .. pools
  current,  \* connection_pool; 0 before the first
  shut,     \* pools that were closed
  taken,    \* [1 .. MaxPools -> SUBSET Clients]: what is out of each pool
  client,   \* [Clients -> ...]
  dropped   \* history: clients whose commit failed, or whose pool was replaced

poolVars == <<pools, current, shut, taken, client, dropped>>

ClientPc == {"idle", "none", "get", "try", "shut", "remake", "query", "commit", "put", "putFailed", "done"}
AtRestClient == [pc |-> "idle", pool |-> 0, alive |-> FALSE, attempt |-> 0, written |-> FALSE, said |-> "nothing"]

PoolTypeOK ==
  /\ pools \in 0 .. MaxPools /\ current \in 0 .. MaxPools
  /\ shut \subseteq 1 .. MaxPools
  /\ taken \in [1 .. MaxPools -> SUBSET Clients]
  /\ client \in [Clients -> [pc : ClientPc, pool : 0 .. MaxPools, alive : BOOLEAN, attempt : 0 .. 3,
                             written : BOOLEAN, said : {"nothing", "done", "failed"}]]
  /\ dropped \subseteq {"commit", "replaced"} \X Clients

PoolInit ==
  /\ pools = 0 /\ current = 0 /\ shut = {}
  /\ taken = [p \in 1 .. MaxPools |-> {}]
  /\ client = [c \in Clients |-> AtRestClient]
  /\ dropped = {}

Step(c, pc) == client' = [client EXCEPT ![c].pc = pc]
Ends(c, word) == client' = [client EXCEPT ![c].pc = "done", ![c].said = word]

------------------------------------------------------------------------------
(* _acquire_conn                                                             *)

AskConn(c) ==
  /\ client[c].pc = "idle"
  /\ Step(c, IF current = 0 THEN "none" ELSE "get")
  /\ UNCHANGED <<pools, current, shut, taken, dropped>>

(* Two threads that find no pool make one each, and the second stays.       *)
MakePool(c) ==
  /\ client[c].pc \in {"none", "remake"} /\ pools < MaxPools
  /\ pools' = pools + 1 /\ current' = pools + 1
  /\ dropped' = dropped \cup {<<"replaced", d>> : d \in {x \in Clients : client[x].pool # 0}}
  /\ Step(c, IF client[c].attempt = 3 THEN "putFailed" ELSE "get")
  /\ UNCHANGED <<shut, taken>>

(* A pool that was closed, or is empty, refuses.                            *)
GetConn(c) ==
  /\ client[c].pc = "get"
  /\ IF current \in shut \/ Cardinality(taken[current]) = MaxConn
       THEN Ends(c, "failed") /\ UNCHANGED taken
       ELSE /\ taken' = [taken EXCEPT ![current] = @ \cup {c}]
            /\ client' = [client EXCEPT ![c].pc = "try", ![c].pool = current, ![c].alive = TRUE]
  /\ UNCHANGED <<pools, current, shut, dropped>>

(* putconn: the pool must be the connection's own, and open.                *)
Accepts(c) == client[c].pool = current /\ current \notin shut

TryConn(c) ==
  /\ client[c].pc = "try" /\ client[c].alive
  /\ Step(c, "query")
  /\ UNCHANGED <<pools, current, shut, taken, dropped>>

(* Fault: a connection that fails is not put back.                           *)
DiscardKeeps(c) == taken

Discard(c) == [taken EXCEPT ![client[c].pool] = @ \ {c}]

(* It is dead, or was closed by another thread's closeall since it was got   *)
(* (conn.closed is only ever true then): it is put back to be closed, which *)
(* a pool that is shut or not its own refuses, and the caller is told.      *)
TryFails(c) ==
  /\ client[c].pc = "try"
  /\ IF Accepts(c)
       THEN /\ taken' = Discard(c)
            /\ client' = [client EXCEPT ![c].pc = "shut", ![c].pool = 0, ![c].attempt = @ + 1]
       ELSE Ends(c, "failed") /\ UNCHANGED taken
  /\ UNCHANGED <<pools, current, shut, dropped>>

(* closeall, of whatever the pool is by now: everybody's connections.       *)
ShutPool(c) ==
  /\ client[c].pc = "shut"
  /\ shut' = shut \cup {current}
  /\ client' = [d \in Clients |->
       IF d = c THEN [client[c] EXCEPT !.pc = "remake"]
       ELSE IF client[d].pool = current THEN [client[d] EXCEPT !.alive = FALSE] ELSE client[d]]
  /\ UNCHANGED <<pools, current, taken, dropped>>

------------------------------------------------------------------------------
(* get_db, _release_conn                                                     *)

Query(c) ==
  /\ client[c].pc = "query"
  /\ \/ client[c].alive /\ Step(c, "commit")
     \/ Step(c, "putFailed")
  /\ UNCHANGED <<pools, current, shut, taken, dropped>>

(* A commit that fails is logged, and the caller hears nothing of it.       *)
Commit(c) ==
  /\ client[c].pc = "commit"
  /\ \/ /\ client[c].alive
        /\ client' = [client EXCEPT ![c].pc = "put", ![c].written = TRUE]
        /\ UNCHANGED dropped
     \/ /\ client[c].alive
        /\ dropped' = dropped \cup {<<"commit", c>>}
        /\ Step(c, "put")
     \/ ~client[c].alive /\ Step(c, "put") /\ UNCHANGED dropped
  /\ UNCHANGED <<pools, current, shut, taken>>

PutBack(c) ==
  /\ client[c].pc = "put"
  /\ IF Accepts(c) THEN taken' = Discard(c) /\ Ends(c, "done")
                   ELSE Step(c, "putFailed") /\ UNCHANGED taken
  /\ UNCHANGED <<pools, current, shut, dropped>>

(* After an exception: rolled back, put back, and raised.                   *)
PutFailed(c) ==
  /\ client[c].pc = "putFailed"
  /\ taken' = IF client[c].pool # 0 /\ Accepts(c) THEN Discard(c) ELSE taken
  /\ Ends(c, "failed")
  /\ UNCHANGED <<pools, current, shut, dropped>>

(* The caller goes on, and the thread is free for another call.             *)
Again(c) ==
  /\ client[c].pc = "done"
  /\ client' = [client EXCEPT ![c] = AtRestClient]
  /\ dropped' = dropped \ ({"commit", "replaced"} \X {c})
  /\ UNCHANGED <<pools, current, shut, taken>>

PoolNext ==
  \E c \in Clients :
    \/ AskConn(c) \/ MakePool(c) \/ GetConn(c) \/ TryConn(c) \/ TryFails(c) \/ ShutPool(c)
    \/ Query(c) \/ Commit(c) \/ PutBack(c) \/ PutFailed(c) \/ Again(c)

PoolSpec == PoolInit /\ [][PoolNext]_poolVars

------------------------------------------------------------------------------
(* Properties                                                                *)

(* Who hears that it is done has it written, unless the commit failed, and   *)
(* who hears that it failed has not, unless the pool was closed or replaced  *)
(* while he had its connection (db.py:56-78: mark_feedback_requested,        *)
(* save_ticket and add_stardust take a failure for "not written"); and no    *)
(* connection of the pool in use is out but one a thread is working with.    *)
ReportsHold ==
  /\ \A c \in Clients : client[c].pc = "done" =>
       /\ client[c].said = "done" => client[c].written \/ <<"commit", c>> \in dropped
       /\ client[c].said = "failed" /\ client[c].written =>
            <<"replaced", c>> \in dropped \/ client[c].pool \in shut
  /\ current # 0 /\ current \notin shut => \A c \in taken[current] :
       client[c].pool = current /\ client[c].pc \notin {"idle", "none", "get", "done"}
=============================================================================
