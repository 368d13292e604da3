------------------------------- MODULE PgSync -------------------------------
(***************************************************************************)
(* The mirror in PostgreSQL (lib/pg-sync.ts): a pass pages through the ship   *)
(* certs and then the reviews by offset, ordered by id, while the dashboard *)
(* inserts and updates rows, and upserts each page.  cron/pg-sync starts it. *)
(***************************************************************************)
EXTENDS Naturals, FiniteSets

CONSTANTS
  Batch,    \* BATCH
  Ids,      \* ids that rows may get
  Passes,   \* slots for passes
  MaxEpoch  \* bound: inserts and updates

ASSUME BatchAssumption == Batch \in Nat \ {0}
ASSUME IdsAssumption == Ids \subseteq Nat /\ IsFiniteSet(Ids)

Tables == {"ship_certs", "ysws_reviews"}

VARIABLES
  table,   \* [Tables -> [Ids -> Nat]]: epoch of the row's last write, 0 if none
  mirror,  \* the same in PostgreSQL
  epoch,   \* how many writes there were
  pass,    \* [Passes -> Pass]: runPgSync in progress
  floor,   \* history: the tables when the last finished pass began
  racing   \* history: two passes have run at the same time

pgVars == <<table, mirror, epoch, pass, floor, racing>>

Contents == [Tables -> [Ids -> Nat]]
Pass == [pc : {"idle", "read", "upsert"}, of : Tables, offset : Nat,
         page : SUBSET Ids, got : [Ids -> Nat], begun : Contents]

Empty == [t \in Tables |-> [i \in Ids |-> 0]]
Resting == [pc |-> "idle", of |-> "ship_certs", offset |-> 0,
            page |-> {}, got |-> [i \in Ids |-> 0], begun |-> Empty]

PgTypeOK ==
  /\ table \in Contents /\ mirror \in Contents /\ floor \in Contents
  /\ epoch \in Nat
  /\ pass \in [Passes -> Pass]
  /\ racing \in BOOLEAN

PgInit ==
  /\ table = Empty /\ mirror = Empty /\ floor = Empty
  /\ epoch = 0
  /\ pass = [p \in Passes |-> Resting]
  /\ racing = FALSE

(* The dashboard inserts or updates a row; it deletes none.                 *)
WriteRow(t, i) ==
  /\ epoch < MaxEpoch
  /\ epoch' = epoch + 1
  /\ table' = [table EXCEPT ![t][i] = epoch + 1]
  /\ UNCHANGED <<mirror, pass, floor, racing>>

StartPass(p) ==
  /\ pass[p].pc = "idle"
  /\ pass' = [pass EXCEPT ![p] = [Resting EXCEPT !.pc = "read", !.begun = table]]
  /\ racing' = (racing \/ \E q \in Passes : pass[q].pc # "idle")
  /\ UNCHANGED <<table, mirror, epoch, floor>>

Rows(t) == {i \in Ids : table[t][i] > 0}
Lesser(m, n) == IF m < n THEN m ELSE n

(* The n rows of R with the smallest ids.                                   *)
IsFirst(S, n, R) ==
  /\ S \subseteq R
  /\ \A i \in S, j \in R \ S : i < j
  /\ Cardinality(S) = Lesser(n, Cardinality(R))

(* A short page, or none, ends a table; the second table ends the pass.     *)
Ended(p) ==
  IF pass[p].of = "ship_certs"
    THEN /\ pass' = [pass EXCEPT ![p] = [Resting EXCEPT !.pc = "read", !.of = "ysws_reviews",
                                                        !.begun = pass[p].begun]]
         /\ UNCHANGED floor
    ELSE /\ pass' = [pass EXCEPT ![p] = Resting]
         /\ floor' = pass[p].begun

(* findMany with skip and take.                                             *)
ReadPage(p) ==
  /\ pass[p].pc = "read"
  /\ LET R == Rows(pass[p].of) IN
       \E skipped \in SUBSET R : \E page \in SUBSET (R \ skipped) :
         /\ IsFirst(skipped, pass[p].offset, R)
         /\ IsFirst(page, Batch, R \ skipped)
         /\ IF page = {} THEN Ended(p)
            ELSE /\ pass' = [pass EXCEPT ![p].pc = "upsert", ![p].page = page,
                                         ![p].got = table[pass[p].of]]
                 /\ UNCHANGED floor
  /\ UNCHANGED <<table, mirror, epoch, racing>>

(* Fault: a full page ends the table too.                                    *)
UpsertPageOnce(p) ==
  /\ pass[p].pc = "upsert"
  /\ mirror' = [mirror EXCEPT ![pass[p].of] =
       [i \in Ids |-> IF i \in pass[p].page THEN pass[p].got[i] ELSE @[i]]]
  /\ IF Cardinality(pass[p].page) <= Batch THEN Ended(p)
     ELSE /\ pass' = [pass EXCEPT ![p].pc = "read", ![p].page = {},
                                  ![p].offset = @ + Cardinality(pass[p].page)]
          /\ UNCHANGED floor
  /\ UNCHANGED <<table, epoch, racing>>

UpsertPage(p) ==
  /\ pass[p].pc = "upsert"
  /\ mirror' = [mirror EXCEPT ![pass[p].of] =
       [i \in Ids |-> IF i \in pass[p].page THEN pass[p].got[i] ELSE @[i]]]
  /\ IF Cardinality(pass[p].page) < Batch THEN Ended(p)
     ELSE /\ pass' = [pass EXCEPT ![p].pc = "read", ![p].page = {},
                                  ![p].offset = @ + Cardinality(pass[p].page)]
          /\ UNCHANGED floor
  /\ UNCHANGED <<table, epoch, racing>>

(* A query throws; what was upserted stays.                                 *)
BreakPass(p) ==
  /\ pass[p].pc # "idle"
  /\ pass' = [pass EXCEPT ![p] = Resting]
  /\ UNCHANGED <<table, mirror, epoch, floor, racing>>

PgNext ==
  \/ \E t \in Tables, i \in Ids : WriteRow(t, i)
  \/ \E p \in Passes : StartPass(p) \/ ReadPage(p) \/ UpsertPage(p) \/ BreakPass(p)

PgSpec == PgInit /\ [][PgNext]_pgVars

------------------------------------------------------------------------------
(* Properties                                                                *)

(* Rows inserted or updated while a pass pages by offset make it miss none:  *)
(* the mirror has every row of both tables that was there when the last      *)
(* finished pass began, in the version of that time or a later one, and no   *)
(* version that the tables did not have; unless two passes ran at once       *)
(* (pg-sync.ts:17-172).                                                      *)
MirrorCovers ==
  \A t \in Tables, i \in Ids :
    /\ mirror[t][i] <= table[t][i]
    /\ ~racing => mirror[t][i] >= floor[t][i]
=============================================================================
