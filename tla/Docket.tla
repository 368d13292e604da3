------------------------------- MODULE Docket -------------------------------
(***************************************************************************)
(* What the certification desk promises, with every handler indivisible    *)
(* and time reduced to "a claim may lapse at any moment".  Each ship is     *)
(* pending, approved or rejected, and while it is pending at most one       *)
(* reviewer holds it.  Certification.tla implements this but for the writes  *)
(* of handlers that are late.                                               *)
(***************************************************************************)
CONSTANTS
  Users,        \* reviewers
  Megawrights,  \* the role that may decide over somebody's claim
  Overriders,   \* users with certs_override
  Certs,        \* ships
  NoUser        \* nobody

VARIABLES
  status,  \* [Certs -> {"pending", "approved", "rejected"}]
  holder   \* [Certs -> Users \cup {NoUser}]: who holds a live claim

docketVars == <<status, holder>>

DocketInit ==
  /\ status = [c \in Certs |-> "pending"]
  /\ holder = [c \in Certs |-> NoUser]

(* A reviewer takes a free pending ship, provided he holds no other.        *)
Take(u, c) ==
  /\ status[c] = "pending"
  /\ holder[c] = NoUser
  /\ \A d \in Certs : holder[d] # u
  /\ holder' = [holder EXCEPT ![c] = u]
  /\ UNCHANGED status

(* Claims lapse, several at once when the clock says so.                    *)
Lapse(S) ==
  /\ holder' = [c \in Certs |-> IF c \in S THEN NoUser ELSE holder[c]]
  /\ UNCHANGED status

(* The holder, or an overrider, gives a claim back.                         *)
GiveBack(u, c) ==
  /\ holder[c] = u \/ u \in Overriders
  /\ holder' = [holder EXCEPT ![c] = NoUser]
  /\ UNCHANGED status

(* A verdict ends the claim.  Only overriders touch a decided ship, and     *)
(* only megawrights decide a ship somebody else holds.                      *)
Decide(u, c, v) ==
  /\ status[c] = "pending" \/ u \in Overriders
  /\ holder[c] \in {NoUser, u} \/ u \in Megawrights
  /\ status' = [status EXCEPT ![c] = v]
  /\ holder' = [holder EXCEPT ![c] = NoUser]

DocketNext ==
  \/ \E u \in Users, c \in Certs :
       \/ Take(u, c)
       \/ GiveBack(u, c)
       \/ \E v \in {"pending", "approved", "rejected"} : Decide(u, c, v)
  \/ \E S \in SUBSET Certs : Lapse(S)

DocketSpec == DocketInit /\ [][DocketNext]_docketVars
=============================================================================
