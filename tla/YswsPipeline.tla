---------------------------- MODULE YswsPipeline ----------------------------
(***************************************************************************)
(* The certification desk together with the YSWS reviews it feeds.          *)
(*                                                                          *)
(* An approval leaves a callback with Next's after(): createYsws looks for  *)
(* an earlier review, fetches devlogs and commits for as long as that       *)
(* takes, looks at the ship once more and creates the review.  A YSWS       *)
(* reviewer completes, returns or undoes a review; a return puts the ship   *)
(* back in the queue with a second, separate update.                        *)
(***************************************************************************)
EXTENDS Certification

CONSTANTS
  Jobs,        \* slots for after() callbacks
  Handlers,    \* slots for PATCH requests on YSWS reviews
  MaxReviews,  \* bound: rows of ysws_reviews
  MaxPatches   \* bound: PATCH requests on reviews

ASSUME PipelineAssumption == {MaxReviews, MaxPatches} \subseteq Nat
ASSUME JobsAssumption == IsFiniteSet(Jobs)

VARIABLES
  review,   \* sequence by id (and createdAt) of [cert, status]
  job,      \* [Jobs -> [pc, cert]]
  patch,    \* [Handlers -> [pc, id, close]]
  patches,  \* how many PATCH requests have started
  dropped   \* ships whose approval or return died half way

pipeVars == <<review, job, patch, patches, dropped>>
allVars == <<vars, pipeVars>>

ReviewStatus == {"pending", "done", "returned"}
NoJob == [pc |-> "idle", cert |-> CHOOSE c \in Certs : TRUE]
NoPatch == [pc |-> "idle", id |-> 0, close |-> "undo"]

PipeTypeOK ==
  /\ TypeOK
  /\ DOMAIN review = 1 .. Cardinality(DOMAIN review)
  /\ \A i \in DOMAIN review : review[i] \in [cert : Certs, status : ReviewStatus]
  /\ job \in [Jobs -> [pc : {"idle", "look", "fetch", "create"}, cert : Certs]]
  /\ patch \in [Handlers -> [pc : {"idle", "write", "reopen"}, id : Nat,
                             close : {"undo", "done", "returned"}]]
  /\ patches \in 0 .. MaxPatches
  /\ dropped \subseteq Certs

PipeInit ==
  /\ Init
  /\ review = <<>>
  /\ job = [j \in Jobs |-> NoJob]
  /\ patch = [h \in Handlers |-> NoPatch]
  /\ patches = 0
  /\ dropped = {}

------------------------------------------------------------------------------
(* The desk moves.  A handler that comes to the end of an approval leaves   *)
(* the callback; any other step of a handler touches no review.             *)
DeskResumes(r) ==
  /\ \/ /\ GoesOn(r) \/ (Ends(r) /\ req[r].verdict # "approved")
        /\ UNCHANGED job
     \/ /\ Ends(r)
        /\ req[r].verdict = "approved"
        /\ \E j \in Jobs :
             /\ job[j].pc = "idle"
             /\ job' = [job EXCEPT ![j] = [pc |-> "look", cert |-> req[r].cert]]
  /\ UNCHANGED <<review, patch, patches, dropped>>

(* A handler dies: between the verdict on the row and the callback, the     *)
(* callback is never left.                                                   *)
DeskDies(r) ==
  /\ Abort(r)
  /\ dropped' = IF req[r].pc \in {"credit", "sync", "mark"}
                   /\ req[r].verdict = "approved"
                THEN dropped \cup {req[r].cert} ELSE dropped
  /\ UNCHANGED <<job, review, patch, patches>>

DeskStep ==
  \/ \E r \in Requests :
       \/ DeskResumes(r)
       \/ DeskDies(r)
       \/ Arrive(r) /\ UNCHANGED pipeVars
  \/ Tick /\ UNCHANGED pipeVars

------------------------------------------------------------------------------
(* createYsws                                                                *)

ReviewsOf(c) == {i \in DOMAIN review : review[i].cert = c}

(* Fault: any review blocks the next one, a returned one too.                *)
BlockedByAny(c) == ReviewsOf(c) # {}

(* The newest review of the ship, if any, has not been returned: throw.     *)
Blocked(c) ==
  \E i \in ReviewsOf(c) :
    /\ \A k \in ReviewsOf(c) : k <= i
    /\ review[i].status # "returned"

JobLook(j) ==
  /\ job[j].pc = "look"
  /\ \/ Blocked(job[j].cert) /\ job' = [job EXCEPT ![j] = NoJob]
     \/ ~Blocked(job[j].cert) /\ job' = [job EXCEPT ![j].pc = "fetch"]
  /\ UNCHANGED <<vars, review, patch, patches, dropped>>

(* Fault: the fresh read is tested the wrong way round.                      *)
JobRecheckInverted(j) ==
  /\ job[j].pc = "fetch"
  /\ \/ cert[job[j].cert].status # "approved" /\ job' = [job EXCEPT ![j].pc = "create"]
     \/ cert[job[j].cert].status = "approved" /\ job' = [job EXCEPT ![j] = NoJob]
  /\ UNCHANGED <<vars, review, patch, patches, dropped>>

(* The fetches are over; the fresh read decides.                            *)
JobRecheck(j) ==
  /\ job[j].pc = "fetch"
  /\ \/ cert[job[j].cert].status = "approved" /\ job' = [job EXCEPT ![j].pc = "create"]
     \/ cert[job[j].cert].status # "approved" /\ job' = [job EXCEPT ![j] = NoJob]
  /\ UNCHANGED <<vars, review, patch, patches, dropped>>

JobCreate(j) ==
  /\ job[j].pc = "create"
  /\ Cardinality(DOMAIN review) < MaxReviews
  /\ LET id == Cardinality(DOMAIN review) + 1 IN
       review' = [i \in 1 .. id |-> IF i < id THEN review[i]
                                    ELSE [cert |-> job[j].cert, status |-> "pending"]]
  /\ job' = [job EXCEPT ![j] = NoJob]
  /\ UNCHANGED <<vars, patch, patches, dropped>>

(* A fetch throws or the process dies: nobody schedules the callback again. *)
JobLost(j) ==
  /\ job[j].pc # "idle"
  /\ job' = [job EXCEPT ![j] = NoJob]
  /\ dropped' = dropped \cup {job[j].cert}
  /\ UNCHANGED <<vars, review, patch, patches>>

------------------------------------------------------------------------------
(* PATCH /ysws_reviews/:id.  The row read is not looked at for its status.   *)
PatchRead(h, i, close) ==
  /\ patch[h].pc = "idle"
  /\ patches < MaxPatches
  /\ patches' = patches + 1
  /\ patch' = [patch EXCEPT ![h] = [pc |-> "write", id |-> i, close |-> close]]
  /\ UNCHANGED <<vars, review, job, dropped>>

PatchWrite(h) ==
  /\ patch[h].pc = "write"
  /\ review' = [review EXCEPT ![patch[h].id].status =
                  IF patch[h].close = "undo" THEN "pending" ELSE patch[h].close]
  /\ patch' = IF patch[h].close = "returned"
              THEN [patch EXCEPT ![h].pc = "reopen"]
              ELSE [patch EXCEPT ![h] = NoPatch]
  /\ UNCHANGED <<vars, job, patches, dropped>>

(* The ship goes back to the queue with its claim columns as they are, and  *)
(* without a word to Flavortown.                                            *)
Reopen(h) ==
  /\ patch[h].pc = "reopen"
  /\ cert' = [cert EXCEPT ![review[patch[h].id].cert].status = "pending"]
  /\ patch' = [patch EXCEPT ![h] = NoPatch]
  /\ missed' = [r \in Requests |->
       IF req[r].pc # "idle" /\ req[r].cert = review[patch[h].id].cert
       THEN missed[r] \cup {"verdict"} ELSE missed[r]]
  /\ UNCHANGED <<lifetime, lost, ft, req, now, started, doubled, review, job, patches,
                 dropped>>

(* Only the second write of a return is missed.                              *)
PatchAbort(h) ==
  /\ patch[h].pc # "idle"
  /\ patch' = [patch EXCEPT ![h] = NoPatch]
  /\ dropped' = IF patch[h].pc = "reopen"
                THEN dropped \cup {review[patch[h].id].cert} ELSE dropped
  /\ UNCHANGED <<vars, review, job, patches>>

------------------------------------------------------------------------------
JobStep(j) == JobLook(j) \/ JobRecheck(j) \/ JobCreate(j)
PatchStep(h) == PatchWrite(h) \/ Reopen(h)

PipeNext ==
  \/ DeskStep
  \/ \E j \in Jobs : JobStep(j) \/ JobLost(j)
  \/ \E h \in Handlers :
       \/ \E i \in DOMAIN review, close \in {"undo", "done", "returned"} :
            PatchRead(h, i, close)
       \/ PatchStep(h)
       \/ PatchAbort(h)

PipeSpec == PipeInit /\ [][PipeNext]_allVars

(* The event loop resumes every handler and callback whose await is over.    *)
FairPipeSpec ==
  /\ PipeSpec
  /\ \A r \in Requests : WF_allVars(DeskResumes(r))
  /\ \A j \in Jobs : WF_allVars(JobStep(j))
  /\ \A h \in Handlers : WF_allVars(PatchStep(h))

------------------------------------------------------------------------------
(* Properties                                                                *)

Live(c) == \E i \in ReviewsOf(c) : review[i].status # "returned"

(* Work in progress that will give the ship a review or reopen it.           *)
InProgress(c) ==
  \/ \E r \in Requests : req[r].cert = c /\ req[r].verdict = "approved"
                         /\ req[r].pc \in {"credit", "sync", "mark"}
  \/ \E j \in Jobs : job[j].pc # "idle" /\ job[j].cert = c
  \/ \E h \in Handlers : patch[h].pc = "reopen" /\ review[patch[h].id].cert = c

(* No approved ship is forgotten, whether Flavortown takes the verdict or   *)
(* not: it has a review to be done or done, or somebody is still working on *)
(* it, or a handler or callback for this very ship died                     *)
(* ([id]/route.ts:437-471, ysws.ts:268-276 and 359-363,                      *)
(* ysws_reviews/[id]/route.ts:113-133).                                      *)
ApprovedIsCovered ==
  \A c \in Certs :
    cert[c].status = "approved" => Live(c) \/ InProgress(c) \/ c \in dropped

(* ... and that work ends: every approval leads to a review, unless the     *)
(* ship leaves the approved state first.                                    *)
ApprovedGetsReview ==
  \A c \in Certs :
    cert[c].status = "approved"
      ~> Live(c) \/ cert[c].status # "approved" \/ c \in dropped

(* Whatever fails, a ship goes to YSWS once per approval that was paid for: *)
(* the callback is left after the credit ([id]/route.ts:327-336, 461-471).  *)
ReviewsArePaidFor ==
  Cardinality(DOMAIN review) + Cardinality({j \in Jobs : job[j].pc # "idle"})
    <= Total(lifetime, Users)
=============================================================================
