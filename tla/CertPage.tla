------------------------------ MODULE CertPage ------------------------------
(***************************************************************************)
(* The page on which a ship cert is decided (edit/form.tsx and               *)
(* hooks/useShipCert.tsx): the copy of the row it loaded, the countdown of a *)
(* claim, the upload of the proof video, the one request it has in progress, *)
(* and the type and bounty it shows before they are stored.  Each handler it *)
(* calls is one step here: Certification has their awaits.  Feedback is      *)
(* always written: without it a click changes nothing.                       *)
(***************************************************************************)
EXTENDS Naturals

CONSTANTS
  Films, NoFilm,  \* proof videos
  Kinds,          \* project types
  Sums,           \* custom bounties; 0 is none
  Lock,           \* 30 minutes, in ticks
  Second,         \* ticks the countdown rounds down to
  Fetches,        \* slots for loads
  PatchSlots,          \* slots for PATCH requests of the type or the bounty
  MaxTick,        \* bound: ticks
  MaxClicks,      \* bound: clicks here and requests of others
  MaxFetches      \* bound: loads a new note starts

ASSUME LockAssumption == Second \in Nat \ {0} /\ Lock \in Nat /\ Lock > Second

VARIABLES
  rank,     \* the reviewer's role
  certRow,  \* the row
  sheet,    \* the page's copy of it
  form,     \* chosen file, uploaded url, open dialog, bounty field
  call,     \* claim, unclaim or verdict in progress (submitting)
  fetches,  \* loads in progress
  patching,    \* PATCH requests of type and bounty in progress
  tick, clicks, fetched,
  checking, \* the webhook that made the cert awaits the type check
  muddled,  \* history: a PATCH of this page met a load or another PATCH of it,
            \* or was refused
  outdated  \* history: fields others wrote since the copy shown was served, or
            \* since this page last stored them

certPageVars == <<rank, certRow, sheet, form, call, fetches, patching, tick, clicks, fetched, checking, muddled, outdated>>

Ranks == {"shipwright", "captain", "megawright"}
Holders == {"nobody", "me", "other"}
Decided == {"approved", "rejected"}
EditedFields == {"kind", "sum"}
CertStates == Decided \cup {"pending"}
NoCall == [what |-> "none", verdict |-> "pending", film |-> NoFilm, pc |-> "none"]
NoPatch == [pc |-> "none", of |-> "kind", to |-> 0]
BlankSheet == [loaded |-> FALSE, status |-> "pending", by |-> "nobody", since |-> 0, locked |-> FALSE,
          kind |-> CHOOSE k \in Kinds : TRUE, sum |-> 0, film |-> NoFilm, holder |-> "nobody"]
NoFetch == [pc |-> "none", got |-> BlankSheet, late |-> {}]

Sheets == [loaded : BOOLEAN, status : CertStates, by : Holders, since : Nat, locked : BOOLEAN,
           kind : Kinds, sum : Sums \cup {0}, film : Films \cup {NoFilm}, holder : Holders]

CertPageTypeOK ==
  /\ rank \in Ranks /\ sheet \in Sheets
  /\ certRow \in [status : CertStates, holder : Holders, since : Nat, kind : Kinds,
                  sum : Sums \cup {0}, film : Films \cup {NoFilm}, reship : BOOLEAN]
  /\ form \in [file : Films \cup {NoFilm}, url : Films \cup {NoFilm}, uploading : BOOLEAN,
               dialog : Decided \cup {"closed"}, field : Sums \cup {0}, left : BOOLEAN]
  /\ call \in [what : {"none", "claim", "unclaim", "verdict"}, verdict : CertStates,
               film : Films \cup {NoFilm}, pc : {"none", "sent", "ok", "refused"}]
  /\ fetches \in [Fetches -> [pc : {"none", "sent", "back"}, got : Sheets, late : SUBSET EditedFields]]
  /\ \A e \in PatchSlots : patching[e] = NoPatch \/ patching[e].pc = "sent"
  /\ tick \in Nat /\ clicks \in 0 .. MaxClicks /\ muddled \in BOOLEAN
  /\ checking \in BOOLEAN /\ outdated \subseteq EditedFields

CertPageInit ==
  /\ rank \in Ranks
  /\ certRow \in [status : {"pending"}, holder : {"nobody"}, since : {0}, kind : {BlankSheet.kind},
                  sum : {0}, film : {NoFilm}, reship : BOOLEAN]
  /\ sheet = BlankSheet
  /\ form = [file |-> NoFilm, url |-> NoFilm, uploading |-> FALSE, dialog |-> "closed",
             field |-> 0, left |-> FALSE]
  /\ call = NoCall
  /\ fetches = [f \in Fetches |-> NoFetch] /\ patching = [e \in PatchSlots |-> NoPatch]
  /\ tick = 1 /\ clicks = 0 /\ fetched = 0 /\ muddled = FALSE
  /\ checking \in BOOLEAN /\ outdated = {}

Override == rank # "shipwright"
ClaimLive(since) == since + Lock > tick

(* The countdown, in whole seconds.                                         *)
SecondsLeft(since) == IF ClaimLive(since) THEN (since + Lock - tick) \div Second ELSE 0

CertClick == clicks < MaxClicks /\ clicks' = clicks + 1 /\ ~form.left

------------------------------------------------------------------------------
(* Loading                                                                   *)

FetchSent(f) == [fetches EXCEPT ![f] = [NoFetch EXCEPT !.pc = "sent"]]
EditsOut == \E e \in PatchSlots : patching[e].pc # "none"

(* A note was added, or the page opens.                                     *)
LoadCert(f) ==
  /\ fetches[f].pc = "none" /\ fetched < MaxFetches /\ ~form.left
  /\ fetched' = fetched + 1
  /\ fetches' = FetchSent(f)
  /\ muddled' = (muddled \/ EditsOut)
  /\ UNCHANGED <<rank, certRow, sheet, form, call, patching, tick, clicks, checking, outdated>>

(* What GET answers: a claim that lapsed is not told, but its start is.     *)
CertAnswer ==
  LET told == certRow.status = "pending" /\ certRow.holder # "nobody" /\ ClaimLive(certRow.since)
  IN [loaded |-> TRUE, status |-> certRow.status,
      by |-> IF told THEN certRow.holder ELSE "nobody", since |-> certRow.since,
      locked |-> told /\ certRow.holder = "other" /\ rank # "megawright",
      kind |-> certRow.kind, sum |-> certRow.sum, film |-> certRow.film, holder |-> certRow.holder]

ServeCert(f) ==
  /\ fetches[f].pc = "sent"
  /\ fetches' = [fetches EXCEPT ![f] = [pc |-> "back", got |-> CertAnswer, late |-> {}]]
  /\ UNCHANGED <<rank, certRow, sheet, form, call, patching, tick, clicks, fetched, muddled, checking, outdated>>

(* An empty bounty field takes the bounty the page shows.                   *)
FieldAfter(field, sum) == IF field = 0 THEN sum ELSE field

ShowCert(f) ==
  /\ fetches[f].pc = "back"
  /\ sheet' = fetches[f].got
  /\ form' = [form EXCEPT !.field = FieldAfter(@, sheet'.sum)]
  /\ fetches' = [fetches EXCEPT ![f] = NoFetch]
  /\ outdated' = fetches[f].late
  /\ UNCHANGED <<rank, certRow, call, patching, tick, clicks, fetched, muddled, checking>>

FailCert(f) ==
  /\ fetches[f].pc # "none"
  /\ fetches' = [fetches EXCEPT ![f] = NoFetch]
  /\ UNCHANGED <<rank, certRow, sheet, form, call, patching, tick, clicks, fetched, muddled, checking, outdated>>

------------------------------------------------------------------------------
(* Claims and verdicts                                                       *)

(* The button is offered to who may edit, unless he holds the claim.        *)
ClaimOffered ==
  /\ sheet.loaded /\ sheet.status = "pending" /\ sheet.by # "me"
  /\ sheet.by = "nobody" \/ (sheet.since # 0 /\ SecondsLeft(sheet.since) = 0)

(* Approve and Reject are disabled while somebody else's claim runs.        *)
DecideWithheld == sheet.by = "other" /\ SecondsLeft(sheet.since) > 0 /\ ~Override

Requests(what, verdict, film) ==
  call' = [what |-> what, verdict |-> verdict, film |-> film, pc |-> "sent"]

StartReview ==
  /\ CertClick /\ ClaimOffered /\ call.what = "none"
  /\ Requests("claim", "pending", NoFilm)
  /\ UNCHANGED <<rank, certRow, sheet, form, fetches, patching, tick, fetched, muddled, checking, outdated>>

Unclaim ==
  /\ CertClick /\ call.what = "none"
  /\ sheet.by = "me" /\ sheet.status = "pending"
  /\ Requests("unclaim", "pending", NoFilm)
  /\ UNCHANGED <<rank, certRow, sheet, form, fetches, patching, tick, fetched, muddled, checking, outdated>>

OpenDialog(verdict) ==
  /\ CertClick /\ sheet.loaded /\ call.what = "none" /\ ~DecideWithheld
  /\ form' = [form EXCEPT !.dialog = verdict]
  /\ UNCHANGED <<rank, certRow, sheet, call, fetches, patching, tick, fetched, muddled, checking, outdated>>

(* update(): a claim told at the last load, no video, or one still being     *)
(* uploaded, keep the verdict here.                                          *)
Film == IF form.url # NoFilm THEN form.url ELSE sheet.film
MaySubmit ==
  /\ call.what = "none" /\ ~(sheet.locked /\ ~Override)
  /\ Film # NoFilm \/ certRow.reship
  /\ form.file = NoFilm \/ form.url # NoFilm

Confirm ==
  /\ form.dialog # "closed" /\ ~form.left
  /\ form' = [form EXCEPT !.dialog = "closed"]
  /\ IF MaySubmit THEN Requests("verdict", form.dialog, Film) ELSE UNCHANGED call
  /\ UNCHANGED <<rank, certRow, sheet, fetches, patching, tick, clicks, fetched, muddled, checking, outdated>>

Uncert ==
  /\ CertClick /\ sheet.status \in Decided /\ MaySubmit
  /\ Requests("verdict", "pending", Film)
  /\ UNCHANGED <<rank, certRow, sheet, form, fetches, patching, tick, fetched, muddled, checking, outdated>>

OthersClaim == certRow.status = "pending" /\ certRow.holder = "other" /\ ClaimLive(certRow.since)

Claimed ==
  IF certRow.status # "pending" \/ (certRow.holder # "nobody" /\ ClaimLive(certRow.since)) THEN certRow
  ELSE [certRow EXCEPT !.holder = "me", !.since = tick]
Released == [certRow EXCEPT !.holder = "nobody", !.since = 0]
DecidedRow == [certRow EXCEPT !.status = call.verdict, !.holder = "nobody", !.film = call.film,
                              !.since = IF @ = 0 THEN tick ELSE @]

(* The handler is done: it wrote, or it refused or failed.                  *)
ServeCall ==
  /\ call.pc = "sent"
  /\ \/ /\ call.what = "claim" /\ ~(OthersClaim /\ rank # "megawright")
        /\ certRow' = Claimed /\ call' = [call EXCEPT !.pc = "ok"]
     \/ /\ call.what = "unclaim" /\ (certRow.holder = "me" \/ Override)
        /\ certRow' = Released /\ call' = [call EXCEPT !.pc = "ok"]
     \/ /\ call.what = "verdict" /\ (certRow.status = "pending" \/ Override)
        /\ ~(OthersClaim /\ rank # "megawright")
        /\ certRow' = DecidedRow /\ call' = [call EXCEPT !.pc = "ok"]
     \/ certRow' = certRow /\ call' = [call EXCEPT !.pc = "refused"]
  /\ UNCHANGED <<rank, sheet, form, fetches, patching, tick, clicks, fetched, muddled, checking, outdated>>

(* A claim or its release is followed by a load, a verdict by the list.     *)
CallBack ==
  /\ call.pc \in {"ok", "refused"}
  /\ call' = NoCall
  /\ form' = [form EXCEPT !.left = call.pc = "ok" /\ call.what = "verdict"]
  /\ IF call.pc = "ok" /\ call.what # "verdict"
       THEN \E f \in Fetches : fetches[f].pc = "none" /\ fetches' = FetchSent(f)
       ELSE UNCHANGED fetches
  /\ muddled' = (muddled \/ (fetches' # fetches /\ EditsOut))
  /\ UNCHANGED <<rank, certRow, sheet, patching, tick, clicks, fetched, checking, outdated>>

------------------------------------------------------------------------------
(* The video                                                                 *)

(* Neither the input nor a drop takes a file while one is uploaded.         *)
ChooseFile(film) ==
  /\ CertClick /\ ~form.uploading
  /\ form' = [form EXCEPT !.file = film, !.uploading = TRUE]
  /\ UNCHANGED <<rank, certRow, sheet, call, fetches, patching, tick, fetched, muddled, checking, outdated>>

(* Fault: the file that failed stays chosen.                                 *)
UploadKept(done) == [form EXCEPT !.uploading = FALSE, !.url = IF done THEN form.file ELSE @]

UploadEnds(done) ==
  [form EXCEPT !.uploading = FALSE, !.url = IF done THEN form.file ELSE @,
               !.file = IF done THEN @ ELSE NoFilm]

Upload ==
  /\ form.uploading
  /\ \E done \in BOOLEAN : form' = UploadEnds(done)
  /\ UNCHANGED <<rank, certRow, sheet, call, fetches, patching, tick, clicks, fetched, muddled, checking, outdated>>

------------------------------------------------------------------------------
(* Type and bounty: shown first, then stored                                 *)

EditSent(e, of, to) ==
  /\ patching[e].pc = "none"
  /\ patching' = [patching EXCEPT ![e] = [pc |-> "sent", of |-> of, to |-> to]]
  /\ muddled' = (muddled \/ EditsOut \/ \E f \in Fetches : fetches[f].pc # "none")

SetType(e, kind) ==
  /\ CertClick /\ sheet.loaded
  /\ sheet' = [sheet EXCEPT !.kind = kind]
  /\ EditSent(e, "kind", kind)
  /\ UNCHANGED <<rank, certRow, form, call, fetches, tick, fetched, checking, outdated>>

TypeBounty(sum) ==
  /\ CertClick /\ sheet.loaded /\ Override
  /\ form' = [form EXCEPT !.field = FieldAfter(sum, sheet.sum)]
  /\ UNCHANGED <<rank, certRow, sheet, call, fetches, patching, tick, fetched, muddled, checking, outdated>>

SaveBounty(e) ==
  /\ CertClick /\ sheet.loaded /\ Override
  /\ sheet' = [sheet EXCEPT !.sum = form.field]
  /\ EditSent(e, "sum", form.field)
  /\ UNCHANGED <<rank, certRow, form, call, fetches, tick, fetched, checking, outdated>>

ServeEdit(e) ==
  /\ patching[e].pc = "sent"
  /\ patching' = [patching EXCEPT ![e] = NoPatch]
  /\ \/ /\ certRow' = IF patching[e].of = "kind" THEN [certRow EXCEPT !.kind = patching[e].to]
                                              ELSE [certRow EXCEPT !.sum = patching[e].to]
        /\ outdated' = outdated \ {patching[e].of}
        /\ UNCHANGED muddled
     \/ muddled' = TRUE /\ UNCHANGED <<certRow, outdated>>
  /\ UNCHANGED <<rank, sheet, form, call, fetches, tick, clicks, fetched, checking>>

------------------------------------------------------------------------------
(* Everybody else                                                            *)

ClaimedElsewhere ==
  /\ CertClick /\ certRow.status = "pending"
  /\ ~(certRow.holder # "nobody" /\ ClaimLive(certRow.since))
  /\ certRow' = [certRow EXCEPT !.holder = "other", !.since = tick]
  /\ UNCHANGED <<rank, sheet, form, call, fetches, patching, tick, fetched, muddled, checking, outdated>>

DecidedElsewhere(verdict) ==
  /\ CertClick /\ certRow.status = "pending"
  /\ ~(certRow.holder = "me" /\ ClaimLive(certRow.since))
  /\ certRow' = [certRow EXCEPT !.status = verdict, !.holder = "nobody",
                                !.since = IF @ = 0 THEN tick ELSE @]
  /\ UNCHANGED <<rank, sheet, form, call, fetches, patching, tick, fetched, muddled, checking, outdated>>

Outdates(field) ==
  /\ outdated' = outdated \cup {field}
  /\ fetches' = [f \in Fetches |-> [fetches[f] EXCEPT !.late = IF fetches[f].pc = "back" THEN @ \cup {field} ELSE @]]

(* Another reviewer's or tab's PATCH of the type, or of the bounty.          *)
TypedElsewhere(kind) ==
  /\ CertClick
  /\ certRow' = [certRow EXCEPT !.kind = kind] /\ Outdates("kind")
  /\ UNCHANGED <<rank, sheet, form, call, patching, tick, fetched, checking, muddled>>

BountyElsewhere(sum) ==
  /\ CertClick
  /\ certRow' = [certRow EXCEPT !.sum = sum] /\ Outdates("sum")
  /\ UNCHANGED <<rank, sheet, form, call, patching, tick, fetched, checking, muddled>>

(* The check the webhook awaited after it made the cert answers, or fails.   *)
TypeChecked(kind) ==
  /\ checking
  /\ checking' = FALSE
  /\ \/ certRow' = [certRow EXCEPT !.kind = kind] /\ Outdates("kind")
     \/ UNCHANGED <<certRow, fetches, outdated>>
  /\ UNCHANGED <<rank, sheet, form, call, patching, tick, clicks, fetched, muddled>>

TimePasses ==
  /\ tick < MaxTick /\ tick' = tick + 1
  /\ UNCHANGED <<rank, certRow, sheet, form, call, fetches, patching, clicks, fetched, muddled, checking, outdated>>

CertPageNext ==
  \/ \E f \in Fetches : LoadCert(f) \/ ServeCert(f) \/ ShowCert(f) \/ FailCert(f)
  \/ StartReview \/ Unclaim \/ Confirm \/ Uncert \/ ServeCall \/ CallBack \/ Upload
  \/ \E v \in Decided : OpenDialog(v) \/ DecidedElsewhere(v)
  \/ \E film \in Films : ChooseFile(film)
  \/ \E e \in PatchSlots : SaveBounty(e) \/ ServeEdit(e) \/ \E k \in Kinds : SetType(e, k)
  \/ \E sum \in Sums \cup {0} : TypeBounty(sum) \/ BountyElsewhere(sum)
  \/ \E kind \in Kinds : TypedElsewhere(kind) \/ TypeChecked(kind)
  \/ ClaimedElsewhere \/ TimePasses

CertPageSpec == CertPageInit /\ [][CertPageNext]_certPageVars

------------------------------------------------------------------------------
(* Properties                                                                *)

(* The claim in the row is the one the page loaded.                         *)
ClaimIsShown ==
  /\ sheet.loaded
  /\ <<sheet.status, sheet.holder, sheet.since>> = <<certRow.status, certRow.holder, certRow.since>>

(* What the page tells is so.  While the claim is the one it loaded, it      *)
(* offers a claim no more than a second before the other's has lapsed, and   *)
(* withholds the decision only while the other's runs (form.tsx:135-151,     *)
(* 783-805 against route.ts:217); the file it names is the video it will     *)
(* send, once the upload is over (useShipCert.tsx:346-375); type and bounty  *)
(* (377-403) are the row's, unless somebody else, or the late type check,    *)
(* wrote that field after the copy shown was served, or requests of this     *)
(* page met or one was refused.                                              *)
PageIsHonest ==
  /\ ClaimIsShown /\ ClaimOffered /\ certRow.holder = "other" => certRow.since + Lock < tick + Second
  /\ ClaimIsShown /\ DecideWithheld => OthersClaim
  /\ ~form.uploading /\ form.file # NoFilm => form.url = form.file
  /\ sheet.loaded /\ ~muddled /\ ~EditsOut =>
       /\ "kind" \in outdated \/ sheet.kind = certRow.kind
       /\ "sum" \in outdated \/ sheet.sum = certRow.sum
=============================================================================
