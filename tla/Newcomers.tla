------------------------------ MODULE Newcomers ------------------------------
(***************************************************************************)
(* How somebody becomes a member of staff: the form of add-user.tsx with its *)
(* two boxes for Slack ids, each looked up 400 ms after it was last changed, *)
(* users/add/route.ts behind it, and the two routes that add users without a *)
(* form.  Answers to lookups come in any order and also after the form was   *)
(* closed, for closing only hides and empties it.                            *)
(***************************************************************************)
EXTENDS Naturals

CONSTANTS
  Applicants,   \* Slack ids of people
  AddForms,   \* pages with the form
  FtNumbers,  \* users.ftuid
  MaxKeyed    \* bound: what is typed and clicked, and users added elsewhere

VARIABLES
  blank,     \* [AddForms -> ...]: what is in the form, and its timers
  lookups,   \* [AddForms -> ...]: lookups on their way
  crossing,  \* history: boxes whose timer went off with a lookup on its way
  post,    \* [AddForms -> ...]: the request that adds
  member,    \* users by Slack id
  audited,   \* who has an entry "user created"
  cut,       \* history: whose handler ended between the two
  elsewhere,   \* requests of the other routes that found nobody
  keyed

newcomerVars == <<blank, lookups, crossing, post, member, audited, cut, elsewhere, keyed>>

Boxes == {"slackId", "fraudById"}
Partial == "part of an id"
Inputs == Applicants \cup {"", Partial}
Named == Applicants \cup {"", "edited"}   \* as Slack has it, or as it was typed over
Nobody == "nobody"
Jobs == {"observer", "shipwright"}   \* what matters of roles

Absent == [made |-> "never"]
UserRows ==
  [made : {"form", "elsewhere"}, name : Named, ft : FtNumbers \cup {""}, role : Jobs,
   isActive : BOOLEAN, by : Inputs, calm : BOOLEAN]
Unposted == [pc |-> "none"]
Posts ==
  [pc : {"sent", "looked", "made", "ok", "refused"}, slackId : Inputs, name : Named,
   ft : FtNumbers, role : Jobs, fraudDone : BOOLEAN, by : Inputs, calm : BOOLEAN]

ASSUME ApplicantsAssumption ==
  /\ Applicants \cap {"", Partial, Nobody, "edited"} = {}
  /\ "" \notin FtNumbers

NewcomerTypeOK ==
  /\ blank \in [AddForms -> [open : BOOLEAN, box : [Boxes -> Inputs], timers : SUBSET Boxes,
                           shown : [Boxes -> Applicants \cup {Nobody}], name : Named,
                           ft : FtNumbers \cup {""}, role : Jobs, source : BOOLEAN,
                           fraudDone : BOOLEAN, loading : BOOLEAN]]
  /\ lookups \in [AddForms -> SUBSET [no : Nat, box : Boxes, of : Applicants]]
  /\ crossing \in [AddForms -> SUBSET Boxes]
  /\ post \in [AddForms -> Posts \cup {Unposted}]
  /\ member \in [Inputs -> UserRows \cup {Absent}]
  /\ audited \subseteq Inputs /\ cut \subseteq Inputs /\ elsewhere \subseteq Applicants
  /\ keyed \in Nat

FirstState ==
  [open |-> FALSE, box |-> [b \in Boxes |-> ""], timers |-> {},
   shown |-> [b \in Boxes |-> Nobody], name |-> "", ft |-> "", role |-> "shipwright",
   source |-> FALSE, fraudDone |-> FALSE, loading |-> FALSE]

NewcomerInit ==
  /\ blank = [f \in AddForms |-> FirstState]
  /\ lookups = [f \in AddForms |-> {}] /\ crossing = [f \in AddForms |-> {}]
  /\ post = [f \in AddForms |-> Unposted]
  /\ member = [p \in Inputs |-> Absent]
  /\ audited = {} /\ cut = {} /\ elsewhere = {} /\ keyed = 0

------------------------------------------------------------------------------
(* The form                                                                  *)

Keyed == keyed < MaxKeyed /\ keyed' = keyed + 1
FormOnly(f, to) ==
  /\ blank' = [blank EXCEPT ![f] = to]
  /\ UNCHANGED <<lookups, crossing, post, member, audited, cut, elsewhere>>

OpenForm(f) ==
  /\ ~blank[f].open
  /\ FormOnly(f, [blank[f] EXCEPT !.open = TRUE]) /\ Keyed

(* Emptied; a box that had something in it is a changed box.                 *)
Emptied(form) ==
  [FirstState EXCEPT !.loading = form.loading,
     !.timers = form.timers \cup {b \in Boxes : form.box[b] # ""}]

CloseForm(f) == blank[f].open /\ FormOnly(f, Emptied(blank[f])) /\ UNCHANGED keyed

(* Each change of a box puts its timer back.                                 *)
TypeInto(f, b, text) ==
  /\ blank[f].open /\ text # blank[f].box[b]
  /\ b = "fraudById" => blank[f].role # "observer" /\ blank[f].fraudDone
  /\ FormOnly(f, [blank[f] EXCEPT !.box[b] = text, !.timers = @ \cup {b}]) /\ Keyed

(* Offered once somebody is shown.                                           *)
Previewed(f) == blank[f].open /\ blank[f].shown["slackId"] # Nobody
EditName(f, name) ==
  /\ Previewed(f) /\ name # blank[f].name
  /\ FormOnly(f, [blank[f] EXCEPT !.name = name]) /\ Keyed
EditFtuid(f, ft) ==
  /\ Previewed(f) /\ ft # blank[f].ft
  /\ FormOnly(f, [blank[f] EXCEPT !.ft = ft]) /\ Keyed

PickRole(f, role) ==
  /\ blank[f].open /\ role # blank[f].role
  /\ FormOnly(f, [blank[f] EXCEPT !.role = role]) /\ Keyed
PickSource(f) ==
  /\ blank[f].open /\ ~blank[f].source
  /\ FormOnly(f, [blank[f] EXCEPT !.source = TRUE]) /\ Keyed
CheckFraud(f) ==
  /\ blank[f].open /\ blank[f].role # "observer"
  /\ FormOnly(f, [blank[f] EXCEPT !.fraudDone = ~@]) /\ Keyed

------------------------------------------------------------------------------
(* Lookups                                                                   *)

LookingUp(f, b) == \E l \in lookups[f] : l.box = b
Cleared(form, b) ==
  [form EXCEPT !.shown[b] = Nobody, !.name = IF b = "slackId" THEN "" ELSE @]

TimerOff(f, b, to) ==
  /\ b \in blank[f].timers
  /\ blank' = [blank EXCEPT ![f] = [to EXCEPT !.timers = @ \ {b}]]
  /\ lookups' = [lookups EXCEPT ![f] = IF blank[f].box[b] \in Applicants
       THEN @ \cup {[no |-> keyed, box |-> b, of |-> blank[f].box[b]]} ELSE @]
  /\ crossing' = [crossing EXCEPT ![f] = IF LookingUp(f, b) THEN @ \cup {b} ELSE @ \ {b}]
  /\ UNCHANGED <<post, member, audited, cut, elsewhere, keyed>>

(* Fault: what cannot be an id leaves the preview as it is.                  *)
TimerGoesOffOnly(f, b) == TimerOff(f, b, blank[f])

(* What may be an id is looked up, and the last preview stays meanwhile.     *)
TimerGoesOff(f, b) ==
  TimerOff(f, b, IF blank[f].box[b] \in Applicants THEN blank[f] ELSE Cleared(blank[f], b))

(* A lookup that throws leaves the name.                                     *)
LookupEnds(f, l) ==
  /\ l \in lookups[f] /\ lookups' = [lookups EXCEPT ![f] = @ \ {l}]
  /\ blank' \in {[blank EXCEPT ![f].shown[l.box] = l.of,
                              ![f].name = IF l.box = "slackId" THEN l.of ELSE @],
                 [blank EXCEPT ![f] = Cleared(@, l.box)],
                 [blank EXCEPT ![f].shown[l.box] = Nobody]}
  /\ UNCHANGED <<crossing, post, member, audited, cut, elsewhere, keyed>>

------------------------------------------------------------------------------
(* Adding                                                                    *)

AtRest(f, b) == b \notin blank[f].timers /\ ~LookingUp(f, b)

Vetted(form) == form.fraudDone /\ form.box["fraudById"] # ""
Submit(f) ==
  LET form == blank[f] IN
    /\ Previewed(f) /\ ~form.loading /\ post[f] = Unposted
    /\ form.name # "" /\ form.ft # "" /\ form.source
    /\ form.role # "observer" => Vetted(form)
    /\ blank' = [blank EXCEPT ![f].loading = TRUE]
    /\ post' = [post EXCEPT ![f] =
         [pc |-> "sent", slackId |-> form.box["slackId"], name |-> form.name, ft |-> form.ft,
          role |-> form.role, fraudDone |-> form.role # "observer" /\ form.fraudDone,
          by |-> form.box["fraudById"],
          calm |-> AtRest(f, "slackId") /\ "slackId" \notin crossing[f]]]
    /\ UNCHANGED <<lookups, crossing, member, audited, cut, elsewhere, keyed>>

PostAt(f, pc) == post' = [post EXCEPT ![f].pc = pc]

LookForUser(f) ==
  /\ post[f].pc = "sent"
  /\ PostAt(f, IF post[f].slackId = "" \/ member[post[f].slackId] # Absent THEN "refused" ELSE "looked")
  /\ UNCHANGED <<blank, lookups, crossing, member, audited, cut, elsewhere, keyed>>

(* Unique columns of the table.                                              *)
MayBeAdded(p, ft) ==
  /\ member[p] = Absent
  /\ ft # "" => \A q \in Inputs : member[q] # Absent => member[q].ft # ft

CreateUser(f) ==
  LET r == post[f] IN
    /\ r.pc = "looked" /\ MayBeAdded(r.slackId, r.ft) /\ PostAt(f, "made")
    /\ member' = [member EXCEPT ![r.slackId] =
         [made |-> "form", name |-> r.name, ft |-> r.ft, role |-> r.role,
          isActive |-> r.role # "observer" /\ r.fraudDone, by |-> r.by, calm |-> r.calm]]
    /\ UNCHANGED <<blank, lookups, crossing, audited, cut, elsewhere, keyed>>

EnterCreation(f) ==
  /\ post[f].pc = "made" /\ PostAt(f, "ok") /\ audited' = audited \cup {post[f].slackId}
  /\ UNCHANGED <<blank, lookups, crossing, member, cut, elsewhere, keyed>>

(* The page is loaded again.                                                 *)
AddedThenReload(f) ==
  /\ post[f].pc = "ok" /\ blank[f].loading
  /\ blank' = [blank EXCEPT ![f] = FirstState]
  /\ lookups' = [lookups EXCEPT ![f] = {}] /\ crossing' = [crossing EXCEPT ![f] = {}]
  /\ post' = [post EXCEPT ![f] = Unposted]
  /\ UNCHANGED <<member, audited, cut, elsewhere, keyed>>

(* The form hears no more of a request that goes on.                         *)
NetworkDies(f) ==
  /\ post[f].pc # "none" /\ blank[f].loading
  /\ blank' = [blank EXCEPT ![f].loading = FALSE]
  /\ UNCHANGED <<lookups, crossing, post, member, audited, cut, elsewhere, keyed>>

(* Refused, broken off wherever it was, or its answer lost.                  *)
NotAdded(f) ==
  /\ post[f].pc # "none"
  /\ blank' = [blank EXCEPT ![f].loading = FALSE]
  /\ post' = [post EXCEPT ![f] = Unposted]
  /\ cut' = IF post[f].pc = "made" THEN cut \cup {post[f].slackId} ELSE cut
  /\ UNCHANGED <<lookups, crossing, member, audited, elsewhere, keyed>>

------------------------------------------------------------------------------
(* Users added without a form are observers, and active                      *)

LookElsewhere(p) ==
  /\ member[p] = Absent /\ elsewhere' = elsewhere \cup {p} /\ Keyed
  /\ UNCHANGED <<blank, lookups, crossing, post, member, audited, cut>>

AddElsewhere(p) ==
  /\ p \in elsewhere /\ elsewhere' = elsewhere \ {p}
  /\ member' = IF member[p] # Absent THEN member
       ELSE [member EXCEPT ![p] =
              [made |-> "elsewhere", name |-> p, ft |-> "", role |-> "observer",
               isActive |-> TRUE, by |-> "", calm |-> TRUE]]
  /\ UNCHANGED <<blank, lookups, crossing, post, audited, cut, keyed>>

NewcomerNext ==
  \/ \E f \in AddForms :
       \/ OpenForm(f) \/ CloseForm(f) \/ PickSource(f) \/ CheckFraud(f)
       \/ \E b \in Boxes : TimerGoesOff(f, b) \/ \E text \in Inputs : TypeInto(f, b, text)
       \/ \E name \in {"", "edited"} : EditName(f, name)
       \/ \E ft \in FtNumbers \cup {""} : EditFtuid(f, ft)
       \/ \E role \in Jobs : PickRole(f, role)
       \/ \E l \in lookups[f] : LookupEnds(f, l)
       \/ Submit(f) \/ LookForUser(f) \/ CreateUser(f) \/ EnterCreation(f)
       \/ AddedThenReload(f) \/ NetworkDies(f) \/ NotAdded(f)
  \/ \E p \in Applicants : LookElsewhere(p) \/ AddElsewhere(p)

NewcomerSpec == NewcomerInit /\ [][NewcomerNext]_newcomerVars

------------------------------------------------------------------------------
(* Properties                                                                *)

(* However typing, timers, answers and closing fall: a box at rest shows him *)
(* whose id is in it, or nobody, unless its timer went off while a lookup    *)
(* was on its way; so whoever was added while his box was like that has his  *)
(* own name or one typed over it.  Who was added as active was checked by    *)
(* somebody named, and each addition is in the audit log but for those whose *)
(* handler was broken off before (add-user.tsx:44-123, 154-207,              *)
(* users/add/route.ts:24-84).                                                *)
AddedAsShown ==
  /\ \A f \in AddForms : \A b \in Boxes \ crossing[f] :
       AtRest(f, b) => blank[f].shown[b] \in {blank[f].box[b], Nobody}
  /\ \A p \in Inputs : member[p] # Absent /\ member[p].made = "form" =>
       /\ member[p].calm => member[p].name \in {p, "edited"}
       /\ member[p].isActive => member[p].by # ""
       /\ \/ p \in audited \cup cut
          \/ \E f \in AddForms : post[f].pc = "made" /\ post[f].slackId = p
=============================================================================
