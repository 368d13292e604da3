------------------------------- MODULE MCParts -------------------------------
(***************************************************************************)
(* The dashboard's machines that share no state, in two runs: `part` says     *)
(* which of them a behaviour is one of, and the others stay as they began.   *)
(***************************************************************************)
EXTENDS YswsReview, Sessions, RateLimit, Intake, PgSync, Streaks,
        Assignments, SpotChecks, PageNotes, CertPage, Earnings, PayoutPage,
        ReviewPage, Lists, ShipStats, TLC

CONSTANTS u1, t1, s1, s2, s3, d1, d2,
  Parts  \* bound: the machines of the run

OneBearer == t1 :> u1
ThreeAges == s1 :> 0 @@ s2 :> 6 @@ s3 :> 8
TwoGrinds == <<1, 2>>
MinutesOf == d1 :> 2 @@ d2 :> 1
Filter(s, b) == [status |-> s, only |-> b, but |-> b, oldest |-> FALSE]
SomeFilters == {Filter("pending", FALSE), Filter("all", FALSE), Filter("all", TRUE)}

VARIABLE part

PartsInit ==
  /\ part \in Parts
  /\ Init /\ SessionInit /\ LimitInit /\ IntakeInit /\ PgInit
  /\ StreakInit /\ AssignInit /\ SpotInit /\ NotesInit /\ CertPageInit
  /\ EarnInit /\ PayPageInit /\ ReviewPageInit /\ ListInit /\ StatsInit
  /\ part = "lists" => past[1][2] = "pending"
  /\ part # "lists" => list = "certs" /\ past[1] = [r \in ListRows |-> "none"]
  /\ ~certs[1].reship
  /\ part # "stats" => \A s \in Ships : ~certs[s].reship
  /\ part # "review" => posted = {}
  /\ part # "reviewpage" => onFlavor = {}
  /\ part # "notes" => page = "ship"
  /\ part # "certpage" => rank = "shipwright" /\ ~certRow.reship /\ ~checking
  /\ part # "session" => \A u \in Staff : account[u].role = Observer

PartsNext ==
  \/ part = "review" /\ Next
     /\ UNCHANGED <<part, sessionVars, limitVars, intakeVars, pgVars, streakVars,
                    assignVars, spotVars, noteVars, certPageVars, earnVars, payPageVars,
                    reviewPageVars, listVars, statsVars>>
  \/ part = "session" /\ SessionNext
     /\ UNCHANGED <<part, vars, limitVars, intakeVars, pgVars, streakVars,
                    assignVars, spotVars, noteVars, certPageVars, earnVars, payPageVars,
                    reviewPageVars, listVars, statsVars>>
  \/ part = "limit" /\ LimitNext
     /\ UNCHANGED <<part, vars, sessionVars, intakeVars, pgVars, streakVars,
                    assignVars, spotVars, noteVars, certPageVars, earnVars, payPageVars,
                    reviewPageVars, listVars, statsVars>>
  \/ part = "intake" /\ IntakeNext
     /\ UNCHANGED <<part, vars, sessionVars, limitVars, pgVars, streakVars,
                    assignVars, spotVars, noteVars, certPageVars, earnVars, payPageVars,
                    reviewPageVars, listVars, statsVars>>
  \/ part = "mirror" /\ PgNext
     /\ UNCHANGED <<part, vars, sessionVars, limitVars, intakeVars, streakVars,
                    assignVars, spotVars, noteVars, certPageVars, earnVars, payPageVars,
                    reviewPageVars, listVars, statsVars>>
  \/ part = "streak" /\ StreakNext
     /\ UNCHANGED <<part, vars, sessionVars, limitVars, intakeVars, pgVars,
                    assignVars, spotVars, noteVars, certPageVars, earnVars, payPageVars,
                    reviewPageVars, listVars, statsVars>>
  \/ part = "assignment" /\ AssignNext
     /\ UNCHANGED <<part, vars, sessionVars, limitVars, intakeVars, pgVars,
                    streakVars, spotVars, noteVars, certPageVars, earnVars, payPageVars,
                    reviewPageVars, listVars, statsVars>>
  \/ part = "spot" /\ SpotNext
     /\ UNCHANGED <<part, vars, sessionVars, limitVars, intakeVars, pgVars,
                    streakVars, assignVars, noteVars, certPageVars, earnVars, payPageVars,
                    reviewPageVars, listVars, statsVars>>
  \/ part = "notes" /\ NotesNext
     /\ UNCHANGED <<part, vars, sessionVars, limitVars, intakeVars, pgVars,
                    streakVars, assignVars, spotVars, certPageVars, earnVars, payPageVars,
                    reviewPageVars, listVars, statsVars>>
  \/ part = "certpage" /\ CertPageNext
     /\ UNCHANGED <<part, vars, sessionVars, limitVars, intakeVars, pgVars,
                    streakVars, assignVars, spotVars, noteVars, earnVars, payPageVars,
                    reviewPageVars, listVars, statsVars>>
  \/ part = "earnings" /\ EarnNext
     /\ UNCHANGED <<part, vars, sessionVars, limitVars, intakeVars, pgVars,
                    streakVars, assignVars, spotVars, noteVars, certPageVars, payPageVars,
                    reviewPageVars, listVars, statsVars>>
  \/ part = "payoutpage" /\ PayPageNext
     /\ UNCHANGED <<part, vars, sessionVars, limitVars, intakeVars, pgVars,
                    streakVars, assignVars, spotVars, noteVars, certPageVars, earnVars,
                    reviewPageVars, listVars, statsVars>>
  \/ part = "reviewpage" /\ ReviewPageNext
     /\ UNCHANGED <<part, vars, sessionVars, limitVars, intakeVars, pgVars,
                    streakVars, assignVars, spotVars, noteVars, certPageVars, earnVars,
                    payPageVars, listVars, statsVars>>
  \/ part = "lists" /\ ListNext
     /\ UNCHANGED <<part, vars, sessionVars, limitVars, intakeVars, pgVars,
                    streakVars, assignVars, spotVars, noteVars, certPageVars, earnVars,
                    payPageVars, reviewPageVars, statsVars>>
  \/ part = "stats" /\ StatsNext
     /\ UNCHANGED <<part, vars, sessionVars, limitVars, intakeVars, pgVars,
                    streakVars, assignVars, spotVars, noteVars, certPageVars, earnVars,
                    payPageVars, reviewPageVars, listVars>>

PartsVars == <<part, vars, sessionVars, limitVars, intakeVars, pgVars,
               streakVars, assignVars, spotVars, noteVars, certPageVars, earnVars,
               payPageVars, reviewPageVars, listVars, statsVars>>

PartsSpec == PartsInit /\ [][PartsNext]_PartsVars

(* The variables of the machine that runs keep their types (the store of     *)
(* each handler file named in the machines' modules): checked of the pages;  *)
(* of the machines of the other run it is a theorem each.                    *)
TypesOK ==
  /\ part = "review" => TypeOK
  /\ part = "session" => SessionTypeOK
  /\ part = "limit" => LimitTypeOK
  /\ part = "intake" => IntakeTypeOK
  /\ part = "mirror" => PgTypeOK
  /\ part = "streak" => StreakTypeOK
  /\ part = "assignment" => AssignTypeOK
  /\ part = "spot" => SpotTypeOK
  /\ part = "notes" => NotesTypeOK
  /\ part = "certpage" => CertPageTypeOK
  /\ part = "earnings" => EarnTypeOK
  /\ part = "payoutpage" => PayPageTypeOK
  /\ part = "reviewpage" => ReviewPageTypeOK
  /\ part = "lists" => ListTypeOK
  /\ part = "stats" => StatsTypeOK

(* Each page keeps its word: notes, ship cert, payouts and YSWS review, as    *)
(* the page's own module states it.                                          *)
PagesKeepTheirWord ==
  PageSettles /\ PageIsHonest /\ PayoutsAsShown /\ SheetIsRecord /\ ListsShowWhatIsAsked
=============================================================================
