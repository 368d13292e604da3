-------------------------------- MODULE MCBot --------------------------------
(***************************************************************************)
(* The bot's machines, the page of a ticket that talks to it, the pages of   *)
(* spot checks, of a user, of an assignment and of a new user, in one run:   *)
(* they share no state, `part` says which of them a behaviour is one of, and *)
(* the others stay as they began.  The journal's threads are fair, as in its own*)
(* specification.                                                            *)
(***************************************************************************)
EXTENDS TaskJournal, MetaVotes, SlackEvents, HelpDesk, Relay, DbPool,
        StaffPages

VARIABLE part

Parts == {"journal", "votes", "events", "helpdesk", "relay", "pool",
          "ticketpage", "spotpage", "casepage", "record", "newcomer"}

BotInit ==
  /\ part \in Parts
  /\ Init /\ VoteInit /\ EventInit /\ DeskInit /\ RelayInit
  /\ PoolInit /\ TicketPageInit /\ SpotPageInit /\ CasePageInit /\ RecordInit
  /\ NewcomerInit
  /\ part # "relay" => \A l \in Letters : sort[l] = "client"
  /\ part # "record" => surface = "profile" /\ \A k \in Yubikeys : filed[k] = "unborn"

BotNext ==
  \/ part = "journal" /\ Next
     /\ UNCHANGED <<part, voteVars, eventVars, deskVars, relayVars, poolVars,
                    ticketPageVars, spotPageVars, casePageVars, recordVars, newcomerVars>>
  \/ part = "votes" /\ VoteNext
     /\ UNCHANGED <<part, vars, eventVars, deskVars, relayVars, poolVars,
                    ticketPageVars, spotPageVars, casePageVars, recordVars, newcomerVars>>
  \/ part = "events" /\ EventNext
     /\ UNCHANGED <<part, vars, voteVars, deskVars, relayVars, poolVars,
                    ticketPageVars, spotPageVars, casePageVars, recordVars, newcomerVars>>
  \/ part = "helpdesk" /\ DeskNext
     /\ UNCHANGED <<part, vars, voteVars, eventVars, relayVars, poolVars,
                    ticketPageVars, spotPageVars, casePageVars, recordVars, newcomerVars>>
  \/ part = "relay" /\ RelayNext
     /\ UNCHANGED <<part, vars, voteVars, eventVars, deskVars, poolVars,
                    ticketPageVars, spotPageVars, casePageVars, recordVars, newcomerVars>>
  \/ part = "pool" /\ PoolNext
     /\ UNCHANGED <<part, vars, voteVars, eventVars, deskVars, relayVars,
                    ticketPageVars, spotPageVars, casePageVars, recordVars, newcomerVars>>
  \/ part = "ticketpage" /\ TicketPageNext
     /\ UNCHANGED <<part, vars, voteVars, eventVars, deskVars, relayVars,
                    poolVars, spotPageVars, casePageVars, recordVars, newcomerVars>>
  \/ part = "spotpage" /\ SpotPageNext
     /\ UNCHANGED <<part, vars, voteVars, eventVars, deskVars, relayVars,
                    poolVars, ticketPageVars, casePageVars, recordVars, newcomerVars>>
  \/ part = "casepage" /\ CasePageNext
     /\ UNCHANGED <<part, vars, voteVars, eventVars, deskVars, relayVars,
                    poolVars, ticketPageVars, spotPageVars, recordVars, newcomerVars>>
  \/ part = "record" /\ RecordNext
     /\ UNCHANGED <<part, vars, voteVars, eventVars, deskVars, relayVars,
                    poolVars, ticketPageVars, spotPageVars, casePageVars, newcomerVars>>
  \/ part = "newcomer" /\ NewcomerNext
     /\ UNCHANGED <<part, vars, voteVars, eventVars, deskVars, relayVars,
                    poolVars, ticketPageVars, spotPageVars, casePageVars, recordVars>>

BotVars == <<part, vars, voteVars, eventVars, deskVars, relayVars,
             poolVars, ticketPageVars, spotPageVars, casePageVars, recordVars, newcomerVars>>

BotSpec == BotInit /\ [][BotNext]_BotVars
           /\ WF_vars(Worker) /\ WF_vars(Boot) /\ \A c \in Callers : WF_vars(Put(c))

(* The variables of the machine that runs keep their types (the store of     *)
(* each handler file named in the machines' modules).                        *)
TypesOK ==
  /\ part = "journal" => TypeOK
  /\ part = "votes" => VoteTypeOK
  /\ part = "events" => EventTypeOK
  /\ part = "helpdesk" => DeskTypeOK
  /\ part = "relay" => RelayTypeOK
  /\ part = "pool" => PoolTypeOK
  /\ part = "ticketpage" => TicketPageTypeOK
  /\ part = "spotpage" => SpotPageTypeOK
  /\ part = "casepage" => CasePageTypeOK
  /\ part = "record" => RecordTypeOK
  /\ part = "newcomer" => NewcomerTypeOK
=============================================================================
