----------------------------- MODULE Programme ------------------------------
(***************************************************************************)
(* What donors and partners get to see: events and their waitlists, mail   *)
(* and notifications, badges, teams and matched giving, and initiatives;   *)
(* and the pace at which all that asks the processor may do so (Budget,    *)
(* with the constants of the run).                                         *)
(* As modelled these components share no variable: where the code joins    *)
(* them, each model has the other's effect as an action of its own         *)
(* (Messages promotes and gives up a seat, Recognition checks a donor in). *)
(* So a behaviour of the whole is one behaviour of each, interleaved, and  *)
(* what holds of each alone holds of the whole: a behaviour here is one of *)
(* a single component, the others resting in their initial states.         *)
(***************************************************************************)
EXTENDS Budget

\* The constants of Recognition and of Teams, one field for each, as they are
\* instantiated more than once.
CONSTANTS
  BadgeRules,      \* of Recognition, where a donor's facts and the rules change
  FoundingClaims,  \* of Recognition, where imported addresses are claimed
  ClosingMonths,   \* of Teams, where months are closed
  LinkedGifts,     \* of Teams, where employees' gifts are matched
  SentPayments     \* of Teams, where matching payments are recorded

VARIABLES
  part,  \* the component this behaviour is of
  eventClock, ev, guests, res, ticket, eventTold, badged, erasing, leaked, near, eventJob,
  steady,
  mailClock, facts, mailJob, mailWrk, crashes, bodies, valid,
  pushClock, sess, reg, pushMoves, row, optOut, untrue, pushWrk, dead, held,
  email, badgeClaims, grants, proj, checkins, rules, badge, pushes, tx, unseen, spent,
  approved, touch, deleted, code, link, teams, pledge, teamMonth, months, wt, awarded, work,
  terms, payments, audits, answered, status, matched, entry, teamMoves,
  day, ini, cofunder, metric, draft, spend, saved, initiativeTold, shown, since, req,
  statusClock, statusMonth, published, users, msg, sent, statusClaims, statusWrk

SeatInputs ==
  {[state |-> "NONE", cancelled |-> FALSE, type |-> "COMMUNITY", perk |-> FALSE, starts |-> s, ends |-> s + 1,
    cap |-> IF s = 1 THEN 1 ELSE 3, opens |-> 0] : s \in {1, 2}}
GateInputs ==
  {[state |-> "NONE", cancelled |-> FALSE, type |-> type, perk |-> perk, starts |-> 2, ends |-> 3, cap |-> 1, opens |-> 0] :
     type \in {"COMMUNITY", "INVITE_ONLY"}, perk \in BOOLEAN}

\* Three donors, an event of one seat or three, and an account that is erased.
Seats == INSTANCE Events WITH
  Donors <- 1..3, Bookers <- 1..3, Invited <- {}, Erased <- {3}, Movers <- {}, Captains <- {1},
  Qualified <- {2}, Inputs <- SeatInputs, Windows <- [w \in {} |-> 0], EarlyLead <- 1,
  CheckInLead <- 1, Batch <- 1, MaxTime <- 1, MaxTickets <- 3, clock <- eventClock,
  told <- eventTold, job <- eventJob

\* Mail that consent, a seat and the account itself may withdraw.
Consent == INSTANCE Messages WITH
  Keys <- {"REFERRAL", "EVENT_PROMOTED"}, Changes <- {"gift", "optOut", "seat", "delete"},
  RetryCap <- 2, MaxTime <- 2, Workers <- {"w1"}, Requests <- {}, MaxAttempts <- 2, Budget <- 1,
  Lease <- 2, ResendGap <- 1, Reminder <- 2, Grace <- 3, Horizon <- 99, MaxCrashes <- 0,
  clock <- mailClock, job <- mailJob, wrk <- mailWrk

\* Reminders of a failed payment, which may recover.
Reminders == INSTANCE Messages WITH
  Keys <- {"recovery0", "recovery5", "LAPSED"}, Changes <- {"failure", "recover", "stop"},
  RetryCap <- 1, MaxTime <- 4, Workers <- {"w1"}, Requests <- {}, MaxAttempts <- 2, Budget <- 1,
  Lease <- 2, ResendGap <- 1, Reminder <- 2, Grace <- 3, Horizon <- 99, MaxCrashes <- 0,
  clock <- mailClock, job <- mailJob, wrk <- mailWrk

\* One phone that two accounts sign in on.
Phone == INSTANCE Push WITH
  DonorSessions <- {"d1", "d2"}, PartnerSessions <- {}, Mine <- {"d1"}, Tokens <- {"t1"},
  Workers <- {"w1"}, Categories <- {"BADGE_EARNED"}, Enders <- {"d1"},
  Fickle <- {"BADGE_EARNED"}, MaxAttempts <- 2, Budget <- 1, Lease <- 2, RetryCap <- 1,
  Lifetime <- 2, Horizon <- 99, MaxTime <- 3, MaxMoves <- 2, clock <- pushClock,
  moves <- pushMoves, wrk <- pushWrk

\* A donor whose facts and whose badge rules change in overlapping
\* transactions.
Badge == INSTANCE Recognition WITH
  Donors <- BadgeRules.Donors, Known <- BadgeRules.Known, Emails <- BadgeRules.Emails,
  Txs <- BadgeRules.Txs, Devices <- BadgeRules.Devices, Keys <- BadgeRules.Keys,
  Thresholds <- BadgeRules.Thresholds, MaxRefs <- BadgeRules.MaxRefs,
  MaxCheckins <- BadgeRules.MaxCheckins, MaxWrites <- BadgeRules.MaxWrites,
  MaxRules <- BadgeRules.MaxRules, MaxStaff <- BadgeRules.MaxStaff, claims <- badgeClaims

\* The teams of a company, whose months the workers close.
Winners == INSTANCE Teams WITH
  Donors <- ClosingMonths.Donors, Partners <- ClosingMonths.Partners,
  Names <- ClosingMonths.Names, Visitors <- ClosingMonths.Visitors,
  Workers <- ClosingMonths.Workers, Staff <- ClosingMonths.Staff,
  Requests <- ClosingMonths.Requests, Minimum <- ClosingMonths.Minimum,
  Batch <- ClosingMonths.Batch, Pledges <- ClosingMonths.Pledges, Terms <- ClosingMonths.Terms,
  Amounts <- ClosingMonths.Amounts, Gifts <- ClosingMonths.Gifts,
  MaxInt <- ClosingMonths.MaxInt, MaxMonth <- ClosingMonths.MaxMonth,
  MaxMoves <- ClosingMonths.MaxMoves, month <- teamMonth, moves <- teamMoves

\* Employees of one company or another, whose terms change.
Match == INSTANCE Teams WITH
  Donors <- LinkedGifts.Donors, Partners <- LinkedGifts.Partners, Names <- LinkedGifts.Names,
  Visitors <- LinkedGifts.Visitors, Workers <- LinkedGifts.Workers, Staff <- LinkedGifts.Staff,
  Requests <- LinkedGifts.Requests, Minimum <- LinkedGifts.Minimum, Batch <- LinkedGifts.Batch,
  Pledges <- LinkedGifts.Pledges, Terms <- LinkedGifts.Terms, Amounts <- LinkedGifts.Amounts,
  Gifts <- LinkedGifts.Gifts, MaxInt <- LinkedGifts.MaxInt, MaxMonth <- LinkedGifts.MaxMonth,
  MaxMoves <- LinkedGifts.MaxMoves, month <- teamMonth, moves <- teamMoves

\* Payment requests that several members of staff send, alike or not.
Payments == INSTANCE Teams WITH
  Donors <- SentPayments.Donors, Partners <- SentPayments.Partners, Names <- SentPayments.Names,
  Visitors <- SentPayments.Visitors, Workers <- SentPayments.Workers,
  Staff <- SentPayments.Staff, Requests <- SentPayments.Requests,
  Minimum <- SentPayments.Minimum, Batch <- SentPayments.Batch, Pledges <- SentPayments.Pledges,
  Terms <- SentPayments.Terms, Amounts <- SentPayments.Amounts, Gifts <- SentPayments.Gifts,
  MaxInt <- SentPayments.MaxInt, MaxMonth <- SentPayments.MaxMonth,
  MaxMoves <- SentPayments.MaxMoves, month <- teamMonth, moves <- teamMoves

\* An initiative whose figures two members of staff edit and publish.
Figures == INSTANCE Initiatives WITH
  Initiatives <- {"i1"}, Order <- <<"i1">>, Partners <- {"p1", "p2"}, Approved <- {"p1"},
  Positions <- {"first"}, Categories <- {"x"}, Staff <- {"s1", "s2"}, Readers <- {},
  Donors <- {}, Offset <- <<>>, MaxVersions <- 2, MaxDay <- 0, told <- initiativeTold

\* Status mail to two users of an organization, sent by two workers.
Status == INSTANCE PartnerMail WITH
  Notices <- {<<"METRICS_VERIFIED", 1>>}, MaxMonth <- 1, People <- {"ann", "bob"},
  Order <- <<"ann", "bob">>, Workers <- {"w1", "w2"}, Horizon <- 1, Budget <- 1, Lease <- 2,
  MaxAttempts <- 2, clock <- statusClock, month <- statusMonth, claims <- statusClaims,
  wrk <- statusWrk

\* Events for those who were invited or hold a badge, with reminders.
Gate == INSTANCE Events WITH
  Donors <- {1, 2}, Bookers <- {1, 2}, Invited <- {1}, Erased <- {}, Movers <- {1},
  Captains <- {1}, Qualified <- {2}, Inputs <- GateInputs,
  Windows <- [w \in {"24h", "2h"} |-> IF w = "24h" THEN 2 ELSE 1], EarlyLead <- 1,
  CheckInLead <- 1, Batch <- 1, MaxTime <- 2, MaxTickets <- 1, clock <- eventClock,
  told <- eventTold, job <- eventJob

\* A receipt that two workers may send and staff may send again.
Copies == INSTANCE Messages WITH
  Keys <- {"receipt"}, Changes <- {"gift", "refund"}, RetryCap <- 2, MaxTime <- 3,
  Workers <- {"w1", "w2"}, Requests <- {"resend"}, MaxAttempts <- 2, Budget <- 1, Lease <- 2,
  ResendGap <- 1, Reminder <- 2, Grace <- 4, Horizon <- 99, MaxCrashes <- 1, clock <- mailClock,
  job <- mailJob, wrk <- mailWrk

\* Three sessions that register one of two phones.
Phones == INSTANCE Push WITH
  DonorSessions <- {"d1", "d2"}, PartnerSessions <- {"p1"}, Mine <- {"d1"},
  Tokens <- {"t1", "t2"}, Workers <- {}, Categories <- {}, Enders <- {"d1", "p1"}, Fickle <- {},
  MaxAttempts <- 2, Budget <- 1, Lease <- 2, RetryCap <- 1, Lifetime <- 2, Horizon <- 99,
  MaxTime <- 1, MaxMoves <- 3, clock <- pushClock, moves <- pushMoves, wrk <- pushWrk

\* Addresses imported while their donors sign up.
Claims == INSTANCE Recognition WITH
  Donors <- FoundingClaims.Donors, Known <- FoundingClaims.Known, Emails <- FoundingClaims.Emails,
  Txs <- FoundingClaims.Txs, Devices <- FoundingClaims.Devices, Keys <- FoundingClaims.Keys,
  Thresholds <- FoundingClaims.Thresholds, MaxRefs <- FoundingClaims.MaxRefs,
  MaxCheckins <- FoundingClaims.MaxCheckins, MaxWrites <- FoundingClaims.MaxWrites,
  MaxRules <- FoundingClaims.MaxRules, MaxStaff <- FoundingClaims.MaxStaff, claims <- badgeClaims

\* Two initiatives that a donor is shown by turns.
Rotation == INSTANCE Initiatives WITH
  Initiatives <- {"i1", "i2"}, Order <- <<"i1", "i2">>, Partners <- {}, Approved <- {},
  Positions <- {"first"}, Categories <- {"x"}, Staff <- {"s1"}, Readers <- {}, Donors <- {"d1"},
  Offset <- [d \in {"d1"} |-> 5], MaxVersions <- 1, MaxDay <- 3, told <- initiativeTold

ASSUME Instances ==
  /\ Seats!EventsAssumption /\ Consent!MessagesAssumption /\ Reminders!MessagesAssumption
  /\ Phone!PushAssumption /\ Badge!RecognitionAssumption /\ Winners!TeamsAssumption
  /\ Match!TeamsAssumption /\ Payments!TeamsAssumption /\ Figures!InitiativesAssumption
  /\ Status!PartnerMailAssumption /\ Gate!EventsAssumption /\ Copies!MessagesAssumption
  /\ Phones!PushAssumption /\ Claims!RecognitionAssumption /\ Rotation!InitiativesAssumption

eventVars == <<eventClock, ev, guests, res, ticket, eventTold, badged, erasing, leaked, near,
                eventJob, steady>>
mailVars == <<mailClock, facts, mailJob, mailWrk, crashes, bodies, valid>>
pushVars == <<pushClock, sess, reg, pushMoves, row, optOut, untrue, pushWrk, dead, held>>
badgeVars == <<email, badgeClaims, grants, proj, checkins, rules, badge, pushes, tx, unseen,
                spent>>
teamVars == <<approved, touch, deleted, code, link, teams, pledge, teamMonth, months, wt,
                awarded, work, terms, payments, audits, answered, status, matched, entry,
                teamMoves>>
initiativeVars == <<day, ini, cofunder, metric, draft, spend, saved, initiativeTold, shown, since,
                req>>
statusVars == <<statusClock, statusMonth, published, users, msg, sent, statusClaims, statusWrk>>
programmeVars == <<part, vars, eventVars, mailVars, pushVars, badgeVars, teamVars, initiativeVars, statusVars>>

ProgrammeInit ==
  /\ part \in {"budget", "seats", "consent", "reminders", "push", "badges", "winners", "match", "payments", "figures", "status mail", "gate", "copies", "phones", "claims", "rotation"}
  /\ Init
  /\ (IF part = "gate" THEN Gate!Init ELSE Seats!Init)
  /\ (IF part = "copies" THEN Copies!Init ELSE IF part = "reminders" THEN Reminders!Init ELSE Consent!Init)
  /\ (IF part = "phones" THEN Phones!Init ELSE Phone!Init)
  /\ (IF part = "claims" THEN Claims!Init ELSE Badge!Init)
  /\ (IF part = "payments" THEN Payments!Init ELSE IF part = "match" THEN Match!Init ELSE Winners!Init)
  /\ (IF part = "rotation" THEN Rotation!Init ELSE Figures!Init)
  /\ Status!Init
  /\ part \notin {"badges", "claims"} => rules = [c \in Badge!Counted |-> 1]
  /\ part \notin {"winners", "match", "payments"} => approved = {} /\ pledge = [d \in ClosingMonths.Donors |-> 0]

ProgrammeNext ==
  \/ part = "budget" /\ Next
     /\ UNCHANGED <<part, eventVars, mailVars, pushVars, badgeVars, teamVars, initiativeVars, statusVars>>
  \/ part = "seats" /\ Seats!Next
     /\ UNCHANGED <<part, vars, mailVars, pushVars, badgeVars, teamVars, initiativeVars, statusVars>>
  \/ part = "consent" /\ Consent!Next
     /\ UNCHANGED <<part, vars, eventVars, pushVars, badgeVars, teamVars, initiativeVars, statusVars>>
  \/ part = "reminders" /\ Reminders!Next
     /\ UNCHANGED <<part, vars, eventVars, pushVars, badgeVars, teamVars, initiativeVars, statusVars>>
  \/ part = "push" /\ Phone!Next
     /\ UNCHANGED <<part, vars, eventVars, mailVars, badgeVars, teamVars, initiativeVars, statusVars>>
  \/ part = "badges" /\ Badge!Next
     /\ UNCHANGED <<part, vars, eventVars, mailVars, pushVars, teamVars, initiativeVars, statusVars>>
  \/ part = "winners" /\ Winners!Next
     /\ UNCHANGED <<part, vars, eventVars, mailVars, pushVars, badgeVars, initiativeVars, statusVars>>
  \/ part = "match" /\ Match!Next
     /\ UNCHANGED <<part, vars, eventVars, mailVars, pushVars, badgeVars, initiativeVars, statusVars>>
  \/ part = "payments" /\ Payments!Next
     /\ UNCHANGED <<part, vars, eventVars, mailVars, pushVars, badgeVars, initiativeVars, statusVars>>
  \/ part = "figures" /\ (Figures!Editing \/ Figures!Measuring \/ Figures!Spending)
     /\ UNCHANGED <<part, vars, eventVars, mailVars, pushVars, badgeVars, teamVars, statusVars>>
  \/ part = "status mail" /\ Status!Next
     /\ UNCHANGED <<part, vars, eventVars, mailVars, pushVars, badgeVars, teamVars, initiativeVars>>
  \/ part = "gate" /\ Gate!Next
     /\ UNCHANGED <<part, vars, mailVars, pushVars, badgeVars, teamVars, initiativeVars, statusVars>>
  \/ part = "copies" /\ Copies!Next
     /\ UNCHANGED <<part, vars, eventVars, pushVars, badgeVars, teamVars, initiativeVars, statusVars>>
  \/ part = "phones" /\ Phones!Next
     /\ UNCHANGED <<part, vars, eventVars, mailVars, badgeVars, teamVars, initiativeVars, statusVars>>
  \/ part = "claims" /\ Claims!Next
     /\ UNCHANGED <<part, vars, eventVars, mailVars, pushVars, teamVars, initiativeVars, statusVars>>
  \/ part = "rotation" /\ (Rotation!Editing \/ Rotation!Rotating)
     /\ UNCHANGED <<part, vars, eventVars, mailVars, pushVars, badgeVars, teamVars, statusVars>>

ProgrammeSpec == ProgrammeInit /\ [][ProgrammeNext]_programmeVars

-----------------------------------------------------------------------------
\* Before an event starts nobody waits while a seat is free (but for the seat of
\* an account promoted while it was being erased), no step gives out a seat
\* beyond the capacity, seats go to whoever waits longest, every promotion is
\* told, and a cancelled event has no places left. A donor sees an invite-only
\* event exactly where its gate lets them in; an alert that is through has told
\* every volunteer who matched all along, and nothing more is told once the
\* event is cancelled (fillSeats, promoteWaitlistHead, CancelEvent,
\* canSeeInviteOnly, QueueNext).
SeatsFair ==
  /\ [](part = "seats" => Seats!NoIdleSeat /\ Seats!CancelledIsEmpty)
  /\ [](part = "gate" => Gate!GatesAgree /\ Gate!AlertsReachAll)
  /\ [][/\ part = "seats" => Seats!SeatsWithinCapacity /\ Seats!FirstComeFirstServed /\ Seats!PromotionIsTold
        /\ part = "gate" => Gate!SilentOnceCancelled]_programmeVars

\* A mail is handed over only if what it says held, and a notification only to a
\* phone the donor was signed in on, within the time one step of a worker may
\* take: consent withdrawn, a payment recovered, a seat given up or another
\* account on the same phone ends it. A notification is not sent after it
\* lapsed, nor again to a session it reached, and takes away no token but a dead
\* one; a phone belongs to one session. A message has one sender and one text
\* however often it is tried, a copy is of one that was delivered or given up,
\* and an organization's status mail is in one worker's hands and done only when
\* everyone was mailed (messageSuppression, PushTargets, record, ResendMessage,
\* DeliverNext).
DeliveredWhileTrue ==
  [][/\ part = "consent" => Consent!TrueNow
     /\ part = "reminders" => Reminders!TrueNow
     /\ part = "push" => Phone!HolderNow /\ Phone!NotShownLate /\ Phone!ReachedOnce /\ Phone!NewTokenSurvives
     /\ part = "phones" => Phones!OneInstallation
     /\ part = "copies" => Copies!OneSender /\ Copies!SameMessage /\ Copies!CopiesAreSecond
     /\ part = "status mail" => Status!ReachedAll /\ Status!OneWorkerPerMessage]_programmeVars

\* A donor whose projection is not due holds every badge their facts and the
\* rules in force call for: no overlap of a fact, a referral and a change of the
\* rules loses an award. Of imported claims, only those are lost whose donor
\* signed up without the key or whose import and sign-up overlapped and missed
\* each other (awardBadges, SetRules, ImportFoundingClaims, GrantFoundingClaim).
SettledIsAwarded ==
  /\ part = "badges" => Badge!SettledIsAwarded
  /\ part = "claims" => Claims!ClaimsGranted

\* Everyone awarded for a month belonged to the team its company has on record
\* as the winner, the one that headed its leaderboard, and every counted member
\* who stayed was awarded, whichever workers closed the month (CloseTeamMonth).
OneWinningTeam ==
  part = "winners" => Winners!OneWinningTeam /\ Winners!WinnersAwarded /\ Winners!WinnerHeadsLeaderboard

\* A donor's gifts are matched by one employer, what it owes is the largest
\* amount within its rate and cap, and a payment answered with success is on
\* the ledger once, with what its request named (RecordMatchPayment, Match).
MatchExact ==
  /\ part = "match" => Match!MatchedByOneEmployer /\ Match!OwedIsLargest
  /\ part = "payments" => Payments!AnsweredIsPaid

\* A figure that donors see is verified, also when it was edited between the
\* check and its publication, and the initiatives in rotation come each in turn
\* (PublishMetric, PublishSpend, rotationIndex).
PublishedVerified ==
  /\ part = "figures" => Figures!PublishedVerified
  /\ part = "rotation" => Rotation!EachSeenOnce
=============================================================================
