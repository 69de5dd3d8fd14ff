------------------------------ MODULE Progress ------------------------------
(***************************************************************************)
(* What must happen in the end: the queues of mail, events and reversals   *)
(* empty or park what they cannot do, requests that wait for each other    *)
(* end, and the worker that several jobs share gets round to each. As in   *)
(* Money, Access and Programme a behaviour here is one of a single         *)
(* component, the others resting in their initial states, and the fairness *)
(* of a component is asked of its own behaviours.                          *)
(***************************************************************************)
EXTENDS Naturals, Sequences

VARIABLES
  part,  \* the component this behaviour is of
  now, faults, stripe, invoice, giftRefunded, events, giftDonor, bound, row, changes, period,
  giftObserved, giftGift, giftJob, hold,
  staffClock, recovers, staffStaff, key, invite, ceremony, sess, staffReq, staffLock,
  mailClock, facts, mailJob, mailWrk, crashes, bodies, valid,
  addressClock, addressDeaths, addressDonor, addressStaff, change, inbox, conf, work,
  refundClock, refundDeaths, remote, refundEv, refundGift, stored, refundObserved, cmd,
  refundReq, refundWrk, refundLock,
  creditClock, creditDeaths, arrived, creditRefunded, marks, proj, tx,
  eventClock, eventEv, guests, res, ticket, told, badged, erasing, leaked, near, eventJob,
  steady,
  touch, due, waits, cursor, locked, pc, restarts

AlertInputs ==
  {[state |-> "NONE", cancelled |-> FALSE, type |-> type, perk |-> FALSE, starts |-> 2, ends |-> 3, cap |-> 1, opens |-> 0] :
     type \in {"COMMUNITY", "INVITE_ONLY"}}

\* A subscription whose donor deletes the account at any moment.
Deletion == INSTANCE Gifts WITH
  MaxPeriod <- 1, MaxChanges <- 0, Copies <- {1}, EventAttempts <- 1, ReversalAttempts <- 2,
  MaxFaults <- 0, ReferralEnds <- 2, CheckoutOpen <- 2, SettleWait <- 3, Workers <- {"w1"},
  Horizon <- 4, refunded <- giftRefunded, donor <- giftDonor, observed <- giftObserved,
  gift <- giftGift, job <- giftJob

\* Two requests that begin and answer ceremonies, which expire.
Staff == INSTANCE StaffAccess WITH
  Accounts <- {"a1"}, Keys <- {"k1"}, Invites <- {"i1"}, Sessions <- {"s1"},
  Ceremonies <- {"t1", "t2"}, Requests <- {"r1", "r2"}, Actions <- {"disable"},
  maxInviteAttempts <- 2, ceremonyLifetime <- 1, inviteLifetime <- 2, staffSessionLifetime <- 2,
  MaxRecovers <- 0, MaxTime <- 1, clock <- staffClock, staff <- staffStaff, req <- staffReq,
  lock <- staffLock

\* A worker, which may die and restart, that mails reminders.
Mail == INSTANCE Messages WITH
  Workers <- {"w1"}, Keys <- {"recovery5", "LAPSED"}, Requests <- {},
  Changes <- {"failure", "recover"}, MaxAttempts <- 2, Budget <- 1, Lease <- 2, RetryCap <- 2,
  ResendGap <- 1, Reminder <- 2, Grace <- 3, Horizon <- 4, MaxTime <- 4, MaxCrashes <- 1,
  clock <- mailClock, job <- mailJob, wrk <- mailWrk

\* A change of the address whose proofs may fail to be sent.
Address == INSTANCE EmailChanges WITH
  Donors <- {"d1"}, Addresses <- {"a", "x"}, First <- [d \in {"d1"} |-> "a"], Changes <- {"c1"},
  Confirmers <- {"p1"}, Workers <- {"w1"}, proofLifetime <- 2, deliveryLease <- 2,
  RetryAfter <- 1, MaxAttempts <- 2, Horizon <- 4, MaxTime <- 4, MaxDeaths <- 1,
  clock <- addressClock, deaths <- addressDeaths, donor <- addressDonor, staff <- addressStaff

\* Events of a refund that may come before its gift's.
Reports == INSTANCE Refunds WITH
  Commands <- {}, Dashboard <- {"d1"}, Amount <- [r \in {"d1"} |-> 2], GiftAmount <- 2,
  Requests <- {}, Workers <- {"w1"}, MaxAttempts <- 2, RetryCap <- 1, Window <- 1,
  RequestTime <- 1, KeyLife <- 2, Horizon <- 3, Late <- TRUE, MaxTime <- 3, MaxEvents <- 2,
  MaxDeaths <- 0, MaxRecords <- 2, clock <- refundClock, deaths <- refundDeaths, ev <- refundEv,
  gift <- refundGift, observed <- refundObserved, req <- refundReq, wrk <- refundWrk,
  lock <- refundLock

\* Two donors projected under new rules, one of whom always fails.
Rules == INSTANCE Projection WITH
  Donors <- {"a", "p"}, Gifts <- {}, Cards <- {}, Txs <- {"t1"}, Poison <- {"p"},
  Begun <- {"a", "p"}, Batch <- 1, Cap <- 2, FailCap <- 2, MaxTime <- 4, MaxMarks <- 0,
  MaxRefunds <- 0, MaxDeaths <- 0, clock <- creditClock, deaths <- creditDeaths,
  refunded <- creditRefunded

\* An event announced to volunteers in batches while they move.
Alerts == INSTANCE Events WITH
  Donors <- 1..3, Bookers <- {}, Invited <- {}, Erased <- {1}, Movers <- 1..3, Captains <- {1},
  Qualified <- {2}, Inputs <- AlertInputs, Windows <- [w \in {} |-> 0], EarlyLead <- 1,
  CheckInLead <- 1, Batch <- 2, MaxTime <- 2, MaxTickets <- 0, clock <- eventClock,
  ev <- eventEv, job <- eventJob

\* A worker whose purge may fail every time.
Purge == INSTANCE Retention WITH
  Workers <- {"w1"}, LastTouch <- 2, Batch <- 1, MaxRestarts <- 1,
  Fallible <- {"company", "batch"}

ASSUME Instances ==
  /\ Deletion!GiftsAssumption /\ Staff!StaffAccessAssumption /\ Mail!MessagesAssumption
  /\ Address!EmailChangesAssumption /\ Reports!RefundsAssumption /\ Rules!ProjectionAssumption
  /\ Alerts!EventsAssumption /\ Purge!RetentionAssumption

giftVars == <<now, faults, stripe, invoice, giftRefunded, events, giftDonor, bound, row,
                changes, period, giftObserved, giftGift, giftJob, hold>>
staffVars == <<staffClock, recovers, staffStaff, key, invite, ceremony, sess, staffReq,
                staffLock>>
mailVars == <<mailClock, facts, mailJob, mailWrk, crashes, bodies, valid>>
addressVars == <<addressClock, addressDeaths, addressDonor, addressStaff, change, inbox, conf,
                work>>
refundVars == <<refundClock, refundDeaths, remote, refundEv, refundGift, stored, refundObserved,
                cmd, refundReq, refundWrk, refundLock>>
creditVars == <<creditClock, creditDeaths, arrived, creditRefunded, marks, proj, tx>>
eventVars == <<eventClock, eventEv, guests, res, ticket, told, badged, erasing, leaked, near,
                eventJob, steady>>
purgeVars == <<touch, due, waits, cursor, locked, pc, restarts>>
progressVars == <<part, giftVars, staffVars, mailVars, addressVars, refundVars, creditVars, eventVars, purgeVars>>

ProgressInit ==
  /\ part \in {"deletion", "staff", "mail", "addresses", "refunds", "rules", "alerts", "purge"}
  /\ Deletion!Init
  /\ Staff!Init
  /\ Mail!Init
  /\ Address!Init
  /\ Reports!Init
  /\ Rules!Init
  /\ Alerts!Init
  /\ Purge!Init
  /\ part # "alerts" => near = {}

ProgressNext ==
  \/ part = "deletion" /\ Deletion!Next
     /\ UNCHANGED <<part, staffVars, mailVars, addressVars, refundVars, creditVars, eventVars, purgeVars>>
  \/ part = "staff" /\ Staff!Next
     /\ UNCHANGED <<part, giftVars, mailVars, addressVars, refundVars, creditVars, eventVars, purgeVars>>
  \/ part = "mail" /\ Mail!Next
     /\ UNCHANGED <<part, giftVars, staffVars, addressVars, refundVars, creditVars, eventVars, purgeVars>>
  \/ part = "addresses" /\ Address!Moves
     /\ UNCHANGED <<part, giftVars, staffVars, mailVars, refundVars, creditVars, eventVars, purgeVars>>
  \/ part = "refunds" /\ Reports!Next
     /\ UNCHANGED <<part, giftVars, staffVars, mailVars, addressVars, creditVars, eventVars, purgeVars>>
  \/ part = "rules" /\ Rules!Next
     /\ UNCHANGED <<part, giftVars, staffVars, mailVars, addressVars, refundVars, eventVars, purgeVars>>
  \/ part = "alerts" /\ Alerts!Next
     /\ UNCHANGED <<part, giftVars, staffVars, mailVars, addressVars, refundVars, creditVars, purgeVars>>
  \/ part = "purge" /\ Purge!Next
     /\ UNCHANGED <<part, giftVars, staffVars, mailVars, addressVars, refundVars, creditVars, eventVars>>

ProgressSpec == ProgressInit /\ [][ProgressNext]_progressVars

-----------------------------------------------------------------------------
(* What the code's scheduling guarantees, of each component's behaviours.   *)
(* Every worker takes its next step as long as there is one, whatever the   *)
(* last one answered (workers.Run);                                         *)
WorkersRun ==
  /\ WF_giftVars(part = "deletion" /\ \/ \E j \in Deletion!Jobs : Deletion!ClaimDeletedAccountReversal("w1", j)
                                         \/ Deletion!reverse("w1") \/ Deletion!Settle("w1") \/ Deletion!Crash("w1"))
  /\ WF_mailVars(part = "mail" /\ Mail!Step("w1"))
  /\ WF_addressVars(part = "addresses" /\ Address!DeliverNext("w1"))
  /\ WF_refundVars(part = "refunds" /\ Reports!WorkerStep("w1"))
  /\ WF_creditVars(part = "rules" /\ (Rules!RefreshDueProjections("t1") \/ Rules!Step("t1")))
  /\ WF_eventVars(part = "alerts" /\ Alerts!QueueNext /\ steady' = Alerts!Owed)
  /\ WF_purgeVars(part = "purge" /\ Purge!Step("w1"))

(* time passes, with leases, backoffs and billing periods;                  *)
TimePasses ==
  /\ WF_giftVars(part = "deletion" /\ ((\E j \in Deletion!Jobs : Deletion!Due(j)) \/ Deletion!Renew))
  /\ WF_mailVars(part = "mail" /\ Mail!Tick) /\ WF_addressVars(part = "addresses" /\ Address!Tick)
  /\ WF_refundVars(part = "refunds" /\ Reports!Tick) /\ WF_creditVars(part = "rules" /\ Rules!Tick)

(* and the processor delivers its events until they are acknowledged.       *)
EventsArrive ==
  /\ WF_giftVars(part = "deletion" /\ \E e \in Deletion!Events : Deletion!ProcessNext(e) \/ Deletion!Fail(e))
  /\ WF_refundVars(part = "refunds" /\ (Reports!recordGift \/ \E e \in 1..2 : Reports!SaveVerifiedEvent(e)))

(* A request that waits for a row, and a purge whose interval ends while    *)
(* its worker is elsewhere, come to their turn although others come between.*)
TurnsCome ==
  /\ SF_staffVars(part = "staff" /\ Staff!Step("r1")) /\ SF_staffVars(part = "staff" /\ Staff!Step("r2"))
  /\ SF_purgeVars(part = "purge" /\ Purge!IntervalEnds("w1"))

LiveSpec == ProgressSpec /\ WorkersRun /\ TimePasses /\ EventsArrive /\ TurnsCome

-----------------------------------------------------------------------------
\* Once the account is deleted the subscription its checkout started ends, also
\* one that is reported after the deletion, and every queued reversal is made,
\* or what would do it is parked for an operator (DeleteAccount, recordGift).
NoGivingAfterDeletion == Deletion!NoGivingAfterDeletion /\ Deletion!EveryReversalSettles

\* No request of staff waits for ever: none holds an account and waits for a
\* ceremony whose answer waits for the account (sweepCeremonies).
EveryRequestEnds == Staff!EveryRequestEnds

\* Every queued mail, a proof of an address too, is sent, withheld for a reason, or
\* parked after its attempts, whatever sends fail and workers die (workers.Run,
\* maxDeliveryAttempts).
Unsent == Mail!Unsettled # {} \/ Address!Unmailed # {}
EveryMailSettles == Unsent ~> ~Unsent

\* Every event the processor delivers is applied or parked, also those of a
\* refund that overtook its gift's, whatever fails (ProcessNext,
\* FailStripeEvent).
EveryEventSettles == Reports!EventSettles

\* The jobs that share the projection worker all come round: new rules reach
\* every donor although another's facts fail every time, an announced event's
\* fan-out ends, and due work is done while the purge keeps failing
\* (RefreshDueProjections, QueueNext, PurgeNext).
Behind == (part = "rules" /\ Rules!Behind # {}) \/ (part = "alerts" /\ Alerts!NextEventAlertJob) \/ (part = "purge" /\ due)
WorkerComesRound == Behind ~> ~Behind
=============================================================================
