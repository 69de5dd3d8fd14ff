------------------------------- MODULE Money --------------------------------
(***************************************************************************)
(* The components that keep what was paid: gifts and the reversals of a    *)
(* deleted account, refunds, the donor's card and referral totals. As      *)
(* modelled these components share no variable: where the code joins them, *)
(* each model has the other's effect as an action of its own. A behaviour  *)
(* of the whole is then one behaviour of each, interleaved, and what holds *)
(* of each alone holds of the whole: a behaviour here is one of a single   *)
(* component, the others resting in their initial states.                  *)
(***************************************************************************)
EXTENDS Gifts

\* The constants of the modules instantiated below, one field for each.
CONSTANTS
  StaffRefunds,      \* of Refunds, where staff refund a gift
  DashboardRefunds,  \* of Refunds, where the processor's dashboard does
  CardUpdates        \* of PaymentMethods

VARIABLES
  part,  \* the component this behaviour is of
  refundClock, refundDeaths, remote, refundEv, refundGift, stored, refundObserved, cmd, req,
  wrk, refundLock,
  cardClock, cardDeaths, rows, session, sub, keyed, cardEv, act, cardLock,
  creditClock, creditDeaths, arrived, creditRefunded, marks, proj, tx

Circle ==
  {[donor |-> "a", paid |-> 1, referrer |-> "r", kind |-> "LINK"],
   [donor |-> "r", paid |-> 1, referrer |-> "a", kind |-> "IRL"],
   [donor |-> "b", paid |-> 1, referrer |-> "r", kind |-> "LINK"]}

\* The module itself, with the constants of the run, has two billing periods, of
\* which the second may have another amount. Here an account is deleted at any
\* moment, and a call may fail unnoticed; the bound is one period.
OnePeriod == stripe'.period <= 1
Reversals == INSTANCE Gifts WITH MaxChanges <- 0, ReversalAttempts <- 2, MaxFaults <- 1, Horizon <- 4

\* Staff ask for refunds, several of them for one at once.
Staff == INSTANCE Refunds WITH
  Commands <- StaffRefunds.Commands, Dashboard <- StaffRefunds.Dashboard,
  Amount <- StaffRefunds.Amount, GiftAmount <- StaffRefunds.GiftAmount,
  Requests <- StaffRefunds.Requests, Workers <- StaffRefunds.Workers,
  MaxAttempts <- StaffRefunds.MaxAttempts, RetryCap <- StaffRefunds.RetryCap,
  Window <- StaffRefunds.Window, RequestTime <- StaffRefunds.RequestTime,
  KeyLife <- StaffRefunds.KeyLife, Horizon <- StaffRefunds.Horizon, Late <- StaffRefunds.Late,
  MaxTime <- StaffRefunds.MaxTime, MaxEvents <- StaffRefunds.MaxEvents,
  MaxDeaths <- StaffRefunds.MaxDeaths, MaxRecords <- StaffRefunds.MaxRecords,
  clock <- refundClock, deaths <- refundDeaths, ev <- refundEv, gift <- refundGift,
  observed <- refundObserved, lock <- refundLock

\* Refunds are made in the dashboard, whose events several workers apply.
Reports == INSTANCE Refunds WITH
  Commands <- DashboardRefunds.Commands, Dashboard <- DashboardRefunds.Dashboard,
  Amount <- DashboardRefunds.Amount, GiftAmount <- DashboardRefunds.GiftAmount,
  Requests <- DashboardRefunds.Requests, Workers <- DashboardRefunds.Workers,
  MaxAttempts <- DashboardRefunds.MaxAttempts, RetryCap <- DashboardRefunds.RetryCap,
  Window <- DashboardRefunds.Window, RequestTime <- DashboardRefunds.RequestTime,
  KeyLife <- DashboardRefunds.KeyLife, Horizon <- DashboardRefunds.Horizon,
  Late <- DashboardRefunds.Late, MaxTime <- DashboardRefunds.MaxTime,
  MaxEvents <- DashboardRefunds.MaxEvents, MaxDeaths <- DashboardRefunds.MaxDeaths,
  MaxRecords <- DashboardRefunds.MaxRecords,
  clock <- refundClock, deaths <- refundDeaths, ev <- refundEv, gift <- refundGift,
  observed <- refundObserved, lock <- refundLock

\* The donor changes the card.
Card == INSTANCE PaymentMethods WITH
  Updates <- CardUpdates.Updates, Requests <- CardUpdates.Requests,
  Workers <- CardUpdates.Workers, Life <- CardUpdates.Life, Margin <- CardUpdates.Margin,
  Window <- CardUpdates.Window, MaxAttempts <- CardUpdates.MaxAttempts,
  MaxTime <- CardUpdates.MaxTime, MaxDeaths <- CardUpdates.MaxDeaths, clock <- cardClock,
  deaths <- cardDeaths, ev <- cardEv, lock <- cardLock

\* Two donors who refer each other, projected by two transactions at once.
Credit == INSTANCE Projection WITH
  Donors <- {"a", "b", "r"}, Gifts <- Circle, Cards <- {}, Txs <- {"t1", "t2"}, Poison <- {},
  Begun <- {"r"}, Batch <- 2, Cap <- 3, FailCap <- 2, MaxTime <- 0, MaxMarks <- 0,
  MaxRefunds <- 2, MaxDeaths <- 1, clock <- creditClock, deaths <- creditDeaths,
  refunded <- creditRefunded

ASSUME Instances ==
  /\ GiftsAssumption /\ Reversals!GiftsAssumption /\ Staff!RefundsAssumption
  /\ Reports!RefundsAssumption /\ Card!PaymentMethodsAssumption /\ Credit!ProjectionAssumption

refundVars == <<refundClock, refundDeaths, remote, refundEv, refundGift, stored, refundObserved,
                cmd, req, wrk, refundLock>>
cardVars == <<cardClock, cardDeaths, rows, session, sub, keyed, cardEv, act, cardLock>>
creditVars == <<creditClock, creditDeaths, arrived, creditRefunded, marks, proj, tx>>
moneyVars == <<part, vars, refundVars, cardVars, creditVars>>

MoneyInit ==
  /\ part \in {"ledger", "reversals", "staff refunds", "refund events", "cards", "credit"}
  /\ (IF part = "reversals" THEN Reversals!Init ELSE Init)
  /\ (IF part = "refund events" THEN Reports!Init ELSE Staff!Init)
  /\ Card!Init
  /\ Credit!Init

MoneyNext ==
  \/ part = "ledger" /\ Next /\ UNCHANGED <<part, refundVars, cardVars, creditVars>>
  \/ part = "reversals" /\ Reversals!Next /\ OnePeriod
     /\ UNCHANGED <<part, refundVars, cardVars, creditVars>>
  \/ part = "staff refunds" /\ Staff!Next
     /\ UNCHANGED <<part, vars, cardVars, creditVars>>
  \/ part = "refund events" /\ Reports!Next
     /\ UNCHANGED <<part, vars, cardVars, creditVars>>
  \/ part = "cards" /\ Card!Next
     /\ UNCHANGED <<part, vars, refundVars, creditVars>>
  \/ part = "credit" /\ Credit!Next
     /\ UNCHANGED <<part, vars, refundVars, cardVars>>

MoneySpec == MoneyInit /\ [][MoneyNext]_moneyVars

-----------------------------------------------------------------------------
\* A refund moves money once, whatever is retried, dies or loses its answer, no
\* two of a gift are with the processor at once or exceed it together, and
\* once its events are applied what is stored is what the processor says
\* (createRefund, applyRefundEvent).
RefundsExact ==
  /\ part = "staff refunds" => Staff!RefundsExact
  /\ part = "refund events" => Reports!RefundsExact

\* The card the donor entered last stays, however late a stalled fetch of an
\* older update calls the processor, and one update is in progress at most
\* (applyDefaultMethod, prefetchPaymentSetup).
LatestCardStands == Card!LatestCardStands /\ Card!OneInProgress

\* A referrer's totals are what the projections of those referred to them add
\* up to, although two donors who refer each other are projected at once
\* (SaveProjection).
TotalsExact == Credit!TotalsExact
=============================================================================
