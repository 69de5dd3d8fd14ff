------------------------------- MODULE Gifts -------------------------------
(***************************************************************************)
(* The gifts of one monthly checkout, as the Stripe worker records them    *)
(* from invoice and subscription events (internal/store/worker.go), and    *)
(* the reversal of what the checkout still takes after its donor deleted   *)
(* the account (deleted_account_reversals.go).                             *)
(*                                                                         *)
(* The processor sends an event for every failed and every successful      *)
(* collection of an invoice and for every change of the subscription; they *)
(* are applied in any order, late, and an invoice may be reported twice.   *)
(* An event is applied under the donor lock in one transaction, so one     *)
(* step here; a reversal is claimed, called and settled in three.          *)
(***************************************************************************)
EXTENDS Integers, Sequences, FiniteSets, FiniteSetsExt

CONSTANTS
  MaxPeriod,     \* bound: billing periods of the subscription
  MaxChanges,    \* bound: amount changes the donor makes
  Copies,        \* events the processor sends of one collection
  EventAttempts, ReversalAttempts,   \* the attempts each has
  MaxFaults,     \* bound: events that fail
  ReferralEnds,  \* when the checkout's referral window closes
  CheckoutOpen,  \* how long the hosted checkout can be paid
  SettleWait,    \* until when it bars the deletion
  Workers,       \* Stripe workers
  Horizon        \* bound: the clock

GiftsAssumption ==
  /\ {MaxPeriod, MaxChanges, EventAttempts, ReversalAttempts, MaxFaults, ReferralEnds, CheckoutOpen, SettleWait, Horizon} \subseteq Nat
  /\ MaxPeriod > 0 /\ EventAttempts > 0 /\ ReversalAttempts > 0 /\ Horizon > 0 /\ CheckoutOpen < SettleWait

VARIABLES
  now, faults,
  stripe,    \* the subscription: status, stopping, period, price
  invoice,   \* the processor's invoice of each period
  refunded,  \* the reversal that refunded the period's payment
  events,    \* donor_stripe_events
  donor,     \* claimed, deleted (donor_deletions), login mails queued
  bound,     \* donor_stripe_checkouts: is the subscription bound to the attempt
  row,       \* donor_subscriptions
  changes,   \* donor_amount_changes of the checkout, oldest first
  period, observed, gift,  \* donor_billing_periods, _observations, donor_gifts
  job, hold  \* donor_deleted_account_reversals, and what each worker has claimed

ledger == <<bound, row, period, observed, gift, job>>
vars == <<now, faults, stripe, invoice, refunded, events, donor, ledger, changes, hold>>

Periods == 1 .. MaxPeriod
Amounts == 0 .. MaxChanges      \* 0 is the draft's amount, n the n-th change's
Events == [kind : {"failed", "paid"}, of : Periods, copy : Copies] \cup [kind : {"sub"}, of : 0 .. MaxPeriod + 1, copy : {0}]
Jobs == [kind : {"REFUND"}, target : Periods] \cup {[kind |-> "CANCEL", target |-> 0]}
Never == Horizon + 1

(***************************************************************************)
(* The processor, as the code uses it.                                     *)
(***************************************************************************)
Terminal(status) == status \in {"canceled", "incomplete_expired"}
NoInvoice == [status |-> "none", amount |-> 0, paid |-> Never]
Sent(E) == [e \in Events |-> IF e \in E /\ events[e].status = "none" THEN [events[e] EXCEPT !.status = "sent"] ELSE events[e]]
SubEvent == {[kind |-> "sub", of |-> stripe.period, copy |-> 0]}
EndEvent == {[kind |-> "sub", of |-> MaxPeriod + 1, copy |-> 0]}

\* The hosted checkout is paid: the subscription starts, its first invoice open.
Subscribe ==
  /\ stripe.status = "none" /\ now < CheckoutOpen
  /\ stripe' = [stripe EXCEPT !.status = "active", !.period = 1]
  /\ invoice' = [invoice EXCEPT ![1] = [status |-> "open", amount |-> 0, paid |-> Never]]
  /\ events' = Sent(SubEvent)
  /\ UNCHANGED <<now, faults, refunded, donor, ledger, changes, hold>>

\* The next period starts: a subscription set to stop ends, another is billed
\* its current price.
Renew ==
  /\ stripe.status \in {"active", "past_due"}
  /\ \/ /\ stripe.stops
        /\ stripe' = [stripe EXCEPT !.status = "canceled"]
        /\ events' = Sent(EndEvent)
        /\ UNCHANGED invoice
     \/ /\ ~stripe.stops /\ stripe.period < MaxPeriod
        /\ stripe' = [stripe EXCEPT !.period = @ + 1]
        /\ invoice' = [invoice EXCEPT ![stripe.period + 1] = [status |-> "open", amount |-> stripe.price, paid |-> Never]]
        /\ events' = Sent(SubEvent)
  /\ UNCHANGED <<now, faults, refunded, donor, ledger, changes, hold>>

CollectFails(p) ==
  /\ invoice[p].status = "open" /\ ~Terminal(stripe.status)
  /\ stripe' = [stripe EXCEPT !.status = "past_due"]
  /\ \E c \in Copies : events' = Sent({[kind |-> "failed", of |-> p, copy |-> c]})
  /\ events' # events
  /\ UNCHANGED <<now, faults, invoice, refunded, donor, ledger, changes, hold>>

Collect(p) ==
  /\ invoice[p].status = "open" /\ ~Terminal(stripe.status)
  /\ invoice' = [invoice EXCEPT ![p].status = "paid", ![p].paid = now]
  /\ stripe' = [stripe EXCEPT !.status = "active"]
  /\ \E C \in SUBSET Copies \ {{}} : events' = Sent({[kind |-> "paid", of |-> p, copy |-> c] : c \in C})
  /\ UNCHANGED <<now, faults, refunded, donor, ledger, changes, hold>>

(***************************************************************************)
(* What the donor does: the recurring commands only as far as an invoice's *)
(* amount and the deletion depend on them (RecurringCommands has the rest).*)
(***************************************************************************)
LatestPending == changes # <<>> /\ ~changes[Len(changes)].confirmed

insertAmountChange ==
  /\ donor.deleted = Never /\ row = "active" /\ ~LatestPending /\ Len(changes) < MaxChanges
  /\ stripe.status = "active" /\ ~stripe.stops
  /\ changes' = Append(changes, [effective |-> stripe.period + 1, confirmed |-> FALSE])
  /\ UNCHANGED <<now, faults, stripe, invoice, refunded, events, donor, ledger, hold>>

\* The command's call reaches the processor, unless its process died before,
\* and sends an event; it never comes after the renewal it is meant for.
ChangeMonthlyAmount ==
  /\ LatestPending /\ stripe.price # Len(changes) /\ stripe.period + 1 = changes[Len(changes)].effective
  /\ stripe.status = "active"
  /\ stripe' = [stripe EXCEPT !.price = Len(changes)]
  /\ events' = Sent(SubEvent)
  /\ UNCHANGED <<now, faults, invoice, refunded, donor, ledger, changes, hold>>

\* A cancellation at the period's end that ran to its completion.
Cancel ==
  /\ donor.deleted = Never /\ row # "none" /\ ~stripe.stops /\ ~Terminal(stripe.status)
  /\ stripe' = [stripe EXCEPT !.stops = TRUE]
  /\ row' = "stopping"
  /\ UNCHANGED <<now, faults, invoice, refunded, events, donor, bound, period, observed, gift, job, changes, hold>>

ClaimAccount ==
  /\ ~donor.claimed
  /\ donor' = [donor EXCEPT !.claimed = TRUE]
  /\ UNCHANGED <<now, faults, stripe, invoice, refunded, events, ledger, changes, hold>>

givingRenews == IF row = "none" THEN bound \/ now < SettleWait ELSE row = "active"

\* The clock is read once the donor's row is locked.
ClockBefore == now - 1 \* mutant
ClockUnderLock == now

DeleteAccount ==
  /\ donor.claimed /\ donor.deleted = Never /\ ~givingRenews
  /\ donor' = [donor EXCEPT !.deleted = ClockUnderLock]
  /\ UNCHANGED <<now, faults, stripe, invoice, refunded, events, ledger, changes, hold>>

(***************************************************************************)
(* Applying an event.                                                      *)
(***************************************************************************)
\* reconcileAmount: the processor bills the latest change, which it confirms
\* only until the renewal the change was made for, or still the amount before.
Reconcilable ==
  IF changes = <<>> THEN stripe.price = 0
  ELSE LET c == changes[Len(changes)] IN
    \/ stripe.price = Len(changes) /\ (c.confirmed \/ c.effective = stripe.period + 1)
    \/ ~c.confirmed /\ stripe.price = Len(changes) - 1
Confirmed == IF changes # <<>> /\ stripe.price = Len(changes)
             THEN [changes EXCEPT ![Len(changes)].confirmed = TRUE] ELSE changes
Synced == IF Terminal(stripe.status) THEN "ended" ELSE IF stripe.stops THEN "stopping" ELSE "active"

reconcileSubscription == bound' = TRUE /\ row' = Synced /\ changes' = Confirmed

\* The command that asked for the change sees it at the processor.
CompleteChange ==
  /\ LatestPending /\ stripe.price = Len(changes) /\ Reconcilable
  /\ reconcileSubscription
  /\ UNCHANGED <<now, faults, stripe, invoice, refunded, events, donor, period, observed, gift, job, hold>>

\* The amount the period must charge: that of the last confirmed change in
\* force when it starts. Changes are made in the order they take effect.
InvoiceAmountChange(made, p) == Max({0} \cup {n \in DOMAIN made : made[n].confirmed /\ made[n].effective <= p})

\* An invoice event first syncs the subscription if a change is unconfirmed.
invoiceAmount == IF LatestPending THEN reconcileSubscription ELSE bound' = TRUE /\ UNCHANGED <<row, changes>>
Accepted(e) ==
  /\ e.kind = "sub" \/ LatestPending => Reconcilable
  /\ e.kind # "sub" => invoice[e.of].amount = InvoiceAmountChange(IF LatestPending THEN Confirmed ELSE changes, e.of)

FailedAgain(p) == [period EXCEPT ![p] = "FAILED"] \* mutant
InsertBillingPeriod(p) == IF period[p] = "none" THEN [period EXCEPT ![p] = "FAILED"] ELSE period
MarkPeriodPaid(p) == [period EXCEPT ![p] = "PAID"]
recordPeriod(p, paid) == period' = IF paid THEN MarkPeriodPaid(p) ELSE InsertBillingPeriod(p)

InsertBillingObservation(e, status) == [observed EXCEPT ![e] = status]

HasGift == \E p \in Periods : gift[p].amount # -1
HasGiftOf(p) == gift[p].amount # -1
NoGift == [amount |-> -1, paid |-> Never, referred |-> FALSE]

\* The first gift of a donor who never signed in queues the sign-in link.
HadGift(p) == HasGift
recordGift(p) ==
  /\ gift' = IF HasGiftOf(p) THEN gift
             ELSE [gift EXCEPT ![p] = [amount |-> invoice[p].amount, paid |-> invoice[p].paid,
                                       referred |-> invoice[p].paid < ReferralEnds]]
  /\ donor' = IF HadGift(p) \/ donor.claimed THEN donor ELSE [donor EXCEPT !.mails = Min({@ + 1, 2})]

\* What the checkout took after the account was deleted is queued once: each
\* payment, and the subscription unless it ended.
LateGifts == {p \in Periods : HasGiftOf(p)' /\ gift'[p].paid > donor.deleted}
QueueDeletedAccountRefunds == {[kind |-> "REFUND", target |-> p] : p \in LateGifts}
CancelIfRefunding == \* mutant
  IF LateGifts # {} /\ row' # "ended" THEN {[kind |-> "CANCEL", target |-> 0]} ELSE {}
QueueDeletedAccountCancellation ==
  IF donor.deleted # Never /\ bound' /\ row' # "ended" THEN {[kind |-> "CANCEL", target |-> 0]} ELSE {}
NoJob == [status |-> "none", attempts |-> 0, due |-> FALSE]
queueDeletedAccountReversals ==
  job' = [j \in Jobs |-> IF job[j] = NoJob /\ j \in QueueDeletedAccountRefunds \cup QueueDeletedAccountCancellation
                         THEN [status |-> "queued", attempts |-> 0, due |-> TRUE] ELSE job[j]]

applySubscriptionEvent == reconcileSubscription /\ UNCHANGED <<donor, period, observed, gift>>

applyFailedInvoice(e) ==
  /\ invoiceAmount
  /\ recordPeriod(e.of, FALSE)
  /\ observed' = InsertBillingObservation(e, "FAILED")
  /\ UNCHANGED <<donor, gift>>

applyPaidInvoice(e) ==
  /\ invoiceAmount
  /\ recordPeriod(e.of, TRUE)
  /\ recordGift(e.of)
  /\ observed' = InsertBillingObservation(e, "PAID")

Claimable(e) == events[e].status = "sent" /\ events[e].attempts < EventAttempts

\* ProcessNext applies an event whose facts hold.
ProcessNext(e) ==
  /\ Claimable(e) /\ Accepted(e)
  /\ CASE e.kind = "sub" -> applySubscriptionEvent
       [] e.kind = "failed" -> applyFailedInvoice(e)
       [] e.kind = "paid" -> applyPaidInvoice(e)
  /\ queueDeletedAccountReversals
  /\ events' = [events EXCEPT ![e].status = "done"]
  /\ UNCHANGED <<now, faults, stripe, invoice, refunded, hold>>

\* Facts that do not hold, or a processor or a database that does not answer:
\* the event's effects roll back and its attempt counts.
FailStripeEvent(e) == [events EXCEPT ![e].attempts = @ + 1]
Fail(e) ==
  /\ Claimable(e)
  /\ \/ ~Accepted(e) /\ UNCHANGED faults
     \/ faults < MaxFaults /\ faults' = faults + 1
  /\ events' = FailStripeEvent(e)
  /\ UNCHANGED <<now, stripe, invoice, refunded, donor, ledger, changes, hold>>

\* The operator has a parked event tried again.
RetryStripeEvent(e) ==
  /\ events[e].status = "sent" /\ events[e].attempts = EventAttempts
  /\ events' = [events EXCEPT ![e].attempts = 0]
  /\ UNCHANGED <<now, faults, stripe, invoice, refunded, donor, ledger, changes, hold>>

(***************************************************************************)
(* DeletedAccountReversals.                                                *)
(***************************************************************************)
Idle == [job |-> [kind |-> "none", target |-> 0], attempt |-> 0, result |-> "none"]
Busy(w) == hold[w].attempt > 0

MayClaim(j) == job[j].status = "queued" /\ job[j].due /\ job[j].attempts < ReversalAttempts
Leased(j) == [job EXCEPT ![j].attempts = @ + 1, ![j].due = FALSE]
ClaimDeletedAccountReversal(w, j) ==
  /\ ~Busy(w) /\ MayClaim(j)
  /\ job' = Leased(j)
  /\ hold' = [hold EXCEPT ![w] = [job |-> j, attempt |-> job[j].attempts + 1, result |-> "none"]]
  /\ UNCHANGED <<now, faults, stripe, invoice, refunded, events, donor, bound, row, period, observed, gift, changes>>

\* The lease or the backoff of a reversal has passed.
Due(j) ==
  /\ job[j].status = "queued" /\ ~job[j].due /\ job[j].attempts < ReversalAttempts
  /\ job' = [job EXCEPT ![j].due = TRUE]
  /\ UNCHANGED <<now, faults, stripe, invoice, refunded, events, donor, bound, row, period, observed, gift, changes, hold>>

Answered(w, result) == hold' = [hold EXCEPT ![w].result = result]

\* The request names the reversal, so a repeated one is the same refund.
RefundKey(attempts) == 1
RefundAfterDeletion(w) ==
  LET p == hold[w].job.target IN
  /\ hold[w].job.kind = "REFUND"
  /\ \/ Answered(w, "failed") /\ UNCHANGED refunded
     \/ /\ refunded[p] \in {0, RefundKey(hold[w].attempt)}
        /\ refunded' = [refunded EXCEPT ![p] = RefundKey(hold[w].attempt)]
        /\ \E result \in {"ok", "failed"} : Answered(w, result)
     \/ /\ refunded[p] \notin {0, RefundKey(hold[w].attempt)}
        /\ Answered(w, "refused") /\ UNCHANGED refunded
  /\ UNCHANGED <<stripe, events>>

\* A cancellation that was refused or got no answer is done if the processor
\* says that the subscription ended.
EndedAtProcessor == Terminal(stripe'.status)
CancelSubscriptionNow(w) ==
  /\ hold[w].job.kind = "CANCEL"
  /\ \/ UNCHANGED <<stripe, events>>
     \/ /\ ~Terminal(stripe.status)
        /\ stripe' = [stripe EXCEPT !.status = "canceled"]
        /\ events' = Sent(EndEvent)
  /\ \/ stripe' # stripe /\ Answered(w, "ok")
     \/ EndedAtProcessor /\ Answered(w, "ok")
     \/ Answered(w, "failed")
  /\ UNCHANGED refunded

reverse(w) ==
  /\ Busy(w) /\ hold[w].result = "none"
  /\ RefundAfterDeletion(w) \/ CancelSubscriptionNow(w)
  /\ UNCHANGED <<now, faults, invoice, donor, ledger, changes>>

CompleteDeletedAccountReversal(j) == [job EXCEPT ![j].status = "done"]
FailDeletedAccountReversal(j) == [job EXCEPT ![j].due = FALSE]
Settle(w) ==
  /\ hold[w].result # "none"
  /\ job' = IF hold[w].result = "ok" THEN CompleteDeletedAccountReversal(hold[w].job)
            ELSE FailDeletedAccountReversal(hold[w].job)
  /\ hold' = [hold EXCEPT ![w] = Idle]
  /\ UNCHANGED <<now, faults, stripe, invoice, refunded, events, donor, bound, row, period, observed, gift, changes>>

Crash(w) ==
  /\ Busy(w)
  /\ hold' = [hold EXCEPT ![w] = Idle]
  /\ UNCHANGED <<now, faults, stripe, invoice, refunded, events, donor, ledger, changes>>

Tick ==
  /\ now < Horizon
  /\ now' = now + 1
  /\ UNCHANGED <<faults, stripe, invoice, refunded, events, donor, ledger, changes, hold>>

Init ==
  /\ now = 1 /\ faults = 0
  /\ stripe = [status |-> "none", stops |-> FALSE, period |-> 0, price |-> 0]
  /\ invoice = [p \in Periods |-> NoInvoice]
  /\ refunded = [p \in Periods |-> 0]
  /\ events = [e \in Events |-> [status |-> "none", attempts |-> 0]]
  /\ donor = [claimed |-> FALSE, deleted |-> Never, mails |-> 0]
  /\ bound = FALSE /\ row = "none" /\ changes = <<>>
  /\ period = [p \in Periods |-> "none"]
  /\ observed = [e \in Events |-> "none"]
  /\ gift = [p \in Periods |-> NoGift]
  /\ job = [j \in Jobs |-> NoJob]
  /\ hold = [w \in Workers |-> Idle]

Next ==
  \/ Subscribe \/ Renew \/ insertAmountChange \/ ChangeMonthlyAmount \/ CompleteChange
  \/ Cancel \/ ClaimAccount \/ DeleteAccount \/ Tick
  \/ \E p \in Periods : CollectFails(p) \/ Collect(p)
  \/ \E e \in Events : ProcessNext(e) \/ Fail(e) \/ RetryStripeEvent(e)
  \/ \E w \in Workers : (\E j \in Jobs : ClaimDeletedAccountReversal(w, j)) \/ reverse(w) \/ Settle(w) \/ Crash(w)
  \/ \E j \in Jobs : Due(j)

Spec == Init /\ [][Next]_vars

Parked(e) == events[e].status = "sent" /\ events[e].attempts = EventAttempts
ParkedJob(j) == job[j].status = "queued" /\ job[j].attempts = ReversalAttempts

\* The state has its shape, and a worker only holds a reversal it was given an
\* attempt of.
TypeOK ==
  /\ now \in 1 .. Horizon /\ faults \in 0 .. MaxFaults
  /\ stripe \in [status : {"none", "active", "past_due", "canceled"}, stops : BOOLEAN, period : 0 .. MaxPeriod, price : Amounts]
  /\ invoice \in [Periods -> [status : {"none", "open", "paid"}, amount : Amounts, paid : 1 .. Never]]
  /\ refunded \in [Periods -> Nat]
  /\ events \in [Events -> [status : {"none", "sent", "done"}, attempts : 0 .. EventAttempts]]
  /\ donor \in [claimed : BOOLEAN, deleted : 0 .. Never, mails : 0 .. 2]
  /\ bound \in BOOLEAN /\ row \in {"none", "active", "stopping", "ended"}
  /\ Len(changes) <= MaxChanges /\ \A n \in DOMAIN changes : changes[n] \in [effective : 2 .. MaxPeriod + 1, confirmed : BOOLEAN]
  /\ period \in [Periods -> {"none", "FAILED", "PAID"}]
  /\ observed \in [Events -> {"none", "FAILED", "PAID"}]
  /\ gift \in [Periods -> [amount : {-1} \cup Amounts, paid : 1 .. Never, referred : BOOLEAN]]
  /\ job \in [Jobs -> [status : {"none", "queued", "done"}, attempts : 0 .. ReversalAttempts, due : BOOLEAN]]
  /\ \A w \in Workers : Busy(w) => hold[w].attempt <= job[hold[w].job].attempts

\* The ledger has a gift for a period exactly when it says that the period was
\* paid, and then the processor collected that amount at that time, however
\* late, repeated and out of order the events were (recordPeriod, recordGift).
GiftsMatchCharges ==
  \A p \in Periods :
    /\ (period[p] = "PAID") <=> (gift[p].amount # -1)
    /\ gift[p].amount # -1 => /\ invoice[p].status = "paid"
                              /\ gift[p].amount = invoice[p].amount /\ gift[p].paid = invoice[p].paid

\* Every applied invoice event left its own line in the billing history.
HistoryComplete ==
  \A e \in Events : events[e].status = "done" /\ e.kind # "sub" => observed[e] = (IF e.kind = "paid" THEN "PAID" ELSE "FAILED")

\* The latest change ran at the processor and its renewal came before any sync.
MissedRenewal == LatestPending /\ stripe.price = Len(changes) /\ stripe.period >= changes[Len(changes)].effective

\* No event is refused for its amount: whichever changes were made and
\* confirmed since, that of an invoice finds the amount the processor billed
\* for its period (invoiceAmount), unless a change missed its renewal.
ChargesAccepted == \A e \in Events : events[e].status = "sent" /\ ~MissedRenewal => Accepted(e)

\* Together: the ledger has exactly what the processor collected, every applied
\* invoice event is in the history, and no event is refused for its amount,
\* whichever changes were made and confirmed since (recordPeriod, recordGift,
\* InsertBillingObservation, invoiceAmount).
LedgerMatchesCharges == GiftsMatchCharges /\ HistoryComplete /\ ChargesAccepted

\* Exactly what the checkout took after the deletion is reversed: every such
\* gift has its refund queued with it, and no other payment is refunded.
LateGiftsReversed ==
  \A p \in Periods :
    LET late == gift[p].amount # -1 /\ gift[p].paid > donor.deleted IN
    /\ late => job[[kind |-> "REFUND", target |-> p]].status # "none"
    /\ refunded[p] # 0 => late

\* A retried refund is the request the processor already knows: it is never
\* refused as a second refund of the payment.
RetryIsSameRequest == \A w \in Workers : hold[w].result # "refused"

\* A reversal recorded as completed was made at the processor.
CompletedWasMade ==
  \A j \in Jobs : job[j].status = "done" =>
    IF j.kind = "REFUND" THEN refunded[j.target] # 0 ELSE Terminal(stripe.status)

\* Together: of a deleted account exactly what was taken after the deletion is
\* reversed, a retried reversal is the request the processor already knows, and
\* one that is recorded as completed was made (recordGift, reverse, Settle).
ReversalsExact == LateGiftsReversed /\ RetryIsSameRequest /\ CompletedWasMade

\* Every queued reversal is completed, or parked after its attempts.
Unreversed == {j \in Jobs : job[j].status = "queued" /\ ~ParkedJob(j)}
EveryReversalSettles == (Unreversed # {}) ~> (Unreversed = {})

\* Once the account is deleted, the subscription the checkout started ends,
\* also one that was reported only after the deletion; or what reports it, or
\* its cancellation, is parked for the operator.
NoGivingAfterDeletion ==
  (donor.deleted # Never) ~>
    \/ stripe.status = "none" \/ Terminal(stripe.status)
    \/ (\E e \in Events : Parked(e)) \/ (\E j \in Jobs : ParkedJob(j))
=============================================================================
