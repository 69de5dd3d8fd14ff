# A TLA+ verification project for the donor platform

The repository is a donation platform: a Go API and its workers
(`apps/donor-api`), a web application (`apps/web`), a small ledger worker for
cash machines (`apps/atm-ledger`), and Stripe as the payment processor. Money
moves at Stripe; the API keeps, in PostgreSQL, what it asked Stripe for and what
Stripe reported, and everything that follows from it: recognition, messages,
events, partners and their employees. The hard part is keeping all of it in step
while requests race, processes die, answers are lost and webhook events arrive
late, repeated and out of order.

All source paths below are relative to `apps/donor-api/internal/store/` unless
they say otherwise.

## 1. Inventory

| Component | State it keeps | Operations | What makes it correct | Module |
|---|---|---|---|---|
| Hosted checkout (`checkout.go`) | attempts, one recurring reservation per donor | begin, prepare, retire, create, acknowledge | a donor never has two monthly gifts that can charge; a slot is freed in the end | `Checkout` |
| Recurring commands (`recurring.go`, `recurring_amount.go`) | cancellations, amount changes, the subscription's lease | refresh, prepare, mutate, complete | one effective processor call at a time; nothing runs twice; what is reported done is done | `RecurringCommands` |
| Subscription reconciliation (`subscriptions.go`) | `donor_subscriptions` with `observed_at` | fetch without a lock, reconcile under it | a stale snapshot never overwrites a newer state | `RecurringCommands` |
| Gift recording (`worker.go`) | invoice and subscription events, gifts, history | apply, fail, park | every charge is a gift or a parked event, once, at the right amount | `Gifts` |
| Deleted-account reversals (`deleted_account_reversals.go`) | jobs with a lease and a stage | queue, claim, call, settle | what is taken after a deletion goes back, by one request | `Gifts` |
| Refunds (`refunds.go`, `admin_finance.go`) | commands, refunds, observations | stage, submit, observe, abandon | no command refunds twice; the latest processor state wins | `Refunds` |
| Financial projection (`financial.go`, `outbox.go`) | per-donor totals, the referrer's totals, due dates | project, apply a difference, recount | the totals are exact once nothing runs | `Projection` |
| Payment methods (`payment_setup.go`, `payment_methods.go`) | updates and their hosted sessions | begin, open, verify, apply | one update at a time; the latest card stands | `PaymentMethods` |
| Request budget (`stripe_budget.go`, `payments/ratebudget.go`) | one row per bucket, tokens per process | reserve, wait, give up | the account's rate holds; nobody is refused while there is room | `Budget` |
| Donor messages (`messages.go`, `outbox.go`, `admin_messages.go`) | intents with attempts and leases | queue, prepare, claim, send, complete, resend | one sender; what is sent is still true; every message settles | `Messages` |
| Push (`push.go`, `partner_push.go`) | tokens on sessions, notifications | register, claim, send, drop a token | a token is one installation; only its holder is told | `Push` |
| Sessions (`sessions.go`, `tx.go`, `account.go`) | sessions and their token pairs | sign in, refresh, sign out in four ways | what has been signed out stays out; a lost answer can be retried | `Sessions` |
| Sign-in links (`account.go`, `outbox.go`) | queued mails, links | request, mint, send, redeem | a link works once and only while its sibling has not | `LoginLinks` |
| Other ways in (`donor_passkeys.go`, `signin_methods.go`, `passwords.go`) | passkeys, ceremonies, phone codes, identities | register, answer, guess, link | an answer counts once; a credential is held when it is used | `Credentials` |
| Email changes (`email_changes.go`, `email_identity.go`) | changes, proofs, reserved addresses | request, confirm twice, mail | both addresses are proved; an address has one role | `EmailChanges` |
| Staff accounts (`staff*.go`) | accounts, invitations, ceremonies | invite, activate, disable, recover | an administrator stays; recovery cuts every other way off | `StaffAccess` |
| Events (`events.go`, `event_staff.go`, `event_alert_fanout.go`) | tickets, guests, notices, the fan-out's cursor | book, cancel, promote, check in, announce | seats stay within the capacity and go to who waited longest | `Events` |
| Initiatives (`initiatives.go`, `initiative_staff.go`) | records, figures, spend drafts, rotation | edit, verify, publish, rotate | what is public was verified; each is seen once | `Initiatives` |
| Partners (`partner_application.go`, `partner_staff.go`, `partner_portal.go`, `partner_sign_in.go`) | applications, users, links, sessions | apply, decide, invite, sign in, export | removal cuts off; an administrator stays | `PartnerPortal` |
| Partner mail (`partner_messages.go`) | intents per key | queue, claim, mail each recipient | a completed message reached all; every message settles | `PartnerMail` |
| Recognition (`badges.go`, `recognition_rules.go`, `founding_claims.go`) | rules, awards, claims, grants | award, grant, revoke, import | awards agree with facts and rules; what staff revoked stays revoked | `Recognition` |
| Employees (`employee.go`, `team_months.go`) | links, teams, month results, the matching ledger | join, leave, close a month, record a payment | one winner per month; a donor is matched by one employer | `Teams` |
| Retention (`retention.go`, `workers/loop.go`, `cmd/worker`) | a pass's cursor per process | purge, skip, retry | every old touch goes; the purge holds nothing up | `Retention` |
| ATM ledger (`apps/atm-ledger`) | an append-only ledger | append, read | idempotent appends | none |

Interactions. A request and a worker never share memory: they meet in the
database, mostly under one row lock per donor, and at Stripe. A request calls
Stripe between two transactions, with no lock held. Stripe answers, or does not,
and independently sends events, which the worker stores and applies one at a
time. Every fact a transaction records about a donor ends in that donor's
projection, awards and message intents, in the same transaction; the message,
push and projection workers pick those up. A few things cross from donor to
donor without the lock of the second: referral totals, promoted waitlist
places, team months, imported claims. They are where most findings are.

What is hard to test here is listed, line by line, in `PROJECT.json` under
`hazards`: interleavings around leases and reservations, rows read before the
lock that would have kept them, snapshots taken before a lock, crashes between a
call and its bookkeeping, calls that time out and still run, retries near the
end of an idempotency memory, events in any order, deadlines and limits that are
checked before they are counted.

## 2. Plan

1. `RecurringCommands`; `Checkout` with `RecurringSlot`, its abstract
   specification, and `CheckoutRestarts` (done, with theorems).
2. Money: `Gifts`, `Refunds`, `Projection`, `PaymentMethods`, `Budget` (done).
3. What donors are told: `Messages`, `Push`, `PartnerMail` (done).
4. Who is let in: `Sessions`, `LoginLinks`, `Credentials`, `EmailChanges`,
   `StaffAccess`, `PartnerPortal` (done).
5. The organization's work: `Events`, `Initiatives`, `Recognition`, `Teams`,
   `Retention` (done).
6. The suites `Money`, `Access`, `Programme` and `Progress`, which put the
   components of 2-5 before TLC together (done).
7. Theorems about the components, and about the suites from those of their
   components (section 5 says what is proved, and what is only model-checked).
8. Left to model: one-time checkouts and the anchor backfill; the scrubbing of a
   deleted account; the ranking rollup; the ATM ledger.

## 3. The modules

`PROJECT.json` maps every definition to the lines it models. `MCCheckout`,
`MCCheckoutRestarts` and `MCRecurringCommands` give TLC the model values of
those modules, and `MCMoney`, `MCAccess` and `MCProgramme` the records of
constants of the suites (section 4).
The modules named `...Proofs` hold the theorems.

The correspondence that is common to all:

- A database transaction whose effects no other step can come between, because
  it holds the row lock they all take, is one action. Where the code takes no
  such lock, or reads before it takes it, each statement is an action of its
  own, and reads what others have committed. Where what matters is that a
  transaction does not see what another has not committed (`Projection`,
  `Recognition`), its writes are kept apart until it commits.
- A transaction that returns an error is rolled back, so a refusal appears as an
  action that ends the request and changes nothing stored, or not at all.
- Every step taken without a lock (reading the processor, calling it, an SMTP or
  push call, the deferred release of a lease) is an action of its own. An actor
  can stop before each of them, which stands for an error, a timeout and a crash
  alike; a call whose answer is lost may have run.
- Events are taken from the inbox in any order, because each failure moves
  `available_at`.
- Times are small numbers that keep the order of the code's windows. Definitions
  marked `mutant` are plausible errors in the definition after them; they are no
  part of a specification.
- Audit rows, which are only inserted and never read back, are left out
  everywhere, and so are read-only views, unless a property is about them.

### RecurringCommands

`row` is `donor_subscriptions`, `ledger` the union of `donor_cancellations` and
`donor_amount_changes`, `lease` the subscription's row of
`donor_subscription_leases`, `reserved` whether the attempt still holds the
donor's reservation. `sub`, `keys`, `applied` and `wire` are the processor's:
the subscription, its idempotency memory, how often it ran each command, and
requests under way. A request goes through the steps of `refresh` and
`leasedCommand`:

    idle -> fetch -> refresh -> prepare -> submit -> await -> accepted
         -> fetchResult -> complete -> idle

`prepare` has five outcomes that commit (`CancelSettled`, `CancelLeased`,
`ChangeConfirmed`, `ChangeSettled`, `ChangeLeased`). Each is the whole closure
the code passes to `leasedCommand`: the sync of the subscription it read, the
record of the command, and the lease or its release.

Two abstractions deserve a word. `observed_at` is only compared for equality,
so a snapshot carries one bit: whether the row is still the one it was read
after. The time between two saves is taken to be at least the clock's
resolution, so two saves never share a timestamp. And `version`, which orders
the states of the subscription at the processor, is a ghost that no action
reads; it exists so that `NeverOlder` can be stated.

### Checkout

`attempt` is `donor_stripe_checkouts`, `holder` the donor's row of
`donor_recurring_reservations`. `session` and `gift` are the hosted session and
the subscription of each attempt at the processor. A request goes through

    idle -> prepare -> create -> acknowledge -> idle
            prepare -> expire -> retire -> prepare

where the second line is `staleCheckout`: the prepared transaction rolls back,
the holder's session is expired with no lock held, the reservation is released
under it, and `prepare` starts over, up to `PrepareTries` times (three in the
code). `Apps` are the requests signed in from a donor app, which may be handed
their own open session back and have no restart budget; the others come from
the website. A request reads the clock once (`time.Now()` in `begin`), and all
its comparisons use that time, which is why `job[p].at` can be behind `now`.

### RecurringSlot

The promise, with no mention of attempts' statuses, requests or events: `Take`
a free slot for a gift not yet offered, `Move` the gift of the slot's attempt
forward (unopened, payable, live, over), `Free` the slot once its gift is over.
The refinement mapping takes `holder` for the slot and derives the gift's state
from the session and the subscription at the processor (`GiftState`), so the
refinement says that what the *store* holds reserved agrees with what the
*processor* can still charge.

### Gifts

`Next` is the processor (renewals, collections, a cancellation, events sent
twice), the event worker, the donor's deletion and the reversal worker. An event
is applied in one step, because the code holds the donor lock; that a prefetched
subscription may be stale by then is the subject of `RecurringCommands` and is
left out here. The checks of an object's shape are one fact that holds. Leases
and backoffs are a step `Due` that makes a job claimable. `LedgerMatchesCharges`
compares what is stored with what the processor took, over both. Staff refunds
of the same payment are left out; they are in `Refunds`.

### Refunds

`refund` is the processor's list with each refund's state and version, `seen`
what a request or worker read, and the number of observations tells a writer
whether it is still the latest. A command has the four states of the table. The
idempotency memory ends, the retry window ends before it, and the operator can
retry an event that was parked.

### Projection

A transaction reads, then writes its own row under the donor lock and the
referrer's by a difference, without that donor's lock. Both orders of two rows
are possible, and the database breaks a deadlock by ending one transaction. A
gift is worth one unit: what matters is who is counted, not how much.

### PaymentMethods

An update goes from its record to a hosted session, to a card, to the
subscription's default. A request and the event worker may both find the card
first. The processor remembers keys, answers a create under a known key with the
same session, and a stalled call may run late.

### Budget

The shared bucket is one row with the next arrival time; the bucket of one
process holds tokens. Buckets share no state, so one of each kind is modelled.
The history of the start times handed out is what the properties are about; a
slot whose caller gave up counts, as it does in the code.

### Messages, Push, PartnerMail

The three queues have one shape: prepare, claim with a lease, send without a
lock, record the outcome. `Messages` keeps the facts a message is about (a
failed payment, its recovery, a referral, consent, a seat), so that what is sent
can be compared with what is still true at the claim. `Push` keeps which session
holds a token, in the two tables, and the advisory lock on the token. `PartnerMail` mails the recipients of an intent in turn. A worker reads the
clock once per step and ends with its budget.

### Sessions, LoginLinks, Credentials, EmailChanges

`Sessions` numbers a session's token pairs and keeps which locks a command takes:
a refresh takes the session's row only. `LoginLinks` names a link by its mail.
`Credentials` splits every way in at the donor's lock, since all of them look
the account up before. A session keeps the proof it was issued for and, of a
passkey, how often it had been registered by then (`era`): a passkey that is
deleted and registered again is another row of `donor_passkeys` and counts from
the start. `EmailChanges` keeps the two proofs and the roles an
address may have; a partner login is folded into the staff role.

### StaffAccess, PartnerPortal

A ceremony is consumed before its account is locked, in one transaction.
`BeginActivation` is split further, to show what it may wait for. In
`PartnerPortal` an approved application is an organization; an export reads at
REPEATABLE READ, so it keeps the snapshot of its first read. The branch for a
link that cannot be decrypted and the step's budget are covered by a worker that
may stop at any point; `partner_not_approved`, which no state reaches, is left
out.

### Events, Initiatives

Every decision about seats holds the event's row; the erasure of an account
reads the donor's places first, and is two steps. `Initiatives` has two members
of staff on one record, with the statements of a transaction apart where nothing
locks the record.

### Recognition, Teams

Three badges stand for the catalog, one for each way a badge depends on state:
on the donor's own facts, on a count that another donor's transaction moves, and
on a count outside the projection. `due` abstracts the time of the next refresh.
Founding by a gift, the streak ladder, the ranking rollup, the parsing of the
claims sheet and the wording are left out. `Teams` has one matching year and
amounts of a few units; a month ends only when no older month is still open,
because the worker closes within seconds and a month lasts weeks (a worker that
is down for a whole month would leave one open).

### Retention

The step of the projection worker: a purge, then the work that shares it. A
touch is its place in capture order. A worker's interval ends during a step that
began in it, since an interval is an hour and a back-off a minute at the most.

## 4. The runs

| Run | Checks | Instance |
|---|---|---|
| `recurring_lease` | `TypeOK`, `OneEffectiveCall`, `SettledIsDone` | two requests with two commands on one subscription, answers lost, leases expiring |
| `recurring_retry` | `AppliedAtMostOnce`, `ReconcilableUntilRenewal`, `AmountAuthorized` | two changes, each retried up to and past the retry window, late deliveries, a renewal |
| `recurring_sync` | `ReservedWhileLive`, `NeverOlder`, `AppliedChangeConfirmed`, `EndedReleases` | two workers and a request sync one subscription, under fairness |
| `recurring_renewal` | `AlwaysReconcilable`, violated | the renewal comes before any sync |
| `checkout_slot` | `OneMonthlyGift`, `ClosedIsOver`, `NeverReopened`, `ImplementsSlot` | two requests of donor apps, two attempts, a worker, events in any order |
| `checkout_restarts` | `RestartsBounded` | a website and an app request, three attempts against a restart budget of one |
| `checkout_live` | `PaidIsRecorded`, `OverFreesSlot` | a website request, two attempts and a worker under fairness |
| `checkout_stuck` | `UnpaidReleases`, violated | the creating call fails and nobody retries |
| `money` | `LedgerMatchesCharges`, `ReversalsExact`, `RefundsExact`, `LatestCardStands`, `TotalsExact` | `Gifts` with two sets of constants, two instances of `Refunds`, `PaymentMethods`, `Projection` |
| `access` | `WaitersHonour`, `LinksLimited`, `OneOwnerPerAddress`, `CutOffStays`, `HeldWhenUsed`, `AnAdministratorStays` | `Sessions`, `LoginLinks`, `Credentials`, `EmailChanges`, `StaffAccess`, `PartnerPortal`, most of them twice |
| `programme` | `WithinRate`, `SettledIsAwarded`, `OneWinningTeam`, `MatchExact`, `PublishedVerified`, `SeatsFair`, `DeliveredWhileTrue` | `Budget`, `Events`, `Messages`, `Push`, `Recognition`, `Teams`, `Initiatives`, `PartnerMail`, most of them twice or three times |
| `progress` | `NoGivingAfterDeletion`, `EveryRequestEnds`, `EveryMailSettles`, `EveryEventSettles`, `WorkerComesRound` | the workers of eight components under fairness |

`recurring_*` and `checkout_*` show that the lease and the retry windows keep
processor calls apart and single, that a stale read never wins, and that the
reservation in the store agrees with what the processor may still charge.
`recurring_renewal` and `checkout_stuck` refute what the documentation promises
(below).

### The suites

Each of `Money`, `Access` and `Programme` holds one or more instances of its
components. Where a theorem is about any constants, those of an instance are one
record that is a constant of the suite (`StaffRefunds`, `DashboardRefunds`,
`CardUpdates`; `BadgeRules`, `FoundingClaims`, `ClosingMonths`,
`LinkedGifts`, `SentPayments`; `SessionCase` and the ten other
`...Case` of `Access`), and the `MC` module gives the records; otherwise they are
written out in the suite's module. As modelled
these components share no variable: where the code joins two of them, each model
has the other's effect as an action of its own (`Messages` promotes and gives up
a seat, `Recognition` checks a donor in). A behaviour of the whole is therefore
one behaviour of each, interleaved, and an invariant of one component holds of
the whole exactly if it holds of that component alone. So a behaviour of a suite
is one of a single component, chosen by `part` at the start, with the others
resting in their initial states: nothing is lost, and TLC meets the sum of the
state spaces and not their product. Two instances of one component use the same
variables and differ in their constants; each asks another question of it.
`Money` extends `Gifts`, `Programme` extends `Budget` and `Access` extends
`StaffAccess`, with the constants of the cfg: their properties are checked as
the very definitions the theorems state. In `Money` the part of the reversals
keeps to one billing period (`OnePeriod`), that of the ledger has two; in
`Access` the part of the recoveries keeps to one account (`OneAccount`), that of
the administrators has two. `CopyCase` is the passkey and a copy of it that
answer two challenges: it takes three ceremonies and three sessions for two
sign-ins, and no time.

What each suite shows:

- `money`. The ledger has a gift for a period exactly when the processor took
  it, however its events arrive; a deleted account gets back exactly what was
  taken after the deletion; a refund moves money once; the last card stays; a
  referrer's totals are those of the referred.
- `access`. A check made before a wait is made again after it: each of the
  locks' second checks is needed, and with them nobody who was signed out,
  removed or recovered from gets in, no link or counter works twice, and there
  is always an administrator.
- `programme`. Seats are within the capacity and go to whoever waited longest;
  awards agree with facts and rules unless a refresh is due; a month has
  one winner; what is public was verified; what is sent was still true at its
  claim, within the budget of one step; requests to the processor keep to its
  rate.
- `progress`. Under the fairness below, everything that is queued ends.

### Disagreements

Twenty-one statements of the repository's documentation, comments or tests do
not hold of the code; `PROJECT.json` quotes the lines. Two of them are runs that
TLC refutes, `recurring_renewal` and `checkout_stuck`. The others were found the
same way, on instances of the modules with one to three donors, requests or
workers; the modules keep the property that states what the comment says, where
it is one of a state or a step (its name is given below), so that it can be
checked again when the code changes.

1. `AlwaysReconcilable`, run `recurring_renewal`: a change that ran at the processor, whose answer was lost and which no event synced before its renewal, can never be reconciled: `reconcileAmount` requires the current period to end at `EffectiveAt`.
2. `UnpaidReleases`, run `checkout_stuck`: a reservation whose session was never created is never released, since only a session can expire, and `heldCheckout` refuses every other request.
3. `OneOutstandingCall` of `RecurringCommands`: a retry that finds its command settled releases the lease while the first request's call is still outstanding.
4. `EverySeatUsed` of `Events`: an erasure that read a place as waitlisted, just before it was promoted, gives the seat up without moving the waitlist up.
5. `AttendedHeldSeat` of `Events`: a donor checked in before the start who cancels, or waits again, still counts as having attended.
6. `CopiesOfSettled` of `Messages`: while a message's last attempt is being sent, staff may already queue a copy.
7. `NotSubmitted` of `Refunds`: a request abandons a command, on a list read before another request for it created the refund.
8. In `Refunds`, a command that never reached the processor and is retried after the window stays pending for ever, and blocks every later staff refund of its gift.
9. `SharedWithheld` of `Projection`: a card recorded while the referred donor's first gift is projected is seen by neither transaction, and the shared referral stays credited.
10. `CallerStays` of `Sessions`: signing out the other sessions, by an access token that a refresh has just replaced, ends the caller's own.
11. `SignOutEnds` of `Sessions`: a sign-out whose access token a refresh has just replaced succeeds and ends nothing.
12. `ResetsEveryWay` of `EmailChanges`: a completed email change leaves the password and the linked identities as they were.
13. `AnswerSpends` of `Credentials`: a passkey creation answered after its session ended rolls back, and its ceremony stays open.
14. `SavedSpendStays` of `Initiatives`: a draft saved while its category is being published is deleted unpublished.
15. `TotalIsTheSum` of `Initiatives`: the public spend reads its categories and their total at two moments.
16. `AdministratorsExport` of `PartnerPortal`: an administrator removed while an export waits for the organization still exports: the second check reads the snapshot of the first.
17. `InboxLimited` of `PartnerPortal`: two links requested at the same moment are both queued, whatever the limit.
18. `RetriesBounded` of `PartnerMail`: a claim of a status message is not counted, so one whose worker dies is mailed again without limit.
19. `WaitlistIsFounding` of `Recognition`: a sign-up through OIDC with an address that is already claimed looks for no claim, and its donor gets no grant.
20. `WaitlistIsFounding` of `Recognition`, once more: a sign-up and an import of its address that have both looked for the other before either commits see nothing of each other, and the claim is lost. `SettledIsAwarded` and `ClaimsGranted` except these two, `WaitlistIsFoundingApart` proves that there is no third.
21. In `Retention`, a purge of analytics events that fails is tried in every step and holds up all the projection worker does.

### Bounds, and why they are enough

Every bound is a constant of its module, named in the guard it limits: a clock
(`MaxTime`, or the number of days, months or moves), a count of facts the
environment may add, and a number of faults where a fault could otherwise repeat
for ever. The windows of the code are small numbers whose order is stated as an
assumption: an `ASSUME` of the module, or a definition `...Assumption` of a
component that its suites assume of every instance (`Instances`). A clock is
long enough to pass every window once: a lease expires and is taken again, a
retry window closes, an idempotency memory ends, a link or a session lapses, a
month ends twice. Two actors of a kind are what a race for one row takes; a third
is there where an order between two needs somebody else (a promotion after a
cancellation, a transaction between two others). Retry limits are small but at
least two, so that a first failure is not the last; `checkout_restarts` has three
attempts so that a budget of one can be exceeded; the bucket of `programme` has room
for more requests than its burst. That each bound reaches its case is what the
mutants in `PROJECT.json` check: each changes one definition as a plausible bug
would, and the run named beside it then finds the property violated.

Requests, workers, tokens, keys and invitations that play the same part are
symmetric where a configuration says so; no liveness run uses symmetry. The
suites stop when the clock and the facts have run out, and their configurations
say `CHECK_DEADLOCK FALSE`; `Checkout` and `RecurringCommands` always have a step
left, and their deadlock is checked. That requests which wait for one another's
locks all end is a liveness property (`EveryRequestEnds`), and `Projection`
models the deadlock its rows can have.

### Fairness

`WF` of the clock; `WF` of a request or worker that has begun, since a handler
returns within its timeout and `workers.Run` takes the next step whatever the
last one answered; `WF` of the processor letting a due session lapse or sending
an event. `SF` only where a step can be put back by a failure and is taken again
with a backoff (applying an event in `RecurringCommands`, `Checkout` and
`Refunds`) or where others take a lock in between and the database queues those
who wait for it (`Refunds`, `StaffAccess`). The code stops claiming an event
after ten failures until an operator requeues it; `Gifts` and `Refunds` model the
limit, and count a parked event as settled. In the other modules `SF` says that a
step that can succeed again and again does. Nothing is assumed of donors or
staff: nobody has to retry, pay, redeem or decide.

## 5. The theorems

All are checked by TLAPS for every value of the constants that satisfies the
named assumptions.

`RecurringCommandsProofs`

- `TypeCorrect`: `Spec => []TypeOK`.
- `SyncsNeverOlder`: `Spec => NeverOlder`. The invariant is `SnapshotsFresh`: a
  snapshot that still counts as current lies between the stored row and the
  processor's state. Each step either *saves* what it read, which outdates every
  other snapshot, or *keeps* the row (`SavesOrKeeps`); both preserve it.
- `ReservationLasts`: `Spec => []ReservedWhileLive`, by the same split. The
  invariant adds `EndsSeen`: an end that a current snapshot shows has happened.
- `RunsOnce`: `Spec => []AppliedAtMostOnce`. `AppliedAtMostOnce` alone is not
  inductive, since a second run is excluded only by times. `OnceInv` follows
  them: a command is recorded before its key is known (`KeysInv`), a leased
  request ends before `created + RetryWindow + SubmitWindow` (`LeasedInv`), and
  what is on the wire runs before `LateBound` more (`WireInv`). Then
  `RetryWindow + SubmitWindow + LateBound <= KeyMemory` makes the key known to
  every later request.

The other four theorems of the module need a larger invariant, `StoreInv`, which adds three parts to `OnceInv`. None of the
four properties is inductive, and each needs the others: a change is confirmed
from what a sync read, and what it read means something only because changes are
made one after the other.

- `LedgerInv`: amount changes are numbered in the order they were recorded in
  (`Ordered`), each starts from the amount the one before it set (`Chained`), and
  only the last may be unconfirmed (`LastOpen`).
- `ChargeInv`: the processor charges the amount of the last change if that
  change has run and the amount it replaces if it has not (`Charged`); a settled
  command is in effect (`SettledIsDone`); what a current snapshot shows of the
  last change, of a cancellation or of a period is still so (`SnapsTrue`).
- `CallInv`: a leased request and a request on the wire ask for what was recorded
  (`FormsSame`); every stored time is the end of a billing period that is or was
  current (`TimesPassed`); a change runs before the renewal it was prepared for
  (`Timely`); a request whose change is not in effect holds the lease beyond its
  own deadline (`Held`).

`StepKinds` divides the steps into syncs, calls that run at the processor and
moves; `LedgerStep`, `SnapsStep`, `FormsStep`, `TimelyStep` and `HeldStep` then
preserve one part each (`StoreStep`).

- `CallsSerialized`: `Spec => []OneEffectiveCall`, from `Held`.
- `ReportsTrue`: `Spec => []SettledIsDone`, a conjunct.
- `AmountsTrue`: `Spec => []AmountAuthorized`, from `Charged`, `Chained` and
  `LastOpen`.
- `SyncsAccepted`: `Spec => []ReconcilableUntilRenewal`, from `Charged` and
  `Timely`.

`CheckoutProofs`

- `TypeCorrect`, with `HasTries`: `prepare` is only entered with a try left.
- `InvHolds`: the invariant `Inv`. Its heart is `UnlessOverHolds`: a recorded
  attempt that can still charge, now or later, holds the slot. It needs to know
  what an actor holds in its hands between two transactions: that a session
  about to be retired is expired (`RequestKnows`), that an event reports
  something that did happen (`EventsHappened`, `WorkerKnows`), and that nothing
  exists at the processor for an unrecorded attempt (`NothingUnrecorded`).
- `OneGift`, `ClosedTruthful`: from `Inv`. `NeverBack`: the action property,
  step by step from `Inv`.
- `Refinement`: `Spec => ImplementsSlot`. Every step maps to a `Take`, a `Move`,
  a `Free` or a stutter of `RecurringSlot` (`SlotStep`).

- `RestartsWithinBudget`: `RestartSpec => []RestartsBounded`. `MayRestart` counts
  the donor's attempts *begun* in the window, the property counts the sessions
  *closed* in it. `RestartInv` ties the two together, on top of `Inv`: what was
  closed stays closed (`Past`); of two closed attempts one began after the other
  was closed (`InTurn`, from `Follows`: an attempt that is not over began after
  all restarts, but for the time its request took); and what `MayRestart` found
  is still so when the session is closed, because no attempt begins while the
  session holds the slot (`Allowed`). Of the sessions closed in a window less
  `RequestTime`, all but the first then began within the window of the last
  request, which counted them and its own.

`MoneyProofs`

The theorems about `Gifts` have `GiftsAssumption` as their hypothesis. The invariant is
`GiftsInv`, with `NothingBefore` (no event and no reversal before the checkout was
paid).

- `Reported`: an event that was sent reports what has happened to its invoice,
  whenever it is applied. `LedgerInv` is inductive only with it.
- `Billed`: changes are confirmed in the order they were made, the last may not
  have run or not be confirmed, and a period is billed the last change in force
  in it that ran. It is what a delayed event finds when it asks for the amount
  of its period after later changes were confirmed (`AcceptedAmount`).
- `OnlyLate`: a refund is queued only for a gift paid after the deletion. With
  `LateGiftsReversed` it says that the queue has exactly those. A deletion keeps
  it since it reads the clock under the donor's lock: nothing was paid later
  (`DeleteReversals`).
- `WorkersKnow`: what a worker holds was queued, and what it was told was made
  is so at the processor, however long ago that was.

- `LedgerTrue`: `Spec => []LedgerMatchesCharges`, from `GiftsMatch` (the gifts),
  `HistoryKept` (the history) and `ChargesFound` (no event refused for its amount).
- `ReversalsTrue`: `Spec => []ReversalsExact`. `GiftsTypeCorrect`: `Spec => []TypeOK`.

The theorems about the suite, below, are at the end of the module.

`AccessProofs`

First staff accounts. The theorems have `StaffAccessAssumption` as their
hypothesis. The invariant is `StaffInv`. Its first part says what a request that
waits has already looked up and still names (`RequestsKnow`, `OfInvitation`), and
that no two requests answer the same ceremony (`OneAnswer`). Its second part says
what is current:

- `InvitesCurrent`: an open invitation was made after its account's last
  recovery. Passkeys and sessions come from invitations, so nothing said of them
  alone is inductive.
- `SessionsCurrent`, `KeysCurrent`: so was a session that lives, and a passkey,
  which has used up its invitation.

- `CutOff`: `Spec => []CutOffStays`. `StaffTypeCorrect`: `Spec => []TypeOK`.
- `AdministratorStays`: `Spec => AnAdministratorStays`, an action property: the
  administrator that `ChangeAccess` counted under the locks keeps its role and
  its passkey in the step that takes another's.

Then the other components of the suite, each for any record `case` of constants
that satisfies its assumption, with its own invariant:

- `SignedInv` (`Sessions`): a command that holds the donor's row is the only one
  that does, and its session lives or was ended by its own client or by a reused
  token (`SignedHonoured`). Every other end of a session takes that row, and what
  takes the session's row only (a refresh, a sign-out) is one of those two.
- `AddressInv` (`EmailChanges`): every proof that was mailed, is being mailed or
  is being presented is of a change as it was made (`AddressGenuine`,
  `AddressSendable`, `AddressPresented`), and the old address of a change whose new
  one is being asked for was sent its proof. `ProvedTwice` alone says nothing of a
  proof in an inbox, which comes back after any number of steps.
- `LinksInv` (`LoginLinks`): a link that is open was minted after the donor last
  signed in by one (`LinkOpenIsFresh`). `NotFlooded` is inductive as it stands: a
  request counts and inserts under the donor's row, and one whose time lies behind
  a mail inserted meanwhile is refused. So a mail is the latest of all when it is
  queued, and every hour that holds it lies within the hour that was counted.
- `PhoneInv` (`Credentials`, by a phone): a code is numbered by how many were sent,
  and one that signed in is not the one in force (`PhoneUsedUp`); guesses are
  counted where the code is kept.
- `WayInv` (`Credentials`, by a passkey, a password or an identity): what a request
  that waits has found (`WayWaits`); two requests never answer one ceremony
  (`WayApart`); what a passkey signed in spent its ceremony, and the passkey's
  counter has come so far, if it is registered as it was (`WayCounted`). The last
  part makes `CountsOnce` inductive; its lemmas need only that spent ceremonies
  stay spent and that a counter goes back only with its registration
  (`WaySpentStay`, `WayForward`). An identity that was found linked stays its
  donor's until the donor is erased (`WayLinked`), and the sign-in asks for the
  account again.
- `PortalInv` (`PartnerPortal`): a link is one user's, one that was cut off, or one
  that opened a session (`PortalLinksKnown`), so a removed user who is invited
  again gets in by nothing they had; what was mailed and what is being sent was
  claimed (`PortalSendsCounted`); an address is enabled in one organization.

A behaviour of the whole is one of a component. `AccessInv` has each invariant
under the `part` it is of, from `AccessStarts` and `AccessKeeps`; a step of one
component leaves the others' variables alone (`SignedUndisturbed` and the like).
The hypothesis is the suite's assumption `Instances`.

- `NobodySlipsThrough`: `AccessSpec => []WaitersHonour`. `WaysInAreLimited`:
  `AccessSpec => []LinksLimited`. `AddressesHaveOneOwner`: `AccessSpec =>
  []OneOwnerPerAddress`.
- `HeldAtUse`: `AccessSpec => HeldWhenUsed`, an action property: `WayPresents`
  shows of every step that issues a session what is held then, and
  `PortalAdministratorStays` that whoever removes or demotes another administers
  after it.

`RefundsProofs`

The theorems have `RefundsAssumption` as their hypothesis; the invariant is
`RefundsInv`. What is stored of a refund is compared with what the processor says
of it now, while a request or a worker records what it read some time ago. So
the invariant follows the reading:

- `Was`: what is stored, and what an actor holds, is a state that the refund is
  in or was in; its version tells how far it had come.
- `RequestOk`, `WorkerOk`: what an actor read is not older than what is stored if
  nothing was recorded since it read or if it holds the lock. It is why
  `submitRefund` and `applyEvent` never put an older state back.
- `EventOk`: the last event of a refund, once applied, left nothing out. A worker
  that holds it read the refund's present state, since any change of that state
  would have sent a later event.
- `MadeAfresh`, a lemma: a request about to create a refund listed the payment's
  refunds before, and did not find it. Either the refund still does not exist, or
  it was created after that list, so recently that the processor knows the key
  (`RequestTime <= KeyLife`) and creates no second one.
- `OneInProgress`: staging checks it under the lock, and a command stays in
  progress as long as its stored refund is pending (`StillPending`).

- `RefundsTrue`: `Spec => []RefundsExact`, the conjunction of `RefundedOnce`,
  `OneAtATime`, `WithinGift` and `CaughtUp` that `money` checks of its two
  instances. `RefundsTypeCorrect`: `Spec => []TypeOK`.

`PaymentMethodsProofs`

The theorems have `PaymentMethodsAssumption` as their hypothesis; the invariant
is `CardInv`. `LatestCardStands` is not inductive: an update is recorded as
applied by an actor that read the processor some time before, and it holds
afterwards only while nobody sets an older card.

- `Means`: what an outcome says of the processor, such as that an applied
  update's call was made. It stays true (`MeansStays`), so what an actor read
  (`ActorOk`) and what is recorded (`RowOk`) do.
- `InProgressIsLast`: the update in progress is one, and no recorded one is
  later. A new one is staged only when every earlier one is over.
- `CardOk`: the card is one that was set under its key, and that of the update in
  progress if it was set for it. A call under a known key sets nothing, so an
  older update can take the card only with its first call. That call comes before
  the update is over, and the update is then the latest.
- `HolderOk`: whoever holds the donor's row found an update in progress, which
  nobody ends meanwhile.

- `LatestCardTrue`: `Spec => []LatestCardStands`. `OneUpdate`: `Spec =>
  []OneInProgress`. `CardsTypeCorrect`: `Spec => []TypeOK`.

`RecognitionProofs`

The theorems have `RecognitionAssumption` as their hypothesis; the invariant is
`RecognitionInv`. Transactions write on their own until they commit, and read
what others have committed, so what holds of the tables depends on what is under
way:

- `Apart`: two transactions hold no row of the projection, no donor's lock and no
  new badge of a donor in common. `TxOk` says what one holds, by its kind and step.
- `AwardOk`: a transaction that commits facts sees to every badge they may earn
  (`Owes`). What it will commit is what it counted (`Will`), and from the moment
  it has read the rules, whatever those in force call for is yet to be earned, is
  in its hands or is held. A change of the rules keeps this since it waits for the
  rows it marks as due; a check-in takes no row, but then the mark is committed
  with the rules and stays while the check-in holds the donor's lock.
- `ClaimOk`: the import, or the donor's own transaction, has found the other, or
  `unseen` notes that it could not.
- `PushOk`: a notification is of a badge recorded by earning it. A grant makes
  itself the source of a badge that was earned (`by`), so this is said of the
  history field `first`, which a grant keeps.

- `NoAwardLost`: `Spec => []SettledIsAwarded`, also while others work on the
  donor. `RevocationsStay`: `Spec => RevokedStays`, an action property.
  `RecognitionTypeCorrect`: `Spec => []TypeOK`.
- `ClaimsMeetOrAreMissed`: `Spec => []ClaimsGranted`. The property excepts the
  donors whose claim the code loses (disagreements 19 and 20), and only those: a
  sign-up without the key that finds its address unclaimed, or one that an import
  did see, is no exception.
- `WaitlistIsFoundingApart`: `Spec /\ []~Overlapping => []WaitlistIsFounding` if
  every sign-up passes the key. Nothing is excepted. `Overlapping` says of a state
  that an import and a transaction with its address have both looked and neither
  has committed; behaviours in which the two are open together but one looks
  after the other committed are covered. The invariant is `Met`.

`ProgrammeProofs`

About `Budget`:

- `TypeCorrect`, `SharedPaced`, `LocalPaced`: `[]TypeOK`, `[]SharedWithinRate`
  and `[]LocalWithinRate`. That a sequence of start times is paced does not say
  when the next one may be; the invariant adds what a bucket stores to it:
  `ArrivalCounts` (the row is an interval further for every request after the
  i-th) and `TokensCount` (the tokens and the requests after the i-th use up no
  more than the burst and the time since). `PacedAppend` then gives the pace of
  one more request, and `SlotOf` the slot of a reservation.

About `Teams`, for any records `ClosingMonths`, `LinkedGifts` and `SentPayments`
that satisfy its assumption:

- `WinnersInv`: what a worker's open transaction has done (`OpenAwards`,
  `OpenPartner`, `OpenMonth`, `OpenMembers`) agrees with the tables or is about to:
  an award names the winner it recorded, every counted member who stayed was
  awarded before the next partner is closed, and a month is closed in one
  transaction only. An award is for a month that was open until the transaction
  took it, so no earlier award is for it.
- `MatchInv`: a donor is counted, in the tables or by an open transaction, by the
  employer of their link, which never changes to another; a link is taken away with
  the account only.
- `PaymentsInv`: a request that is about to be recorded is not on the ledger, and no
  two entries under way are for one request.
- Sums over the members of a team (`MapThenSumSet`). No induction theorem of the
  library can be instantiated, but `FS_StrictSubsetOrderingWellFounded` and `WFMin`
  take sets: among the subsets for which a claim about sums fails there is a smallest
  (`Smallest`), and taking one element from it gives a smaller one. So a sum is a
  unique function of the subsets (`SumWithin`, `SumExists`), it adds up element by
  element in any order (`SumStep`, `SumAdd`), is a natural number (`SumType`), and is
  at least the number of its terms that are not zero (`SumCounts`).
- `WinnerHeads`, from `SumCounts`: a team that heads the leaderboard with one active
  giver in twelve members gives a unit per member a year, so rounding down leaves
  something. A larger team may head it and win nothing, so
  `WinnerHeadsLeaderboard` is no equality.

- `WinnersOnRecord`: `ProgrammeSpec => []OneWinningTeam`. `MatchStaysExact`:
  `ProgrammeSpec => []MatchExact`.

The suites, in `MoneyProofs` and `ProgrammeProofs`

What is proved of a component is carried to the suite that composes it. The
hypothesis is the suite's own assumption `Instances`, that the constants of each
instance satisfy its component's assumption; the constants are any records.

- The component's proofs are instantiated with those constants (`StaffProved`,
  `ReportsProved`, `CardProved`; `BadgeProved`, `ClaimsProved`). Three lemmas per
  instance (`...Assumed`, `...StepsProved`, `...SaysProved`) say that its
  definitions are those of the suite's own instance.
- A behaviour of a suite in which `part` is that component's is one of the
  component (`StaffBehaves`, `ReportsBehave`, `BadgeBehaves`, `ClaimsBehave`;
  `CardBehaves` holds of every part, as the card rests in the others).

- `RefundsStayExact`: `MoneySpec => []RefundsExact`. `CardStands`: `MoneySpec =>
  []LatestCardStands`. `AwardsKept`: `ProgrammeSpec => []SettledIsAwarded`.

Assumptions: the sets of actors are disjoint; the sets of attempts, changes,
mails and workers are finite, as the tables and processes are; the windows are
natural numbers in the order above; `"none"`, which stands for NULL, is no
command, address or application; and donors start with addresses of their own
(`First`), which `donors.email` being unique says. About the
processor the models assume, as the code does, that a key is remembered for
`KeyMemory`, that a session has one idempotency key, that an expired session
cannot be paid, and that a late request runs within `LateBound`.

Only model-checked:

- the liveness properties, as fairness is outside the prover's reach;
- `TotalsExact` of `Money`: the totals are sums over the gifts of a donor and of
  the referred, moved by differences. The sums are within reach by the smallest
  counterexample, as for `Teams`; the invariant over uncommitted rows, waits and
  deadlocks of `Projection` is not written.
- `PublishedVerified` of `Programme`: its first part (that a published figure is
  verified, by the table's constraint and the lock) is within reach; its second
  (`EachSeenOnce` of `Initiatives`) is about a subsequence, and what `SelectSeq`
  returns takes induction over the sequence;
- `SeatsFair` of `Programme`: `NoIdleSeat`, `CancelledIsEmpty` and the action
  properties of the seats (`SeatsWithinCapacity`, `FirstComeFirstServed`,
  `PromotionIsTold`) are of `Events` alone and within reach; so are `GatesAgree` and
  `SilentOnceCancelled`. `AlertsReachAll`, of the cursor that the
  fan-out moves over the donors, needs their order besides;
- `DeliveredWhileTrue` of `Programme`: each conjunct is an action property of one
  component (`Push`, `Messages`, `PartnerMail`) that compares what a worker holds
  with what it sends, and needs an invariant of what a worker holds. All are within
  reach; `ReachedAll` needs the finite set of an organization's people besides.

Also within reach, and only model-checked, are the types of the components without
a theorem of their own (`TypeOK` of `Events`, `Messages`, `Push`, `Projection` and
the others).

## 6. What is not modelled

`PROJECT.json` lists every component with its status. Not modelled at all:

- the HTTP layer, the web application, reports, exports and dashboards: they
  decode, render and read, and keep no state of their own;
- migrations, roles, rekeying and the seeds: run by an operator, on a stopped
  service or in batches that can be repeated;
- the reconciliation report: a difference of two read-only exports (the pace of
  its reads is `Budget`'s local bucket);
- the ATM ledger: a service of its own that shares no state with the others;
- cryptography: tokens, proofs and keys are names that nobody guesses.

Left out of the modelled parts, beyond what section 3 says:

- one-time checkouts, which take no reservation, and the anchor backfill;
- the shape of processor objects (currency, interval, number of items): a
  malformed object is refused and changes nothing;
- a notification whose stored context cannot be read (`claim` of `Push`): the code
  counts a failed attempt, tries it again later and sends nothing;
- guest creation, referral capture and the claim in `prepareAttempt`: they are
  in the transaction but touch no state the properties of `Checkout` relate (the
  claim is in `Recognition`);
- the personal columns a deletion scrubs, row by row;
- the partner's suppressed totals, the workforce size and the match settings,
  which no other operation depends on;
- a process suspended by its host for longer than its lease, in
  `RecurringCommands`: the model ends a leased request inside its lease, as the
  code's timeouts intend.
