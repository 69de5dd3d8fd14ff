------------------------- MODULE RecurringCommands -------------------------
(***************************************************************************)
(* The recurring-gift commands of the donor API on one Stripe              *)
(* subscription: cancellations (internal/store/recurring.go) and amount    *)
(* changes (recurring_amount.go), the leased three-step command they       *)
(* share, and the webhook worker that syncs the same stored subscription   *)
(* (subscriptions.go, worker.go).                                          *)
(*                                                                         *)
(* A transaction under the donor lock is one action, and a transaction     *)
(* that returns an error is rolled back, so it changes no stored state.    *)
(* Everything the code does without that lock (reading observed_at,        *)
(* reading the processor, calling it, releasing the lease) is an action of *)
(* its own, and a process can crash between any two actions.               *)
(*                                                                         *)
(* observed_at is only ever compared for equality, with a fresh timestamp  *)
(* at every save, so a snapshot carries one bit: whether the stored        *)
(* observed_at still is the one it was read after. Every save clears the   *)
(* bit of the snapshots other processes hold, whose contents are then      *)
(* never read again. An event names the subscription and nothing else that *)
(* its handler uses, so the inbox is a count of events.                    *)
(***************************************************************************)
EXTENDS Integers, FiniteSets

CONSTANTS
  Requests,       \* API requests that run a command (donor or staff)
  Workers,        \* event workers
  Cancels,        \* request ids of cancellations
  Changes,        \* request ids of amount changes
  Amounts,        \* valid monthly amounts
  DraftAmount,    \* what the checkout first charged
  LeaseTerm,      \* leaseTerm
  SubmitWindow,   \* how long a leased request may run (submitWindow, request timeout)
  LateBound,      \* how long after its call the processor may still run a request
  RenewalMargin,  \* the minute amountChangeable keeps before the renewal
  RetryWindow,    \* commandRetryWindow
  KeyMemory,      \* how long the processor remembers an idempotency key
  Period,         \* the billing period
  MaxTime,        \* bound: the clock stops here
  MaxVersion      \* bound: the processor changes on its own below this version

Commands  == Cancels \cup Changes
Processes == Requests \cup Workers

ASSUME CommandsDisjoint == Cancels \cap Changes = {} /\ "none" \notin Commands
ASSUME ProcessesDisjoint == Requests \cap Workers = {}
ASSUME ChangesFinite == IsFiniteSet(Changes)
ASSUME AmountsAssumption == Amounts \subseteq Nat \ {0} /\ DraftAmount \in Amounts
ASSUME WindowsAssumption ==
  /\ {LeaseTerm, SubmitWindow, LateBound, RenewalMargin, RetryWindow,
      KeyMemory, Period, MaxTime, MaxVersion} \subseteq Nat
  /\ Period > 0 /\ RetryWindow > 0
  \* A request ends, and its lease is released, well inside the lease.
  /\ SubmitWindow < LeaseTerm
  \* A request runs before the renewal it was prepared for.
  /\ SubmitWindow + LateBound =< RenewalMargin
  \* Retries stay inside the processor's idempotency memory.
  /\ RetryWindow + SubmitWindow + LateBound =< KeyMemory

VARIABLES
  now,       \* the clock, from 1
  sub,       \* the subscription at the processor
  keys,      \* keys[c]: when the processor first ran c's idempotency key, or Never
  applied,   \* applied[c]: how often the processor ran command c
  wire,      \* requests the processor may still run
  inbox,     \* how many subscription events wait for a worker
  row,       \* donor_subscriptions: the subscription as last synced
  reserved,  \* whether the attempt holds the donor's recurring reservation
  ledger,    \* donor_cancellations and donor_amount_changes
  lease,     \* donor_subscription_leases
  pc,        \* where each process is
  cmd,       \* the command a request runs
  form,      \* the request's parameters
  snap,      \* the subscription snapshot a process holds
  deadline   \* when a leased request must have ended

stored    == <<row, reserved, ledger, lease>>
processor == <<sub, keys, applied, wire, inbox>>
local     == <<pc, cmd, form, snap, deadline>>
vars      == <<now, processor, stored, local>>

Never == 0
Time  == 1 .. MaxTime

(***************************************************************************)
(* Data.                                                                   *)
(***************************************************************************)

\* past_due stands for unpaid too and canceled for incomplete_expired, which
\* the code treats alike; an incomplete subscription has not been paid yet.
Statuses == {"active", "past_due", "canceled"}

\* What RetrieveSubscription returns. version is a ghost: it orders the states
\* the subscription went through and no code reads it. external stands for a
\* schedule, a pending update or a paused collection.
Remote == [version: Nat, status: Statuses, period_end: Nat, cancel_at: Nat,
           amount: Nat, external: BOOLEAN]

NoRemote == [version |-> 0, status |-> "active", period_end |-> Never,
             cancel_at |-> Never, amount |-> 0, external |-> FALSE]

Form   == [amount: Nat, previous: Nat, at: Nat]
NoForm == [amount |-> 0, previous |-> 0, at |-> Never]

Entry   == [form: Form, created: Nat, settled: BOOLEAN, nth: Nat]
NoEntry == [form |-> NoForm, created |-> Never, settled |-> FALSE, nth |-> 0]

Recorded(c) == ledger[c].created # Never

NoLease == [command |-> "none", expires |-> Never]

Snapshot == [current: BOOLEAN, remote: Remote]
NoSnap   == [current |-> FALSE, remote |-> NoRemote]

\* Mutant: a failed payment counts as the end.
terminalSubscription_PastDue(status) == status # "active"

terminalSubscription(status) == status = "canceled"

renews(status) == status \in {"active", "past_due"}

\* StopsAt is set for a scheduled or a finished cancellation.
StopsAt(r) == r.cancel_at # Never \/ terminalSubscription(r.status)

(***************************************************************************)
(* Amount changes.                                                         *)
(***************************************************************************)

Inserted == {c \in Changes : Recorded(c)}

\* The change recorded last; created_at orders them under the donor lock.
LatestAmountChange ==
  CHOOSE c \in Inserted : \A d \in Inserted : ledger[d].nth =< ledger[c].nth

Confirmed(entries) == {c \in Changes : entries[c].settled}

\* Mutant: confirmed changes are ignored.
nextAmount_Draft(entries) == DraftAmount

\* What the next renewal charges as far as the store's entries say.
nextAmount(entries) ==
  IF Confirmed(entries) = {} THEN DraftAmount
  ELSE entries[CHOOSE c \in Confirmed(entries) :
                 \A d \in Confirmed(entries) : entries[d].nth =< entries[c].nth].form.amount

\* Mutant: no margin before the renewal.
amountChangeable_NoMargin(r, effective) ==
  r.status = "active" /\ ~StopsAt(r) /\ r.period_end = effective /\ now < effective

amountChangeable(r, effective) ==
  /\ r.status = "active"
  /\ ~StopsAt(r)
  /\ r.period_end = effective
  /\ now < effective - RenewalMargin

\* Whether reconcileAmount accepts the remote amount rather than ErrFacts.
AmountReconciles(r) ==
  IF Inserted = {} THEN r.amount = DraftAmount
  ELSE LET e == ledger[LatestAmountChange]
       IN  \/ r.amount = e.form.amount /\ (e.settled \/ r.period_end = e.form.at)
           \/ r.amount = e.form.previous /\ ~e.settled

\* Mutants: the amount is not compared, or the change is never confirmed.
Confirms_AnyAmount(r) == {c \in Inserted : c = LatestAmountChange}
Confirms_Never(r) == {}

\* The change reconcileAmount confirms, if any.
Confirms(r) ==
  {c \in Inserted : c = LatestAmountChange /\ r.amount = ledger[c].form.amount}

reconcileAmount(r) ==
  [c \in Commands |-> IF c \in Confirms(r)
                      THEN [ledger[c] EXCEPT !.settled = TRUE]
                      ELSE ledger[c]]

\* Whether reconcileRemoteSubscription accepts r: a cancellation must be at the
\* period end and the amount one the store authorized.
Reconcilable(r) ==
  /\ r.cancel_at \in {Never, r.period_end}
  /\ AmountReconciles(r)

(***************************************************************************)
(* Reading the subscription under the donor lock.                          *)
(***************************************************************************)

\* A snapshot is used only if nothing was reconciled after it was read.
currentSubscription(p) == IF snap[p].current THEN snap[p].remote ELSE sub

\* read: what a command needs of the subscription it reads; an amount change
\* also needs that nothing else is scheduled or paused.
Suits(c, r) == Reconcilable(r) /\ (c \in Changes => ~r.external)

\* Mutant: a save keeps the stored observed_at.
Outdate_NotStamped(p) == snap

\* SaveSubscription stamps the row, which outdates every other snapshot.
Outdate(p) == [q \in Processes |-> IF q = p THEN snap[q]
                                   ELSE NoSnap]

\* Mutant: an ended subscription keeps its reservation.
SaveSubscription_KeepsReservation(p, r, kept) ==
  row' = r /\ reserved' = reserved /\ snap' = [Outdate(p) EXCEPT ![p] = kept]

SaveSubscription(p, r, kept) ==
  /\ row' = r
  /\ reserved' = (reserved /\ ~terminalSubscription(r.status))
  /\ snap' = [Outdate(p) EXCEPT ![p] = kept]

(***************************************************************************)
(* The lease.                                                              *)
(***************************************************************************)

LeaseFree == lease.expires =< now

\* Mutants: the term is not added, or has the wrong sign.
AcquireLease_NoTerm(c) == [command |-> c, expires |-> now]
AcquireLease_Past(c) == [command |-> c, expires |-> now - LeaseTerm]

AcquireLease(c) == [command |-> c, expires |-> now + LeaseTerm]

releaseLease(c) == IF lease.command = c THEN NoLease ELSE lease

(***************************************************************************)
(* Starting a command: the request, then refresh.                          *)
(***************************************************************************)

\* A new request fills its form from the view of the stored subscription; a
\* retry sends the recorded one again. (A request that reuses a recorded id
\* with other parameters refreshes, and is then refused: see Matches.)
Forms(c) ==
  IF Recorded(c) THEN {ledger[c].form}
  ELSE IF c \in Cancels
       THEN {[amount |-> 0, previous |-> 0, at |-> row.period_end]}
       ELSE {[amount |-> a, previous |-> b, at |-> row.period_end] :
               a \in Amounts, b \in Amounts \cap {nextAmount(ledger)}}

\* fetchSubscription reads observed_at first ...
BeginCommand(p, c, f) ==
  /\ pc[p] = "idle"
  /\ pc' = [pc EXCEPT ![p] = "fetch"]
  /\ cmd' = [cmd EXCEPT ![p] = c]
  /\ form' = [form EXCEPT ![p] = f]
  /\ snap' = [snap EXCEPT ![p] = [current |-> TRUE, remote |-> NoRemote]]
  /\ UNCHANGED <<now, processor, stored, deadline>>

\* ... and then the processor, holding no lock.
FetchSubscription(p, from, to) ==
  /\ pc[p] = from
  /\ pc' = [pc EXCEPT ![p] = to]
  /\ snap' = [snap EXCEPT ![p].remote = IF snap[p].current THEN sub ELSE NoRemote]
  /\ UNCHANGED <<now, processor, stored, cmd, form, deadline>>

\* refresh commits the sync on its own before the command is validated.
Refresh(p) ==
  LET r == currentSubscription(p) IN
  /\ pc[p] = "refresh"
  /\ Reconcilable(r)
  /\ SaveSubscription(p, r, [current |-> TRUE, remote |-> r])
  /\ ledger' = reconcileAmount(r)
  /\ pc' = [pc EXCEPT ![p] = "prepare"]
  /\ UNCHANGED <<now, processor, lease, cmd, form, deadline>>

(***************************************************************************)
(* prepare, mutate and complete of leasedCommand.                          *)
(***************************************************************************)

End(p) ==
  /\ pc' = [pc EXCEPT ![p] = "idle"]
  /\ cmd' = [cmd EXCEPT ![p] = "none"]
  /\ form' = [form EXCEPT ![p] = NoForm]
  /\ deadline' = [deadline EXCEPT ![p] = Never]

\* The lease, and the start of the time the request may take.
LeaseSubscription(p) ==
  /\ LeaseFree
  /\ lease' = AcquireLease(cmd[p])
  /\ pc' = [pc EXCEPT ![p] = "submit"]
  /\ deadline' = [deadline EXCEPT ![p] = now + SubmitWindow]
  /\ UNCHANGED <<cmd, form>>

\* The ledger once prepare has recorded p's command, if it was not there yet.
Record(p, base) ==
  IF Recorded(cmd[p]) THEN base
  ELSE [base EXCEPT ![cmd[p]] = [form |-> form[p], created |-> now, settled |-> FALSE,
                                 nth |-> Cardinality(Inserted) + 1]]

\* A recorded command is only resumed with the parameters it was recorded with.
Matches(p) == Recorded(cmd[p]) => ledger[cmd[p]].form = form[p]

\* Mutant: an old command is retried whenever it is asked for.
WithinRetryWindow_Always(c) == TRUE

WithinRetryWindow(c) == Recorded(c) => now - ledger[c].created < RetryWindow

\* completeCancellation marks the recorded cancellation done.
Settle(entries, c) == [entries EXCEPT ![c].settled = TRUE]

\* The cancellation is done already, by an earlier request or by anyone else.
CancelSettled(p) ==
  LET r == currentSubscription(p)
      c == cmd[p]
  IN  /\ pc[p] = "prepare" /\ c \in Cancels
      /\ Matches(p) /\ Suits(c, r)
      /\ ledger[c].settled \/ StopsAt(r)
      /\ SaveSubscription(p, r, NoSnap)
      /\ ledger' = Settle(Record(p, reconcileAmount(r)), c)
      /\ lease' = releaseLease(c)
      /\ End(p)
      /\ UNCHANGED <<now, processor>>

CancelLeased(p) ==
  LET r == currentSubscription(p)
      c == cmd[p]
  IN  /\ pc[p] = "prepare" /\ c \in Cancels
      /\ Matches(p) /\ Suits(c, r)
      /\ ~ledger[c].settled /\ ~StopsAt(r)
      /\ r.period_end = form[p].at /\ now < form[p].at
      /\ WithinRetryWindow(c)
      /\ renews(r.status)
      /\ SaveSubscription(p, r, NoSnap)
      /\ ledger' = Record(p, reconcileAmount(r))
      /\ LeaseSubscription(p)
      /\ UNCHANGED <<now, processor>>

\* A change already confirmed answers without reading the subscription.
ChangeConfirmed(p) ==
  LET c == cmd[p] IN
  /\ pc[p] = "prepare" /\ c \in Changes
  /\ Recorded(c) /\ Matches(p) /\ ledger[c].settled
  /\ lease' = releaseLease(c)
  /\ snap' = [snap EXCEPT ![p] = NoSnap]
  /\ End(p)
  /\ UNCHANGED <<now, processor, row, reserved, ledger>>

\* insertAmountChange: no earlier change is unconfirmed, and the previous
\* amount is what the next renewal would charge.
InsertsAmountChange(p, r) ==
  /\ Inserted # {} => reconcileAmount(r)[LatestAmountChange].settled
  /\ amountChangeable(r, form[p].at)
  /\ form[p].previous = nextAmount(reconcileAmount(r))
  /\ form[p].amount # form[p].previous

\* read(forAmount) confirmed the change just now.
ChangeSettled(p) ==
  LET r == currentSubscription(p)
      c == cmd[p]
  IN  /\ pc[p] = "prepare" /\ c \in Changes
      /\ Recorded(c) /\ Matches(p) /\ ~ledger[c].settled
      /\ Suits(c, r)
      /\ reconcileAmount(r)[c].settled
      /\ SaveSubscription(p, r, NoSnap)
      /\ ledger' = reconcileAmount(r)
      /\ lease' = releaseLease(c)
      /\ End(p)
      /\ UNCHANGED <<now, processor>>

ChangeLeased(p) ==
  LET r == currentSubscription(p)
      c == cmd[p]
  IN  /\ pc[p] = "prepare" /\ c \in Changes
      /\ Matches(p) /\ ~ledger[c].settled
      /\ Suits(c, r)
      /\ ~Recorded(c) => InsertsAmountChange(p, r)
      /\ ~reconcileAmount(r)[c].settled
      /\ amountChangeable(r, form[p].at)
      /\ WithinRetryWindow(c)
      /\ SaveSubscription(p, r, NoSnap)
      /\ ledger' = Record(p, reconcileAmount(r))
      /\ LeaseSubscription(p)
      /\ UNCHANGED <<now, processor>>

\* mutate sends the processor request under the command's idempotency key.
Mutate(p) ==
  /\ pc[p] = "submit"
  /\ wire' = wire \cup {[by |-> p, command |-> cmd[p], form |-> form[p],
                         until |-> now + LateBound]}
  /\ pc' = [pc EXCEPT ![p] = "await"]
  /\ UNCHANGED <<now, sub, keys, applied, inbox, stored, cmd, form, snap, deadline>>

\* The call succeeded; the subscription is read again, observed_at first.
ObserveResult(p) ==
  /\ pc[p] = "accepted"
  /\ pc' = [pc EXCEPT ![p] = "fetchResult"]
  /\ snap' = [snap EXCEPT ![p] = [current |-> TRUE, remote |-> NoRemote]]
  /\ UNCHANGED <<now, processor, stored, cmd, form, deadline>>

\* complete applies the result; without it there is a conflict (see FailLeased).
CompleteCancel(p) ==
  LET r == currentSubscription(p)
      c == cmd[p]
  IN  /\ pc[p] = "complete" /\ c \in Cancels
      /\ Suits(c, r)
      /\ ledger[c].settled \/ StopsAt(r)
      /\ SaveSubscription(p, r, NoSnap)
      /\ ledger' = Settle(reconcileAmount(r), c)
      /\ lease' = releaseLease(c)
      /\ End(p)
      /\ UNCHANGED <<now, processor>>

CompleteChange(p) ==
  LET r == currentSubscription(p)
      c == cmd[p]
  IN  /\ pc[p] = "complete" /\ c \in Changes
      /\ Suits(c, r)
      /\ reconcileAmount(r)[c].settled
      /\ SaveSubscription(p, r, NoSnap)
      /\ ledger' = reconcileAmount(r)
      /\ lease' = releaseLease(c)
      /\ End(p)
      /\ UNCHANGED <<now, processor>>

Leased(p) == pc[p] \in {"submit", "await", "accepted", "fetchResult", "complete"}

\* A processor read or call failed or timed out, or complete found no result:
\* leasedCommand returns the error, and the deferred release runs. (After
\* CompleteCancel or CompleteChange it finds no lease: a settled command is
\* never leased again.)
FailLeased(p) ==
  /\ Leased(p)
  /\ lease' = releaseLease(cmd[p])
  /\ snap' = [snap EXCEPT ![p] = NoSnap]
  /\ End(p)
  /\ UNCHANGED <<now, processor, row, reserved, ledger>>

\* Any error before the lease ends the command with nothing committed by the
\* failing step; a crash, or a release that fails, leaves the lease to expire.
Stop(p) ==
  /\ pc[p] # "idle"
  /\ snap' = [snap EXCEPT ![p] = NoSnap]
  /\ End(p)
  /\ UNCHANGED <<now, processor, stored>>

(***************************************************************************)
(* The event worker.                                                       *)
(***************************************************************************)

\* NextStripeEvent, then prefetch reads observed_at before the processor.
\* The event stays locked by w until its transaction ends.
BeginEvent(w) ==
  /\ pc[w] = "idle"
  /\ inbox > 0
  /\ inbox' = inbox - 1
  /\ pc' = [pc EXCEPT ![w] = "fetchEvent"]
  /\ snap' = [snap EXCEPT ![w] = [current |-> TRUE, remote |-> NoRemote]]
  /\ UNCHANGED <<now, sub, keys, applied, wire, stored, cmd, form, deadline>>

\* reconcileSubscription under the donor lock, and the event is processed.
ApplyEvent(w) ==
  LET r == currentSubscription(w) IN
  /\ pc[w] = "apply"
  /\ Reconcilable(r)
  /\ SaveSubscription(w, r, NoSnap)
  /\ ledger' = reconcileAmount(r)
  /\ End(w)
  /\ UNCHANGED <<now, processor, lease>>

\* A failed event is recorded for a retry, and a crash unlocks it.
StopEvent(w) ==
  /\ pc[w] # "idle"
  /\ inbox' = inbox + 1
  /\ snap' = [snap EXCEPT ![w] = NoSnap]
  /\ End(w)
  /\ UNCHANGED <<now, sub, keys, applied, wire, stored>>

(***************************************************************************)
(* The processor and time.                                                 *)
(***************************************************************************)

\* The processor's state changes: the next version, announced by an event.
Announce(changed) ==
  /\ sub' = [changed EXCEPT !.version = sub.version + 1]
  /\ inbox' = inbox + 1

KeyKnown(c) == keys[c] # Never /\ now - keys[c] < KeyMemory

Reply(q) ==
  pc' = IF pc[q.by] = "await" /\ cmd[q.by] = q.command
        THEN [pc EXCEPT ![q.by] = "accepted"] ELSE pc

\* What the two gateway calls set: cancel_at, or the price from now on,
\* without proration. A subscription that ended, or an end that passed, is
\* refused by the processor.
Changed(q) ==
  IF q.command \in Cancels THEN [sub EXCEPT !.cancel_at = q.form.at]
  ELSE [sub EXCEPT !.amount = q.form.amount]

Accepts(q) ==
  /\ ~terminalSubscription(sub.status)
  /\ q.command \in Cancels => now < q.form.at

\* A remembered key answers again without running the request again.
ProcessorRuns(q) ==
  /\ wire' = wire \ {q}
  /\ \/ /\ KeyKnown(q.command)
        /\ Reply(q)
        /\ UNCHANGED <<sub, keys, applied, inbox>>
     \/ /\ ~KeyKnown(q.command) /\ Accepts(q)
        /\ Announce(Changed(q))
        /\ keys' = [keys EXCEPT ![q.command] = now]
        /\ applied' = [applied EXCEPT ![q.command] = @ + 1]
        /\ Reply(q)
  /\ UNCHANGED <<now, stored, cmd, form, snap, deadline>>

\* A request is lost, or refused: the caller only sees its call fail.
ProcessorDrops(q) ==
  /\ wire' = wire \ {q}
  /\ UNCHANGED <<now, sub, keys, applied, inbox, stored, local>>

\* The renewal bills the next period, or ends a cancelled subscription.
ProcessorRenews ==
  /\ ~terminalSubscription(sub.status) /\ now >= sub.period_end
  /\ Announce(IF sub.cancel_at # Never THEN [sub EXCEPT !.status = "canceled"]
              ELSE [sub EXCEPT !.period_end = @ + Period])
  /\ UNCHANGED <<now, keys, applied, wire, stored, local>>

\* Payment failures and recoveries, schedules set or cleared outside this
\* system, and a subscription ended there.
ProcessorUpdates ==
  /\ sub.version < MaxVersion
  /\ ~terminalSubscription(sub.status)
  /\ \E s \in Statuses, x \in BOOLEAN :
       /\ <<s, x>> # <<sub.status, sub.external>>
       /\ Announce([sub EXCEPT !.status = s, !.external = x])
  /\ UNCHANGED <<now, keys, applied, wire, stored, local>>

\* Time passes while no leased request is past its deadline, no renewal is
\* due, and no request on the wire is past its bound.
Tick ==
  /\ now < MaxTime
  /\ \A p \in Requests : Leased(p) => now < deadline[p]
  /\ terminalSubscription(sub.status) \/ now < sub.period_end
  /\ \A q \in wire : now < q.until
  /\ now' = now + 1
  /\ UNCHANGED <<processor, stored, local>>

(***************************************************************************)
(* The specification.                                                      *)
(***************************************************************************)

\* A new subscription, first synced when its checkout completed.
Init ==
  /\ now = 1
  /\ sub = [version |-> 1, status |-> "active", period_end |-> 1 + Period,
            cancel_at |-> Never, amount |-> DraftAmount, external |-> FALSE]
  /\ keys = [c \in Commands |-> Never]
  /\ applied = [c \in Commands |-> 0]
  /\ wire = {}
  /\ inbox = 0
  /\ row = sub
  /\ reserved = TRUE
  /\ ledger = [c \in Commands |-> NoEntry]
  /\ lease = NoLease
  /\ pc = [p \in Processes |-> "idle"]
  /\ cmd = [p \in Processes |-> "none"]
  /\ form = [p \in Processes |-> NoForm]
  /\ snap = [p \in Processes |-> NoSnap]
  /\ deadline = [p \in Processes |-> Never]

RequestStep(p) ==
  \/ \E c \in Commands : \E f \in Forms(c) : BeginCommand(p, c, f)
  \/ FetchSubscription(p, "fetch", "refresh")
  \/ Refresh(p)
  \/ CancelSettled(p)
  \/ CancelLeased(p)
  \/ ChangeConfirmed(p)
  \/ ChangeSettled(p)
  \/ ChangeLeased(p)
  \/ Mutate(p)
  \/ ObserveResult(p)
  \/ FetchSubscription(p, "fetchResult", "complete")
  \/ CompleteCancel(p)
  \/ CompleteChange(p)
  \/ FailLeased(p)
  \/ Stop(p)

WorkerStep(w) ==
  \/ BeginEvent(w)
  \/ FetchSubscription(w, "fetchEvent", "apply")
  \/ ApplyEvent(w)
  \/ StopEvent(w)

ProcessorStep ==
  \/ \E q \in wire : ProcessorRuns(q) \/ ProcessorDrops(q)
  \/ ProcessorRenews
  \/ ProcessorUpdates

Next ==
  \/ \E p \in Requests : RequestStep(p)
  \/ \E w \in Workers : WorkerStep(w)
  \/ ProcessorStep
  \/ Tick

Spec == Init /\ [][Next]_vars

(***************************************************************************)
(* Properties.                                                             *)
(***************************************************************************)

RequestStates == {"idle", "fetch", "refresh", "prepare", "submit", "await",
                  "accepted", "fetchResult", "complete"}
WorkerStates  == {"idle", "fetchEvent", "apply"}

TypeOK ==
  /\ now \in Nat
  /\ sub \in Remote
  /\ keys \in [Commands -> Nat]
  /\ applied \in [Commands -> Nat]
  /\ wire \subseteq [by: Requests, command: Commands, form: Form, until: Nat]
  /\ inbox \in Nat
  /\ row \in Remote
  /\ reserved \in BOOLEAN
  /\ ledger \in [Commands -> Entry]
  /\ lease \in [command: Commands \cup {"none"}, expires: Nat]
  /\ pc \in [Processes -> RequestStates \cup WorkerStates]
  /\ \A p \in Requests : pc[p] \in RequestStates
  /\ \A w \in Workers : pc[w] \in WorkerStates
  /\ cmd \in [Processes -> Commands \cup {"none"}]
  /\ \A p \in Requests : pc[p] # "idle" => cmd[p] \in Commands
  /\ form \in [Processes -> Form]
  /\ snap \in [Processes -> Snapshot]
  /\ deadline \in [Processes -> Nat]

\* Whether the change command c asks for is in effect at the processor.
InEffect(c) ==
  IF c \in Cancels THEN StopsAt(sub) ELSE applied[c] > 0

Calling(p) == pc[p] \in {"submit", "await"}

\* The lease keeps two requests from asking the processor for changes at the
\* same time: of two requests in a processor call, at most one asks for a
\* change that is not yet in effect.
OneEffectiveCall ==
  \A p, q \in Requests :
    /\ Calling(p) /\ Calling(q) /\ p # q
    => InEffect(cmd[p]) \/ InEffect(cmd[q])

\* commandRetryWindow keeps every retry, and every request still on the wire,
\* inside the processor's idempotency memory: no command is run twice.
AppliedAtMostOnce == \A c \in Commands : applied[c] =< 1

\* What the comment on reconcileAmount and docs/architecture.md say of a change
\* whose result was lost: it can be confirmed later. reconcileAmount accepts
\* the processor's state, so no command and no event is refused with ErrFacts.
AlwaysReconcilable == Reconcilable(sub)

\* A change ran at the processor, and its renewal came before any sync saw it.
MissedRenewal ==
  \E c \in Inserted : /\ c = LatestAmountChange /\ ~ledger[c].settled
                      /\ keys[c] \in 1 .. ledger[c].form.at - 1
                      /\ sub.period_end > ledger[c].form.at

\* Whatever lost, late and repeated requests did, the processor's state is one
\* reconcileRemoteSubscription accepts, unless a change missed its renewal.
ReconcilableUntilRenewal == Reconcilable(sub) \/ MissedRenewal

\* The amount view is right: the store's next amount, or the one change it is
\* still waiting for, is what the processor will charge.
AmountAuthorized ==
  \/ sub.amount = nextAmount(ledger)
  \/ \E c \in Inserted : ~ledger[c].settled /\ sub.amount = ledger[c].form.amount

\* A command reported as done was done: a confirmed change ran at the
\* processor, a completed cancellation left the subscription ending.
SettledIsDone ==
  \A c \in Commands : ledger[c].settled => InEffect(c)

\* The donor's one recurring reservation is kept for as long as the
\* subscription can still charge.
ReservedWhileLive == ~reserved => sub.status = "canceled"

\* Delayed snapshots and out-of-order events never overwrite a newer synced
\* state with an older one (currentSubscription).
NeverOlder == [][row'.version >= row.version]_vars

\* What docs/architecture.md and the comment on leaseSubscription say: one
\* outstanding processor call per subscription, identical retries included.
OneOutstandingCall ==
  \A p, q \in Requests : Calling(p) /\ Calling(q) => p = q

(***************************************************************************)
(* Liveness. The worker retries an event until it is applied, so it is     *)
(* strongly fair to the steps a failure or a crash may interrupt.          *)
(***************************************************************************)

Fairness ==
  /\ \A w \in Workers : /\ WF_vars(BeginEvent(w))
                         /\ SF_vars(FetchSubscription(w, "fetchEvent", "apply"))
                         /\ SF_vars(ApplyEvent(w))

FairSpec == Spec /\ Fairness

\* An amount change the processor ran is confirmed in the store even if the
\* request that sent it crashed or timed out and is never retried, unless its
\* renewal comes first.
AppliedChangeConfirmed ==
  \A c \in Changes : applied[c] > 0 ~> ledger[c].settled \/ MissedRenewal

\* A subscription that ends at the processor gives up the reservation.
EndedReleases == terminalSubscription(sub.status) ~> ~reserved \/ MissedRenewal
=============================================================================
