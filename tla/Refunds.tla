------------------------------ MODULE Refunds ------------------------------
(***************************************************************************)
(* Refunds of one gift: the staff commands that make them, the refunds     *)
(* made in the processor's dashboard, and the events that report them      *)
(* (internal/store/admin_finance.go, refunds.go, worker.go, inbox.go).     *)
(*                                                                         *)
(* The processor's refunds change on their own and each change sends an    *)
(* event, delivered late, in any order and more than once. An event only   *)
(* names its refund; the worker reads the refund's state from the          *)
(* processor without the donor lock and records it under the lock. A staff *)
(* request likewise lists and creates without the lock. The number of      *)
(* recorded observations tells a writer whether what it read is still the  *)
(* latest.                                                                 *)
(***************************************************************************)
EXTENDS Integers, Sequences, FiniteSets, FiniteSetsExt

CONSTANTS
  Commands,     \* staff refund commands of the gift, named by request id
  Dashboard,    \* refunds made in the processor's dashboard
  Amount,       \* what each refund asks for
  GiftAmount,
  Requests,     \* requests of staff members, each handling one command
  Workers,      \* Stripe event workers
  MaxAttempts,  \* the attempts an event has
  RetryCap,     \* the longest backoff
  Window,       \* commandRetryWindow
  RequestTime,  \* how long a request may wait before its create (the server's request timeout)
  KeyLife,      \* how long the processor remembers an idempotency key
  Horizon,      \* times after it are not told apart
  Late,         \* the gift's own event may be applied after a refund's
  MaxTime, MaxEvents, MaxDeaths, MaxRecords  \* bounds: clock, events, failed steps, observations

RefundsAssumption ==
  /\ {GiftAmount, RetryCap, Window, RequestTime, KeyLife, Horizon, MaxTime, MaxEvents, MaxDeaths, MaxRecords} \subseteq Nat
  /\ MaxAttempts \in Nat \ {0} /\ Late \in BOOLEAN
  /\ Amount \in [Commands \cup Dashboard -> Nat \ {0}]
  /\ Window + RequestTime <= KeyLife /\ Commands \cap Dashboard = {}
  /\ Requests \cap Workers = {} /\ "free" \notin Requests \cup Workers

VARIABLES
  clock, deaths,
  remote,   \* the processor's refunds of the payment
  ev,       \* donor_stripe_events, in the order the processor sent them
  gift,     \* is the gift recorded
  stored,   \* donor_refunds
  observed, \* how many donor_refund_observations the gift has
  cmd,      \* donor_staff_actions
  req, wrk, \* what each request and each worker holds
  lock      \* who holds the donor's and the gift's row

vars == <<clock, deaths, remote, ev, gift, stored, observed, cmd, req, wrk, lock>>

(***************************************************************************)
(* The processor. A refund counts against the payment unless it failed;    *)
(* requires_action is pending here, and canceled is failed.                *)
(***************************************************************************)
Refunds == Commands \cup Dashboard
NoRefund == [status |-> "NONE", version |-> 0]
Sum(S) == MapThenSumSet(LAMBDA r : Amount[r], S)
remaining(rows) == GiftAmount - Sum({r \in Refunds : rows[r].status \in {"PENDING", "SUCCEEDED"}})

NewEvent(r) == [refund |-> r, delivered |-> FALSE, attempts |-> 0, at |-> 0, done |-> FALSE]
Change(r, status) ==
  /\ Len(ev) < MaxEvents
  /\ remote' = [remote EXCEPT ![r].status = status, ![r].version = @ + 1]
  /\ ev' = Append(ev, NewEvent(r))

(* A create under a key the processor has seen answers what it answered first. *)
CreateRefund(c) == remote[c].made > 0 /\ clock < remote[c].at + KeyLife
Made(c) ==
  /\ Len(ev) < MaxEvents
  /\ remote' = [remote EXCEPT ![c] = [status |-> "PENDING", version |-> 1, made |-> @.made + 1, at |-> clock]]
  /\ ev' = Append(ev, NewEvent(c))

(***************************************************************************)
(* The statements on stored refunds and events.                            *)
(***************************************************************************)
At(t) == Min({t, Horizon})
InsertStripeEvent(e) == [ev EXCEPT ![e].delivered = TRUE]
NextStripeEvent(e) ==
  /\ ev[e].delivered /\ ~ev[e].done /\ ev[e].attempts < MaxAttempts /\ ev[e].at <= clock
  /\ \A w \in Workers : wrk[w].event # e
CompleteStripeEvent(e) == [ev EXCEPT ![e].done = TRUE, ![e].attempts = @ + 1]
FailRolledBack(e) == [ev EXCEPT ![e].at = At(clock + 1)]  \* mutant
FailStripeEvent(e) ==
  [ev EXCEPT ![e].attempts = @ + 1, ![e].at = At(clock + Min({2 ^ (ev[e].attempts + 1), RetryCap}))]
RetryStripeEvent(e) == [ev EXCEPT ![e].attempts = 0, ![e].at = At(clock)]

SucceededRefundAmounts(rows) == Sum({r \in Refunds : rows[r].status = "SUCCEEDED"})
UpdateRefund(r, seen) == [stored EXCEPT ![r] = seen]

(* recordRefund refuses a state under which more was refunded than given. *)
Refused(r, seen) == SucceededRefundAmounts(UpdateRefund(r, seen)) > GiftAmount
recordRefund(r, seen) ==
  /\ ~Refused(r, seen)
  /\ stored' = UpdateRefund(r, seen)
  /\ observed' = observed + 1

GiftRefundObservations == observed
PendingStaffRefund(c) ==
  /\ cmd[c].status \notin {"NONE", "ABANDONED"}
  /\ cmd[c].refund => stored[c].status = "PENDING"
InsertStaffAction(c) == [cmd EXCEPT ![c].status = "PENDING", ![c].at = clock]
SaveStaffAction(c, status, refund) == [cmd EXCEPT ![c].status = status, ![c].refund = refund]

(***************************************************************************)
(* A staff request: authorise, read, list, create, lock, record.           *)
(***************************************************************************)
NoReq == [pc |-> "idle", command |-> "none", seen |-> 0, at |-> 0, rows |-> [r \in Refunds |-> NoRefund]]
Facts == [r \in Refunds |-> [status |-> remote[r].status, version |-> remote[r].version]]
Quiet == UNCHANGED <<clock, deaths, gift>>
InHand(p) == req[p].command
WithinRetryWindow(c) == clock < cmd[c].at + Window

stage(p, c) ==
  /\ req[p].pc = "idle" /\ observed < MaxRecords
  /\ \/ cmd[c].status # "NONE" /\ UNCHANGED cmd
     \/ /\ cmd[c].status = "NONE" /\ gift /\ lock = "free"
        /\ Amount[c] <= GiftAmount
        /\ \A o \in Commands : ~PendingStaffRefund(o)
        /\ cmd' = InsertStaffAction(c)
  /\ req' = [req EXCEPT ![p] = [NoReq EXCEPT !.pc = "staged", !.command = c]]
  /\ Quiet /\ UNCHANGED <<remote, ev, stored, observed, wrk, lock>>

(* createRefund: the count of observations is read before the list. *)
StaffGiftSnapshot(p) ==
  /\ req[p].pc = "staged"
  /\ req' = [req EXCEPT ![p].pc = IF cmd[InHand(p)].status = "ABANDONED" THEN "submit" ELSE "read",
               ![p].seen = GiftRefundObservations]
  /\ Quiet /\ UNCHANGED <<remote, ev, stored, observed, cmd, wrk, lock>>

(* refundBalance holds of every list: the processor never refunds more than the payment. *)
MayCreate(c, rows) ==
  /\ rows[c].status = "NONE" /\ ~cmd[c].refund
  /\ WithinRetryWindow(c) /\ Amount[c] <= remaining(rows)
ListPaymentRefunds(p) ==
  /\ req[p].pc = "read"
  /\ req' = [req EXCEPT ![p].rows = Facts, ![p].at = clock, ![p].pc = IF MayCreate(InHand(p), Facts) THEN "create" ELSE "submit"]
  /\ Quiet /\ UNCHANGED <<remote, ev, stored, observed, cmd, wrk, lock>>

createRefund(p) ==
  /\ req[p].pc = "create" /\ clock < req[p].at + RequestTime
  /\ IF CreateRefund(InHand(p)) THEN UNCHANGED <<remote, ev>>
     ELSE Amount[InHand(p)] <= remaining(remote) /\ Made(InHand(p))
  /\ req' = [req EXCEPT ![p].pc = "submit", ![p].rows[InHand(p)] = [status |-> "PENDING", version |-> 1]]
  /\ Quiet /\ UNCHANGED <<stored, observed, cmd, wrk, lock>>

(* submitRefund, its first half: the lock, and the list again if an       *)
(* observation was recorded since the count was read.                     *)
currentRefunds(p) == IF observed = req[p].seen THEN req[p].rows ELSE Facts
lockStaffDonor(p) ==
  /\ req[p].pc = "submit" /\ lock = "free"
  /\ lock' = p
  /\ req' = [req EXCEPT ![p].pc = "record",
               ![p].rows = IF cmd[InHand(p)].status = "ABANDONED" THEN @ ELSE currentRefunds(p)]
  /\ Quiet /\ UNCHANGED <<remote, ev, stored, observed, cmd, wrk>>

submitRefund(p) ==
  LET c == InHand(p) rows == req[p].rows IN
  /\ req[p].pc = "record"
  /\ \/ cmd[c].status = "ABANDONED" /\ UNCHANGED <<stored, observed, cmd>>
     \/ /\ cmd[c].status # "ABANDONED" /\ rows[c].status = "NONE"
        /\ cmd' = IF cmd[c].refund \/ ~WithinRetryWindow(c) \/ Amount[c] <= remaining(rows)
                  THEN cmd ELSE SaveStaffAction(c, "ABANDONED", FALSE)
        /\ UNCHANGED <<stored, observed>>
     \/ /\ cmd[c].status # "ABANDONED" /\ rows[c].status # "NONE"
        /\ \/ recordRefund(c, rows[c]) /\ cmd' = SaveStaffAction(c, "OBSERVED", TRUE)
           \/ Refused(c, rows[c]) /\ UNCHANGED <<stored, observed, cmd>>
  /\ req' = [req EXCEPT ![p] = NoReq]
  /\ lock' = "free"
  /\ Quiet /\ UNCHANGED <<remote, ev, wrk>>

(* A request that fails or dies: the processor is not reached, its answer  *)
(* is lost, or the process stops.                                          *)
auditFailure(p) ==
  /\ \/ req[p].pc # "idle" /\ deaths < MaxDeaths /\ deaths' = deaths + 1
     \/ req[p].pc = "create" /\ clock >= req[p].at + RequestTime /\ UNCHANGED deaths
  /\ req' = [req EXCEPT ![p] = NoReq]
  /\ lock' = IF lock = p THEN "free" ELSE lock
  /\ UNCHANGED <<clock, gift, remote, ev, stored, observed, cmd, wrk>>

(***************************************************************************)
(* The event worker. One transaction holds the event's row from the claim; *)
(* a worker that dies undoes the attempt too.                              *)
(***************************************************************************)
NoWork == [pc |-> "idle", event |-> 0, seen |-> 0, fact |-> NoRefund]
Fail(w) ==
  /\ ev' = FailStripeEvent(wrk[w].event)
  /\ wrk' = [wrk EXCEPT ![w] = NoWork]

ProcessNext(w, e) ==
  /\ wrk[w].pc = "idle" /\ NextStripeEvent(e)
  /\ IF gift
     THEN /\ wrk' = [wrk EXCEPT ![w] = [NoWork EXCEPT !.pc = "read", !.event = e, !.seen = GiftRefundObservations]]
          /\ UNCHANGED ev
     ELSE ev' = FailStripeEvent(e) /\ UNCHANGED wrk
  /\ Quiet /\ UNCHANGED <<remote, stored, observed, cmd, req, lock>>

RefundOf(w) == ev[wrk[w].event].refund
retrieveRefund(r) == [status |-> remote[r].status, version |-> remote[r].version]

applyRefundEvent(w) ==
  /\ wrk[w].pc = "read"
  /\ wrk' = [wrk EXCEPT ![w].pc = "lock", ![w].fact = retrieveRefund(RefundOf(w))]
  /\ Quiet /\ UNCHANGED <<ev, remote, stored, observed, cmd, req, lock>>

(* A read that fails, before the lock or under it: the event is retried. *)
Unavailable(w) ==
  /\ wrk[w].pc \in {"read", "lock"}
  /\ Fail(w)
  /\ Quiet /\ UNCHANGED <<remote, stored, observed, cmd, req, lock>>

ReadOnce(w) == wrk[w].fact  \* mutant
GiftByPayment(w) == IF observed = wrk[w].seen THEN wrk[w].fact ELSE retrieveRefund(RefundOf(w))
LockDonor(w) ==
  /\ wrk[w].pc = "lock" /\ lock = "free"
  /\ lock' = w
  /\ wrk' = [wrk EXCEPT ![w].pc = "record", ![w].fact = GiftByPayment(w)]
  /\ Quiet /\ UNCHANGED <<ev, remote, stored, observed, cmd, req>>

applyEvent(w) ==
  /\ wrk[w].pc = "record"
  /\ \/ /\ recordRefund(RefundOf(w), wrk[w].fact)
        /\ ev' = CompleteStripeEvent(wrk[w].event) /\ wrk' = [wrk EXCEPT ![w] = NoWork]
     \/ Refused(RefundOf(w), wrk[w].fact) /\ Fail(w) /\ UNCHANGED <<stored, observed>>
  /\ lock' = "free"
  /\ Quiet /\ UNCHANGED <<remote, cmd, req>>

Die(w) ==
  /\ wrk[w].pc # "idle" /\ deaths < MaxDeaths /\ deaths' = deaths + 1
  /\ wrk' = [wrk EXCEPT ![w] = NoWork]
  /\ lock' = IF lock = w THEN "free" ELSE lock
  /\ UNCHANGED <<clock, gift, remote, ev, stored, observed, cmd, req>>

(***************************************************************************)
(* The processor, the webhook, the operator and time.                      *)
(***************************************************************************)
Outside == UNCHANGED <<deaths, stored, observed, cmd, req, wrk, lock>>

DashboardRefund(r) ==
  /\ remote[r].status = "NONE" /\ Amount[r] <= remaining(remote)
  /\ Change(r, "PENDING") /\ Outside /\ UNCHANGED <<clock, gift>>
Succeed(r) == remote[r].status = "PENDING" /\ Change(r, "SUCCEEDED") /\ Outside /\ UNCHANGED <<clock, gift>>
Fails(r) == remote[r].status \in {"PENDING", "SUCCEEDED"} /\ Change(r, "FAILED") /\ Outside /\ UNCHANGED <<clock, gift>>

SaveVerifiedEvent(e) ==
  /\ e \in 1 .. Len(ev) /\ ev' = InsertStripeEvent(e)
  /\ Outside /\ UNCHANGED <<clock, gift, remote>>
Retry(e) ==
  /\ ev[e].attempts = MaxAttempts /\ ~ev[e].done /\ deaths < MaxDeaths /\ deaths' = deaths + 1
  /\ ev' = RetryStripeEvent(e)
  /\ UNCHANGED <<clock, gift, remote, stored, observed, cmd, req, wrk, lock>>
recordGift == ~gift /\ gift' = TRUE /\ Outside /\ UNCHANGED <<clock, remote, ev>>
Tick == clock < MaxTime /\ clock' = clock + 1 /\ Outside /\ UNCHANGED <<gift, remote, ev>>

Init ==
  /\ clock = 0 /\ deaths = 0 /\ ev = <<>> /\ observed = 0 /\ lock = "free"
  /\ gift = ~Late
  /\ remote = [r \in Refunds |-> [status |-> "NONE", version |-> 0, made |-> 0, at |-> 0]]
  /\ stored = [r \in Refunds |-> NoRefund]
  /\ cmd = [c \in Commands |-> [status |-> "NONE", refund |-> FALSE, at |-> 0]]
  /\ req = [p \in Requests |-> NoReq] /\ wrk = [w \in Workers |-> NoWork]

RequestStep(p) == StaffGiftSnapshot(p) \/ ListPaymentRefunds(p) \/ createRefund(p) \/ lockStaffDonor(p) \/ submitRefund(p)
WorkerStep(w) == (\E e \in 1 .. Len(ev) : ProcessNext(w, e)) \/ applyRefundEvent(w) \/ LockDonor(w) \/ applyEvent(w)

Next ==
  \/ \E p \in Requests : (\E c \in Commands : stage(p, c)) \/ RequestStep(p) \/ auditFailure(p)
  \/ \E w \in Workers : WorkerStep(w) \/ Unavailable(w) \/ Die(w)
  \/ \E r \in Refunds : Succeed(r) \/ Fails(r)
  \/ \E r \in Dashboard : DashboardRefund(r)
  \/ \E e \in 1 .. Len(ev) : SaveVerifiedEvent(e) \/ Retry(e)
  \/ recordGift
  \/ Tick

Spec == Init /\ [][Next]_vars

(***************************************************************************)
(* Properties.                                                             *)
(***************************************************************************)

\* Every row has its type, and a command that names a refund has one stored
\* (the join of PendingStaffRefund finds it).
TypeOK ==
  /\ clock \in 0 .. MaxTime /\ deaths \in 0 .. MaxDeaths /\ gift \in BOOLEAN /\ observed \in Nat
  /\ \A r \in Refunds : stored[r].status \in {"NONE", "PENDING", "SUCCEEDED", "FAILED"}
  /\ \A e \in 1 .. Len(ev) : ev[e].attempts \in 0 .. MaxAttempts
  /\ \A c \in Commands : cmd[c].refund <=> cmd[c].status = "OBSERVED"
  /\ \A c \in Commands : cmd[c].refund => stored[c].status # "NONE"

\* Once every event of a refund has been applied, what is stored is what the
\* processor says: no observation is overtaken by an older one.
CaughtUp ==
  \A r \in Refunds :
    (\A e \in 1 .. Len(ev) : ev[e].refund = r => ev[e].done) =>
      stored[r].status = remote[r].status

\* A staff command moves money at most once, whatever is retried, dies or
\* loses its answer.
RefundedOnce == \A c \in Commands : remote[c].made <= 1

\* Two staff refunds of a gift are never with the processor at once, so
\* neither competes for the balance the other was checked against
\* (createRefund's comment).
OneAtATime ==
  Cardinality({c \in Commands : cmd[c].status # "ABANDONED" /\ remote[c].status = "PENDING"}) <= 1

\* The refunds recorded as successful never exceed the gift, although the
\* failure of one and the success of the next are reported in either order
\* (stated as recordRefund tests it: the sum is not greater than the gift).
WithinGift == ~(SucceededRefundAmounts(stored) > GiftAmount)

\* What refunds promise: a command moves money once (createRefund), no two of a
\* gift are with the processor at once (stage), together they never exceed the
\* gift (recordRefund), and once its events are applied what is stored of a
\* refund is what the processor says (applyRefundEvent).
RefundsExact == RefundedOnce /\ OneAtATime /\ WithinGift /\ CaughtUp

\* Every delivered event is applied or parked, whatever fails: the queue is
\* empty again and again.
Unsettled == {e \in 1 .. Len(ev) : ev[e].delivered /\ ~ev[e].done /\ ev[e].attempts < MaxAttempts}
EventSettles == (Unsettled # {}) ~> (Unsettled = {})

\* "No refund submitted": a command answered as not submitted has none.
NotSubmitted == \A c \in Commands : cmd[c].status = "ABANDONED" => remote[c].status = "NONE"
=============================================================================
