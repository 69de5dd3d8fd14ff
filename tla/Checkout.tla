------------------------------ MODULE Checkout ------------------------------
(***************************************************************************)
(* Hosted monthly checkouts of one donor (internal/store/checkout.go) and  *)
(* the worker that applies the processor's events about them (worker.go,   *)
(* subscriptions.go). A donor has one recurring reservation: the attempt   *)
(* that holds it is the only one whose hosted session may be paid.         *)
(*                                                                         *)
(* Every attempt is keyed by the client's request id, and its processor    *)
(* session by that id too, so an attempt has at most one session. A        *)
(* transaction is one action; the processor is called between             *)
(* transactions with no lock held, and a request or a worker can crash     *)
(* between any two actions. Times are the times the code compares: a       *)
(* request reads the clock once, when it begins.                           *)
(***************************************************************************)
EXTENDS Integers, FiniteSets

CONSTANTS
  Attempts,      \* request ids (idempotency keys) of checkouts
  Requests,      \* API requests
  Apps,          \* the requests that come from a donor app
  Workers,       \* event workers
  Terms,         \* amount and referrer of a checkout
  Lifetime,      \* checkoutLifetime: a session lapses this long after created_at
  PrepareTries,  \* how often prepare is tried
  MinimumLeft,   \* the least time to live the processor accepts for a session
  RetryWindow,   \* commandRetryWindow
  ReuseMargin,   \* reuseMargin
  RestartBudget, \* restartBudget
  RestartWindow, \* restartWindow
  RestartGrace,  \* restartGrace
  RequestTime,   \* providerTimeout: how long a request may take
  MaxTime        \* bound: no attempt is created that would outlive it

None == "none"

ASSUME AttemptsAssumption == None \notin Attempts /\ IsFiniteSet(Attempts)
ASSUME ActorsAssumption == Requests \cap Workers = {} /\ Apps \subseteq Requests
ASSUME TimesAssumption ==
  /\ {Lifetime, PrepareTries, MinimumLeft, RetryWindow, ReuseMargin, RestartBudget,
      RestartWindow, RestartGrace, RequestTime, MaxTime} \subseteq Nat
  /\ Lifetime > 0 /\ PrepareTries > 0

VARIABLES
  now,      \* the clock
  attempt,  \* donor_stripe_checkouts
  holder,   \* donor_recurring_reservations: the attempt holding the slot
  session,  \* the hosted session of each attempt, at the processor
  gift,     \* the subscription of each attempt, at the processor
  late,     \* attempts with a timed-out CreateCheckout that may still run
  inbox,    \* unprocessed donor_stripe_events
  pc,       \* where each request and each worker is
  job,      \* what each request is doing
  event     \* the event each worker holds, and the subscription it read

stored == <<attempt, holder>>
remote == <<session, gift, late, inbox>>
vars   == <<now, stored, remote, pc, job, event>>

(***************************************************************************)
(* Data.                                                                   *)
(***************************************************************************)

AttemptStatus == {None, "PENDING", "OPEN", "COMPLETE", "EXPIRED", "CANCELLED"}

\* url: whether the processor's session id and URL are recorded. An attempt
\* begun by a donor app returns to the app.
Attempt   == [status: AttemptStatus, created: Nat, native: BOOLEAN,
              terms: Terms \cup {None}, url: BOOLEAN]
NoAttempt == [status |-> None, created |-> 0, native |-> FALSE, terms |-> None,
              url |-> FALSE]

Job   == [id: Attempts \cup {None}, at: Nat, terms: Terms \cup {None},
          tries: 0 .. PrepareTries, stale: Attempts \cup {None}]
NoJob == [id |-> None, at |-> 0, terms |-> None, tries |-> 0, stale |-> None]

Kinds == {"completed", "expired", "subscription"}

\* A subscription read by a worker: None before the read, "outdated" once
\* another step saved the same subscription (observed_at has moved on).
Seen    == {None, "live", "ended", "outdated"}
Held    == [kind: Kinds \cup {None}, about: Attempts \cup {None}, seen: Seen]
NoEvent == [kind |-> None, about |-> None, seen |-> None]

Recorded(a) == attempt[a].status # None

\* checkoutExpiry: the frozen expires_at.
Expiry(a) == attempt[a].created + Lifetime

(***************************************************************************)
(* Requests: begin, prepare and prepareAttempt.                            *)
(***************************************************************************)

\* A new request names its terms; a retry has those it was recorded with (with
\* others its digest differs, and it is refused).
Begin(p, a, terms) ==
  /\ pc[p] = "idle"
  /\ \/ ~Recorded(a)
     \/ attempt[a].status \in {"PENDING", "OPEN"} /\ attempt[a].terms = terms
  /\ pc' = [pc EXCEPT ![p] = "prepare"]
  /\ job' = [job EXCEPT ![p] = [id |-> a, at |-> now, terms |-> terms,
                                tries |-> PrepareTries, stale |-> None]]
  /\ UNCHANGED <<now, stored, remote, event>>

\* A request for a closed attempt is a conflict and changes nothing.
Refuse(p, a) ==
  /\ pc[p] = "idle"
  /\ attempt[a].status \in {"EXPIRED", "CANCELLED", "COMPLETE"}
  /\ UNCHANGED vars

End(p) ==
  /\ pc' = [pc EXCEPT ![p] = "idle"]
  /\ job' = [job EXCEPT ![p] = NoJob]

\* The attempt is known and its session open: its URL is the answer.
PrepareAnswered(p) ==
  LET a == job[p].id IN
  /\ pc[p] = "prepare"
  /\ attempt[a].status \in {"PENDING", "OPEN"} /\ attempt[a].url
  /\ End(p)
  /\ UNCHANGED <<now, stored, remote, event>>

\* The attempt is known, but not its session: the call is made again.
PrepareResumed(p) ==
  LET a == job[p].id IN
  /\ pc[p] = "prepare"
  /\ attempt[a].status \in {"PENDING", "OPEN"} /\ ~attempt[a].url
  /\ job[p].at < attempt[a].created + RetryWindow
  /\ pc' = [pc EXCEPT ![p] = "create"]
  /\ UNCHANGED <<now, stored, remote, job, event>>

\* Mutant: the reservation is taken from whoever holds it.
ReserveRecurring_Takes(a) == holder' = a

\* ReserveRecurring: unique per donor.
ReserveRecurring(a) ==
  /\ holder = None
  /\ holder' = a

\* A new attempt takes the donor's free slot.
PrepareNew(p) ==
  LET a == job[p].id IN
  /\ pc[p] = "prepare"
  /\ ~Recorded(a)
  /\ job[p].at + Lifetime =< MaxTime
  /\ ReserveRecurring(a)
  /\ attempt' = [attempt EXCEPT ![a] = [status |-> "PENDING", created |-> job[p].at,
                                        native |-> p \in Apps,
                                        terms |-> job[p].terms, url |-> FALSE]]
  /\ pc' = [pc EXCEPT ![p] = "create"]
  /\ UNCHANGED <<now, remote, job, event>>

\* heldCheckout only ever touches an open checkout.
HeldOpen(p) ==
  /\ pc[p] = "prepare"
  /\ ~Recorded(job[p].id)
  /\ holder # None
  /\ attempt[holder].status = "OPEN" /\ attempt[holder].url

\* The app's own open session answers an app's request for the same gift.
Reusable(p) ==
  /\ p \in Apps /\ attempt[holder].native
  /\ attempt[holder].terms = job[p].terms
  /\ Expiry(holder) > job[p].at + ReuseMargin

\* Attempts begun in the restart window, the one being prepared included.
RecentAttempts(p) ==
  Cardinality({a \in Attempts : Recorded(a)
                 /\ attempt[a].created > job[p].at - RestartWindow}) + 1

\* Mutant: no budget.
MayRestart_NoBudget(p) == job[p].at >= attempt[holder].created + RestartGrace

\* What a website request needs to replace the holder.
MayRestart(p) ==
  /\ job[p].at >= attempt[holder].created + RestartGrace
  /\ RecentAttempts(p) =< RestartBudget

\* openCheckout: the transaction rolls back and the holder's URL is returned.
PrepareReuse(p) ==
  /\ HeldOpen(p)
  /\ Reusable(p)
  /\ End(p)
  /\ UNCHANGED <<now, stored, remote, event>>

\* staleCheckout: the transaction rolls back and the holder is to be retired.
PrepareStale(p) ==
  /\ HeldOpen(p)
  /\ IF p \in Apps THEN ~Reusable(p) ELSE MayRestart(p)
  /\ pc' = [pc EXCEPT ![p] = "expire"]
  /\ job' = [job EXCEPT ![p].stale = holder, ![p].tries = @ - 1]
  /\ UNCHANGED <<now, stored, remote, event>>

(***************************************************************************)
(* Requests: retire, CreateCheckout and its acknowledgement.               *)
(***************************************************************************)

\* Mutant: any answer is taken for an expiry.
ReportedExpired_Any(a) == TRUE

\* The status ExpireCheckout reports: expired now or before, or paid first.
ReportedExpired(a) == session[a] # "complete"

\* ExpireCheckout closes an open session, or reads back what it became.
ExpireCheckout(p) ==
  LET a == job[p].stale IN
  /\ pc[p] = "expire"
  /\ \/ /\ session[a] = "open"
        /\ session' = [session EXCEPT ![a] = "expired"]
        /\ inbox' = inbox \cup {<<"expired", a>>}
     \/ /\ session[a] # "open"
        /\ UNCHANGED <<session, inbox>>
  /\ \/ /\ ReportedExpired(a)
        /\ pc' = [pc EXCEPT ![p] = "retire"]
        /\ UNCHANGED job
     \/ /\ ~ReportedExpired(a)
        /\ End(p)
  /\ UNCHANGED <<now, stored, gift, late, event>>

\* Mutant: the slot is freed whoever holds it.
ReleaseReservation_Any(a) == None

\* ReleaseReservation deletes the attempt's own reservation.
ReleaseReservation(a) == IF holder = a THEN None ELSE holder

TriesLeft(p) == job[p].tries > 0

\* Frees the retired attempt's reservation, then prepare starts over.
Retire(p) ==
  LET a == job[p].stale IN
  /\ pc[p] = "retire"
  /\ \/ /\ attempt[a].status = "COMPLETE"
        /\ End(p)
        /\ UNCHANGED stored
     \/ /\ attempt[a].status # "COMPLETE"
        /\ attempt' = [attempt EXCEPT ![a].status = IF @ = "OPEN" THEN "EXPIRED" ELSE @]
        /\ holder' = ReleaseReservation(a)
        /\ \/ /\ TriesLeft(p)
              /\ pc' = [pc EXCEPT ![p] = "prepare"]
              /\ job' = [job EXCEPT ![p].stale = None]
           \/ /\ ~TriesLeft(p)
              /\ End(p)
  /\ UNCHANGED <<now, remote, event>>

\* The session opens at the processor: a new one must have MinimumLeft to live,
\* a known idempotency key replays its answer whatever became of the session.
Opens(a) ==
  /\ session[a] # None \/ now + MinimumLeft =< Expiry(a)
  /\ session' = [session EXCEPT ![a] = IF @ = None THEN "open" ELSE @]

\* The call under the attempt's key, with its frozen parameters, is answered.
CreateCheckout(p) ==
  /\ pc[p] = "create"
  /\ Opens(job[p].id)
  /\ pc' = [pc EXCEPT ![p] = "acknowledge"]
  /\ UNCHANGED <<now, stored, gift, late, inbox, job, event>>

\* The call times out, and the processor may still run it later.
CreateTimesOut(p) ==
  /\ pc[p] = "create"
  /\ session[job[p].id] = None
  /\ late' = late \cup {job[p].id}
  /\ End(p)
  /\ UNCHANGED <<now, stored, session, gift, inbox, event>>

\* Mutant: an acknowledgement opens the attempt whatever became of it.
Acknowledged_Reopens(a) == [attempt EXCEPT ![a].url = TRUE, ![a].status = "OPEN"]

Acknowledged(a) ==
  [attempt EXCEPT ![a].url = TRUE,
                  ![a].status = IF @ = "PENDING" THEN "OPEN" ELSE @]

AcknowledgeCheckout(p) ==
  /\ pc[p] = "acknowledge"
  /\ attempt' = Acknowledged(job[p].id)
  /\ End(p)
  /\ UNCHANGED <<now, holder, remote, event>>

\* A conflict, a throttled restart, a failed or timed-out call, a crash: the
\* request ends and its last transaction, if any, changed nothing.
Stop(p) ==
  /\ pc[p] # "idle"
  /\ End(p)
  /\ UNCHANGED <<now, stored, remote, event>>

(***************************************************************************)
(* The worker.                                                             *)
(***************************************************************************)

\* NextStripeEvent, in any order: available_at moves with every failure.
BeginEvent(w, e) ==
  /\ pc[w] = "idle"
  /\ e \in inbox
  /\ inbox' = inbox \ {e}
  /\ event' = [event EXCEPT ![w] = [kind |-> e[1], about |-> e[2], seen |-> None]]
  /\ pc' = [pc EXCEPT ![w] = IF e[1] = "expired" THEN "apply" ELSE "fetch"]
  /\ UNCHANGED <<now, stored, session, gift, late, job>>

\* prefetch reads the subscription before the donor lock.
Prefetch(w) ==
  /\ pc[w] = "fetch"
  /\ event' = [event EXCEPT ![w].seen = IF @ = "outdated" THEN @ ELSE gift[event[w].about]]
  /\ pc' = [pc EXCEPT ![w] = "apply"]
  /\ UNCHANGED <<now, stored, remote, job>>

EndEvent(w, others) ==
  /\ pc' = [pc EXCEPT ![w] = "idle"]
  /\ event' = [others EXCEPT ![w] = NoEvent]

\* Mutant: only an acknowledged attempt expires.
ExpiredStatus_OpenOnly(status) == IF status = "OPEN" THEN "EXPIRED" ELSE status

\* applySessionEvent: what a session's end makes of the attempt.
ExpiredStatus(status) ==
  IF status \in {"COMPLETE", "CANCELLED"} THEN status ELSE "EXPIRED"

\* Mutant: only an acknowledged attempt completes.
CompletedStatus_OpenOnly(status) == IF status = "OPEN" THEN "COMPLETE" ELSE status

CompletedStatus(status) == IF status = "CANCELLED" THEN status ELSE "COMPLETE"

ApplyExpired(w) ==
  LET a == event[w].about IN
  /\ pc[w] = "apply" /\ event[w].kind = "expired"
  /\ attempt' = [attempt EXCEPT ![a].status = ExpiredStatus(@)]
  /\ holder' = IF ExpiredStatus(attempt[a].status) = "EXPIRED"
               THEN ReleaseReservation(a) ELSE holder
  /\ EndEvent(w, event)
  /\ UNCHANGED <<now, remote, job>>

\* currentSubscription: the processor is read again, under the lock, if the
\* subscription was saved after this step read it.
CurrentSubscription(w) ==
  IF event[w].seen = "outdated" THEN gift[event[w].about] ELSE event[w].seen

Outdated(w) ==
  [v \in Workers |-> IF v # w /\ event[v].about = event[w].about
                     THEN [event[v] EXCEPT !.seen = "outdated"] ELSE event[v]]

\* reconcileRemoteSubscription ends the attempt with its subscription.
SubscriptionStatus(status, subscription) ==
  IF subscription = "ended" THEN "CANCELLED" ELSE status

ApplySubscription(w) ==
  LET a == event[w].about
      s == CurrentSubscription(w)
  IN  /\ pc[w] = "apply" /\ event[w].kind \in {"completed", "subscription"}
      /\ attempt' = [attempt EXCEPT ![a].status =
                       SubscriptionStatus(IF event[w].kind = "completed"
                                          THEN CompletedStatus(@) ELSE @, s)]
      /\ holder' = IF s = "ended" THEN ReleaseReservation(a) ELSE holder
      /\ EndEvent(w, Outdated(w))
      /\ UNCHANGED <<now, remote, job>>

\* A failed event rolls back and is retried; a crash does the same.
StopEvent(w) ==
  /\ pc[w] # "idle"
  /\ inbox' = inbox \cup {<<event[w].kind, event[w].about>>}
  /\ EndEvent(w, event)
  /\ UNCHANGED <<now, stored, session, gift, late, job>>

(***************************************************************************)
(* The processor, the donor and time.                                      *)
(***************************************************************************)

\* A call that timed out runs after all, or never does.
LateCreate(a) ==
  /\ \/ Opens(a)
     \/ UNCHANGED session
  /\ late' = late \ {a}
  /\ UNCHANGED <<now, stored, gift, inbox, pc, job, event>>

\* The donor pays an open session, which starts the subscription.
DonorPays(a) ==
  /\ session[a] = "open"
  /\ session' = [session EXCEPT ![a] = "complete"]
  /\ gift' = [gift EXCEPT ![a] = "live"]
  /\ inbox' = inbox \cup {<<"completed", a>>, <<"subscription", a>>}
  /\ UNCHANGED <<now, stored, late, pc, job, event>>

\* An unpaid session lapses.
SessionLapses(a) ==
  /\ session[a] = "open" /\ now >= Expiry(a)
  /\ session' = [session EXCEPT ![a] = "expired"]
  /\ inbox' = inbox \cup {<<"expired", a>>}
  /\ UNCHANGED <<now, stored, gift, late, pc, job, event>>

\* A subscription ends: cancelled, or its payments failed for good.
SubscriptionEnds(a) ==
  /\ gift[a] = "live"
  /\ gift' = [gift EXCEPT ![a] = "ended"]
  /\ inbox' = inbox \cup {<<"subscription", a>>}
  /\ UNCHANGED <<now, stored, session, late, pc, job, event>>

\* A request answers or is cut off within its time.
Tick ==
  /\ now < MaxTime
  /\ \A p \in Requests : pc[p] # "idle" => now < job[p].at + RequestTime
  /\ now' = now + 1
  /\ UNCHANGED <<stored, remote, pc, job, event>>

(***************************************************************************)
(* The specification.                                                      *)
(***************************************************************************)

Init ==
  /\ now = 1
  /\ attempt = [a \in Attempts |-> NoAttempt]
  /\ holder = None
  /\ session = [a \in Attempts |-> None]
  /\ gift = [a \in Attempts |-> None]
  /\ late = {}
  /\ inbox = {}
  /\ pc = [x \in Requests \cup Workers |-> "idle"]
  /\ job = [p \in Requests |-> NoJob]
  /\ event = [w \in Workers |-> NoEvent]

RequestStep(p) ==
  \/ \E a \in Attempts, terms \in Terms : Begin(p, a, terms)
  \/ \E a \in Attempts : Refuse(p, a)
  \/ PrepareAnswered(p)
  \/ PrepareResumed(p)
  \/ PrepareNew(p)
  \/ PrepareReuse(p)
  \/ PrepareStale(p)
  \/ ExpireCheckout(p)
  \/ Retire(p)
  \/ CreateCheckout(p)
  \/ CreateTimesOut(p)
  \/ AcknowledgeCheckout(p)
  \/ Stop(p)

WorkerStep(w) ==
  \/ \E e \in inbox : BeginEvent(w, e)
  \/ Prefetch(w)
  \/ ApplyExpired(w)
  \/ ApplySubscription(w)
  \/ StopEvent(w)

ProcessorStep ==
  \/ \E a \in late : LateCreate(a)
  \/ \E a \in Attempts : DonorPays(a) \/ SessionLapses(a) \/ SubscriptionEnds(a)

Next ==
  \/ \E p \in Requests : RequestStep(p)
  \/ \E w \in Workers : WorkerStep(w)
  \/ ProcessorStep
  \/ Tick

Spec == Init /\ [][Next]_vars

(***************************************************************************)
(* Properties.                                                             *)
(***************************************************************************)

RequestStates == {"idle", "prepare", "expire", "retire", "create", "acknowledge"}
WorkerStates  == {"idle", "fetch", "apply"}

TypeOK ==
  /\ now \in Nat
  /\ attempt \in [Attempts -> Attempt]
  /\ holder \in Attempts \cup {None}
  /\ session \in [Attempts -> {None, "open", "complete", "expired"}]
  /\ gift \in [Attempts -> {None, "live", "ended"}]
  /\ late \subseteq Attempts
  /\ inbox \subseteq Kinds \X Attempts
  /\ pc \in [Requests \cup Workers -> RequestStates \cup WorkerStates]
  /\ \A p \in Requests : /\ pc[p] \in RequestStates
                         /\ pc[p] # "idle" => job[p].id \in Attempts
                         /\ pc[p] \in {"expire", "retire"} => job[p].stale \in Attempts
  /\ \A w \in Workers : /\ pc[w] \in WorkerStates
                        /\ pc[w] # "idle" => /\ event[w].kind \in Kinds
                                             /\ event[w].about \in Attempts
  /\ job \in [Requests -> Job]
  /\ event \in [Workers -> Held]

\* Whether a donor could pay, or is paying, for attempt a.
Chargeable(a) == session[a] = "open" \/ gift[a] = "live"

\* A donor has at most one monthly gift: never two sessions that can be paid,
\* two live subscriptions, or one of each, whatever requests race, fail or are
\* retried and in whatever order events arrive.
OneMonthlyGift ==
  \A a, b \in Attempts : Chargeable(a) /\ Chargeable(b) => a = b

\* What the gift of attempt a can still do, for RecurringSlot.
GiftState(a) ==
  CASE session[a] = None -> "unopened"
    [] session[a] = "open" -> "payable"
    [] gift[a] = "live" -> "live"
    [] OTHER -> "over"

Slot == INSTANCE RecurringSlot WITH slot <- holder,
                                    state <- [a \in Attempts |-> GiftState(a)]

\* The checkout implements the one-slot specification: a session opens, is paid
\* and ends only while its attempt holds the reservation, which is released
\* only when neither the session nor its subscription can charge any more.
ImplementsSlot == Slot!Spec

\* The stored view is right: an attempt that is EXPIRED cannot charge any more,
\* and one that is CANCELLED had a subscription that ended.
ClosedIsOver ==
  \A a \in Attempts :
    /\ attempt[a].status = "EXPIRED" => session[a] = "expired"
    /\ attempt[a].status = "CANCELLED" => gift[a] = "ended"

\* Events applied late or out of order, and late acknowledgements, never take
\* an attempt back: an expired or cancelled one stays so, a completed one can
\* only be cancelled.
NeverReopened ==
  [][\A a \in Attempts :
       /\ attempt[a].status \in {"EXPIRED", "CANCELLED"}
          => attempt'[a].status = attempt[a].status
       /\ attempt[a].status = "COMPLETE"
          => attempt'[a].status \in {"COMPLETE", "CANCELLED"}]_vars

(***************************************************************************)
(* Liveness. The clock advances, the processor lapses sessions that are    *)
(* due and the worker retries an event until it is applied.                *)
(***************************************************************************)

Fairness ==
  /\ WF_vars(Tick)
  /\ \A p \in Requests : WF_vars(RequestStep(p) /\ pc[p] # "idle")
  /\ \A a \in Attempts : WF_vars(SessionLapses(a))
  /\ \A w \in Workers :
       /\ WF_vars(\E e \in inbox : BeginEvent(w, e))
       /\ SF_vars(Prefetch(w))
       /\ SF_vars(ApplyExpired(w) \/ ApplySubscription(w))

FairSpec == Spec /\ Fairness

\* A gift the donor paid for is recorded, even if the request that opened its
\* session never learned of it.
PaidIsRecorded ==
  \A a \in Attempts :
    gift[a] # None ~> attempt[a].status \in {"COMPLETE", "CANCELLED"}

\* An open session nobody pays, and a subscription that ends, free the slot.
OverFreesSlot ==
  \A a \in Attempts : Recorded(a) /\ session[a] # None ~> gift[a] = "live" \/ holder # a

\* What the comment on checkoutLifetime says: an unpaid checkout holds the
\* donor's reservation only until it expires.
UnpaidReleases ==
  \A a \in Attempts : holder = a ~> gift[a] # None \/ holder # a
=============================================================================
