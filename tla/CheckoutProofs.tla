--------------------------- MODULE CheckoutProofs ---------------------------
(***************************************************************************)
(* Theorems about Checkout, for every set of attempts, requests and        *)
(* workers and for every value of its times and budgets: its types, the    *)
(* safety properties of the recurring slot, that it implements             *)
(* RecurringSlot, and that its restarts stay within their budget.          *)
(***************************************************************************)
EXTENDS CheckoutRestarts, FiniteSetTheorems, TLAPS

(***************************************************************************)
(* The inductive invariant.                                                *)
(***************************************************************************)

Over(a) == session[a] = "expired" \/ gift[a] = "ended"

\* Nothing exists at the processor, or in the slot, for an unrecorded attempt.
NothingUnrecorded ==
  \A a \in Attempts :
    ~Recorded(a) => session[a] = None /\ a \notin late /\ holder # a

\* A subscription comes from a paid session.
GiftOfPaid == \A a \in Attempts : gift[a] # None <=> session[a] = "complete"

\* An attempt that can still charge, now or later, holds the slot.
UnlessOverHolds == \A a \in Attempts : Recorded(a) /\ ~Over(a) => holder = a

UrlOfSession == \A a \in Attempts : attempt[a].url => session[a] # None

\* What a request knows of the attempts it works on.
RequestKnows ==
  \A p \in Requests :
    /\ pc[p] \in {"create", "acknowledge"} => Recorded(job[p].id)
    /\ pc[p] = "acknowledge" => session[job[p].id] # None
    /\ pc[p] = "expire" => session[job[p].stale] # None
    /\ pc[p] = "retire" => session[job[p].stale] = "expired"

\* An event reports something that has happened.
Happened(kind, a) ==
  IF kind = "expired" THEN session[a] = "expired" ELSE gift[a] # None

EventsHappened == \A e \in inbox : Happened(e[1], e[2])

WorkerKnows ==
  \A w \in Workers :
    pc[w] # "idle" => /\ Happened(event[w].kind, event[w].about)
                      /\ event[w].seen = "ended" => gift[event[w].about] = "ended"

SlotInv ==
  /\ NothingUnrecorded
  /\ GiftOfPaid
  /\ UnlessOverHolds
  /\ UrlOfSession
  /\ ClosedIsOver
  /\ RequestKnows
  /\ EventsHappened
  /\ WorkerKnows

\* The retries prepare has left, which keep the type of job.
HasTries == \A p \in Requests : pc[p] = "prepare" => job[p].tries > 0

Inv == TypeOK /\ HasTries /\ SlotInv

(***************************************************************************)
(* Types.                                                                  *)
(***************************************************************************)

\* The times and budgets are natural numbers.
LEMMA TimeTypes ==
  /\ Lifetime \in Nat /\ PrepareTries \in Nat /\ RestartBudget \in Nat
  /\ MaxTime \in Nat /\ PrepareTries > 0
BY TimesAssumption

\* The default values have the types of what they stand for.
LEMMA DefaultTypes == NoAttempt \in Attempt /\ NoJob \in Job /\ NoEvent \in Held
<1>1. NoAttempt \in Attempt
  BY DEF NoAttempt, Attempt, AttemptStatus
<1>2. NoJob \in Job
  BY TimeTypes DEF NoJob, Job
<1>3. NoEvent \in Held
  BY DEF NoEvent, Held, Seen
<1> QED BY <1>1, <1>2, <1>3

\* Requests and workers are told apart.
LEMMA Actors ==
  /\ \A p \in Requests : p \in Requests \cup Workers /\ p \notin Workers
  /\ \A w \in Workers : w \in Requests \cup Workers /\ w \notin Requests
BY ActorsAssumption

\* Choosing and dropping the attempt to retire keep the type of a job.
LEMMA JobTypes ==
  ASSUME NEW j \in Job, NEW a \in Attempts
  PROVE  /\ j.tries > 0 => [j EXCEPT !.stale = a, !.tries = @ - 1] \in Job
         /\ [j EXCEPT !.stale = None] \in Job
         /\ [j EXCEPT !.stale = None].tries = j.tries
         /\ [j EXCEPT !.stale = None].id = j.id
         /\ [j EXCEPT !.stale = a, !.tries = @ - 1].id = j.id
         /\ [j EXCEPT !.stale = a, !.tries = @ - 1].stale = a
<1>1. j.tries \in 0 .. PrepareTries /\ j.tries \in Int
  BY TimeTypes DEF Job
<1>2. ASSUME j.tries > 0 PROVE j.tries - 1 \in 0 .. PrepareTries
  BY <1>1, <1>2, TimeTypes
<1> QED BY <1>1, <1>2 DEF Job

\* The initial state is well typed.
LEMMA InitType == Init => TypeOK
BY DefaultTypes, Actors DEF Init, TypeOK, RequestStates, WorkerStates

\* Every step of a request keeps the types.
LEMMA RequestType ==
  ASSUME TypeOK, HasTries, NEW p \in Requests, RequestStep(p)
  PROVE  TypeOK' /\ HasTries'
<1> USE DefaultTypes, Actors DEF TypeOK, HasTries, RequestStates, WorkerStates
<1>e. ASSUME End(p)
      PROVE  /\ pc' \in [Requests \cup Workers -> RequestStates \cup WorkerStates]
             /\ pc'[p] = "idle" /\ \A x \in (Requests \cup Workers) \ {p} : pc'[x] = pc[x]
             /\ job' \in [Requests -> Job]
             /\ \A q \in Requests \ {p} : job'[q] = job[q]
  BY <1>e DEF End
<1>1. ASSUME NEW a \in Attempts, NEW terms \in Terms, Begin(p, a, terms)
      PROVE  TypeOK' /\ HasTries'
  <2>1. [id |-> a, at |-> now, terms |-> terms, tries |-> PrepareTries, stale |-> None] \in Job
    BY TimeTypes DEF Job
  <2> QED BY <2>1, <1>1, TimeTypes DEF Begin, stored, remote
<1>2. ASSUME NEW a \in Attempts, Refuse(p, a) PROVE TypeOK' /\ HasTries'
  BY <1>2 DEF Refuse, vars, stored, remote
<1>3. CASE PrepareAnswered(p)
  BY <1>3, <1>e DEF PrepareAnswered, stored, remote
<1>4. CASE PrepareResumed(p)
  BY <1>4 DEF PrepareResumed, stored, remote
<1>5. CASE PrepareNew(p)
  <2>1. job[p].id \in Attempts /\ job[p] \in Job
    BY <1>5 DEF PrepareNew
  <2>2. [status |-> "PENDING", created |-> job[p].at, native |-> p \in Apps,
         terms |-> job[p].terms, url |-> FALSE] \in Attempt
    BY <2>1 DEF Job, Attempt, AttemptStatus
  <2> QED BY <2>1, <2>2, <1>5 DEF PrepareNew, ReserveRecurring, remote
<1>6. CASE PrepareReuse(p)
  BY <1>6, <1>e DEF PrepareReuse, HeldOpen, stored, remote
<1>7. CASE PrepareStale(p)
  <2>1. job[p] \in Job /\ job[p].tries > 0 /\ job[p].id \in Attempts /\ holder \in Attempts
    BY <1>7 DEF PrepareStale, HeldOpen
  <2>2. [job[p] EXCEPT !.stale = holder, !.tries = @ - 1] \in Job
    BY <2>1, JobTypes
  <2>3. job' = [job EXCEPT ![p] = [job[p] EXCEPT !.stale = holder, !.tries = @ - 1]]
    BY <1>7 DEF PrepareStale
  <2>4. job'[p].id \in Attempts /\ job'[p].stale \in Attempts
    <3> DEFINE j == [job[p] EXCEPT !.stale = holder, !.tries = @ - 1]
    <3>1. j.id = job[p].id /\ j.stale = holder
      BY <2>1, JobTypes
    <3>2. job'[p] = j
      BY <2>3
    <3> HIDE DEF j
    <3> QED BY <3>1, <3>2, <2>1
  <2>5. job' \in [Requests -> Job] /\ \A q \in Requests \ {p} : job'[q] = job[q]
    BY <2>2, <2>3
  <2> QED BY <2>1, <2>4, <2>5, <1>7 DEF PrepareStale, stored, remote
<1>8. CASE ExpireCheckout(p)
  <2>1. job[p].stale \in Attempts /\ "expired" \in Kinds
    BY <1>8 DEF ExpireCheckout, Kinds
  <2> QED BY <2>1, <1>e, <1>8 DEF ExpireCheckout, stored
<1>9. CASE Retire(p)
  <2>1. job[p].stale \in Attempts /\ job[p] \in Job
    BY <1>9 DEF Retire
  <2>3. attempt[job[p].stale] \in Attempt /\ ReleaseReservation(job[p].stale) \in Attempts \cup {None}
    BY <2>1 DEF ReleaseReservation
  <2>4. attempt' \in [Attempts -> Attempt] /\ holder' \in Attempts \cup {None}
    BY <2>1, <2>3, <1>9 DEF Retire, stored, Attempt, AttemptStatus
  <2>5. CASE End(p)
    BY <2>4, <2>5, <1>e, <1>9 DEF Retire, remote
  <2>6. CASE TriesLeft(p) /\ pc' = [pc EXCEPT ![p] = "prepare"]
             /\ job' = [job EXCEPT ![p].stale = None]
    <3>1. job' = [job EXCEPT ![p] = [job[p] EXCEPT !.stale = None]]
      BY <2>6
    <3>2. /\ job'[p] \in Job /\ job'[p].id = job[p].id /\ job'[p].tries = job[p].tries
          /\ job' \in [Requests -> Job] /\ \A q \in Requests \ {p} : job'[q] = job[q]
      BY <3>1, <2>1, JobTypes
    <3> QED BY <3>2, <2>4, <2>6, <1>9 DEF Retire, TriesLeft, remote
  <2> QED BY <2>5, <2>6, <1>9 DEF Retire
<1>10. CASE CreateCheckout(p)
  BY <1>10 DEF CreateCheckout, Opens, stored
<1>11. CASE CreateTimesOut(p)
  BY <1>11, <1>e DEF CreateTimesOut, stored
<1>12. CASE AcknowledgeCheckout(p)
  <2>1. job[p].id \in Attempts /\ attempt[job[p].id] \in Attempt
    BY <1>12 DEF AcknowledgeCheckout
  <2>2. attempt' \in [Attempts -> Attempt]
    BY <2>1, <1>12 DEF AcknowledgeCheckout, Acknowledged, Attempt, AttemptStatus
  <2> QED BY <2>1, <2>2, <1>e, <1>12 DEF AcknowledgeCheckout, remote
<1>13. CASE Stop(p)
  BY <1>13, <1>e DEF Stop, stored, remote
<1> QED BY <1>1, <1>2, <1>3, <1>4, <1>5, <1>6, <1>7, <1>8, <1>9, <1>10, <1>11, <1>12, <1>13,
           RequestStep(p) DEF RequestStep

\* Every step of a worker keeps the types.
LEMMA WorkerType ==
  ASSUME TypeOK, HasTries, NEW w \in Workers, WorkerStep(w)
  PROVE  TypeOK' /\ HasTries'
<1> USE DefaultTypes, Actors DEF TypeOK, HasTries, RequestStates, WorkerStates
<1>e. ASSUME NEW others \in [Workers -> Held], EndEvent(w, others)
      PROVE  /\ pc' \in [Requests \cup Workers -> RequestStates \cup WorkerStates]
             /\ pc'[w] = "idle" /\ \A x \in (Requests \cup Workers) \ {w} : pc'[x] = pc[x]
             /\ event' \in [Workers -> Held]
             /\ \A v \in Workers \ {w} : event'[v] = others[v]
  BY <1>e DEF EndEvent
<1>1. ASSUME NEW e \in inbox, BeginEvent(w, e) PROVE TypeOK' /\ HasTries'
  <2>1. e[1] \in Kinds /\ e[2] \in Attempts
    OBVIOUS
  <2>2. [kind |-> e[1], about |-> e[2], seen |-> None] \in Held
    BY <2>1 DEF Held, Seen
  <2> QED BY <2>1, <2>2, <1>1 DEF BeginEvent, stored
<1>2. CASE Prefetch(w)
  <2>1. event[w] \in Held /\ event[w].about \in Attempts
    BY <1>2 DEF Prefetch
  <2>2. event' \in [Workers -> Held]
        /\ \A v \in Workers : event'[v].kind = event[v].kind /\ event'[v].about = event[v].about
    BY <2>1, <1>2 DEF Prefetch, Held, Seen
  <2> QED BY <2>2, <1>2 DEF Prefetch, stored, remote
<1>3. CASE ApplyExpired(w)
  <2>1. event[w].about \in Attempts /\ attempt[event[w].about] \in Attempt
    BY <1>3 DEF ApplyExpired
  <2>2. attempt' \in [Attempts -> Attempt]
    BY <2>1, <1>3 DEF ApplyExpired, ExpiredStatus, Attempt, AttemptStatus
  <2>3. holder' \in Attempts \cup {None}
    BY <1>3 DEF ApplyExpired, ReleaseReservation
  <2> QED BY <2>2, <2>3, <1>3, <1>e DEF ApplyExpired, remote
<1>4. CASE ApplySubscription(w)
  <2>1. event[w].about \in Attempts /\ attempt[event[w].about] \in Attempt
    BY <1>4 DEF ApplySubscription
  <2>2. attempt' \in [Attempts -> Attempt]
    BY <2>1, <1>4 DEF ApplySubscription, SubscriptionStatus, CompletedStatus, Attempt, AttemptStatus
  <2>3. holder' \in Attempts \cup {None}
    BY <1>4 DEF ApplySubscription, ReleaseReservation
  <2>4. Outdated(w) \in [Workers -> Held]
        /\ \A v \in Workers : Outdated(w)[v].kind = event[v].kind
                              /\ Outdated(w)[v].about = event[v].about
    BY DEF Outdated, Held, Seen
  <2> QED BY <2>2, <2>3, <2>4, <1>4, <1>e DEF ApplySubscription, remote
<1>5. CASE StopEvent(w)
  <2>1. <<event[w].kind, event[w].about>> \in Kinds \X Attempts
    BY <1>5 DEF StopEvent
  <2> QED BY <2>1, <1>5, <1>e DEF StopEvent, stored
<1> QED BY <1>1, <1>2, <1>3, <1>4, <1>5, WorkerStep(w) DEF WorkerStep

\* Every step keeps the types.
LEMMA NextType == TypeOK /\ HasTries /\ [Next]_vars => TypeOK' /\ HasTries'
<1> SUFFICES ASSUME TypeOK, HasTries, [Next]_vars PROVE TypeOK' /\ HasTries'
  OBVIOUS
<1>1. CASE \E p \in Requests : RequestStep(p)
  BY <1>1, RequestType
<1>2. CASE \E w \in Workers : WorkerStep(w)
  BY <1>2, WorkerType
<1>3. ASSUME NEW a \in Attempts,
             (a \in late /\ LateCreate(a)) \/ DonorPays(a) \/ SessionLapses(a) \/ SubscriptionEnds(a)
      PROVE  TypeOK' /\ HasTries'
  BY <1>3 DEF TypeOK, HasTries, LateCreate, Opens, DonorPays, SessionLapses, SubscriptionEnds,
              Kinds, stored
<1>4. CASE Tick
  BY <1>4 DEF Tick, TypeOK, HasTries, stored, remote
<1>5. CASE UNCHANGED vars
  BY <1>5 DEF TypeOK, HasTries, vars, stored, remote
<1>6. ASSUME ProcessorStep PROVE TypeOK' /\ HasTries'
  <2>1. late \subseteq Attempts
    BY DEF TypeOK
  <2> QED BY <2>1, <1>3, <1>6 DEF ProcessorStep
<1> QED BY <1>1, <1>2, <1>4, <1>5, <1>6 DEF Next

\* Every reachable state is well typed; in particular prepare is never tried
\* more often than PrepareTries.
THEOREM TypeCorrect == Spec => []TypeOK
<1>1. Init => TypeOK /\ HasTries
  BY InitType, Actors DEF Init, HasTries
<1> QED BY <1>1, NextType, PTL DEF Spec

(***************************************************************************)
(* The invariant holds: one lemma for the steps of each actor.             *)
(***************************************************************************)

\* Steps that touch neither what is stored nor the processor keep the parts of
\* the invariant that speak of nothing else.
LEMMA StoredFrame ==
  ASSUME SlotInv, UNCHANGED <<stored, remote>>
  PROVE  /\ NothingUnrecorded' /\ GiftOfPaid' /\ UnlessOverHolds'
         /\ UrlOfSession' /\ ClosedIsOver' /\ EventsHappened'
BY DEF SlotInv, NothingUnrecorded, GiftOfPaid, UnlessOverHolds, UrlOfSession, ClosedIsOver,
       EventsHappened, Happened, Recorded, Over, stored, remote

\* A worker that does not move keeps what it knows: nothing that happened is
\* ever undone.
LEMMA WorkersKeep ==
  ASSUME TypeOK, SlotInv, UNCHANGED event,
         \A w \in Workers : pc'[w] = pc[w],
         \A a \in Attempts : /\ session[a] = "expired" => session'[a] = "expired"
                             /\ gift[a] # None => gift'[a] # None
                             /\ gift[a] = "ended" => gift'[a] = "ended"
  PROVE  WorkerKnows'
BY DEF TypeOK, SlotInv, WorkerKnows, Happened

\* Every step of a request keeps the invariant.
LEMMA RequestInv ==
  ASSUME Inv, NEW p \in Requests, RequestStep(p)
  PROVE  SlotInv'
<1> USE Actors DEF Inv
<1>t. TypeOK'
  BY RequestType
<1>e. ASSUME End(p)
      PROVE  /\ pc'[p] = "idle" /\ \A x \in (Requests \cup Workers) \ {p} : pc'[x] = pc[x]
             /\ \A q \in Requests \ {p} : job'[q] = job[q]
  BY <1>e DEF End, TypeOK
<1>r. ASSUME UNCHANGED <<stored, remote, event>>, RequestKnows',
             \A x \in (Requests \cup Workers) \ {p} : pc'[x] = pc[x]
      PROVE  SlotInv'
  <2>1. WorkerKnows'
    BY <1>r, WorkersKeep DEF remote
  <2> QED BY <2>1, <1>r, StoredFrame DEF SlotInv
<1>1. ASSUME NEW a \in Attempts, NEW terms \in Terms, Begin(p, a, terms)
      PROVE  SlotInv'
  <2>1. RequestKnows'
    BY <1>1 DEF Begin, SlotInv, RequestKnows, Recorded, TypeOK, stored, remote
  <2> QED BY <2>1, <1>1, <1>r DEF Begin, TypeOK
<1>2. ASSUME NEW a \in Attempts, Refuse(p, a) PROVE SlotInv'
  <2>1. RequestKnows'
    BY <1>2 DEF Refuse, SlotInv, RequestKnows, Recorded, vars, stored, remote
  <2> QED BY <2>1, <1>2, <1>r DEF Refuse, vars
<1>3. ASSUME PrepareAnswered(p) \/ PrepareReuse(p) \/ Stop(p) PROVE SlotInv'
  <2>1. End(p) /\ UNCHANGED <<stored, remote, event>>
    BY <1>3 DEF PrepareAnswered, PrepareReuse, Stop
  <2>2. RequestKnows'
    BY <2>1, <1>e DEF SlotInv, RequestKnows, Recorded, stored, remote
  <2> QED BY <2>1, <2>2, <1>e, <1>r
<1>4. CASE PrepareResumed(p)
  <2>1. RequestKnows'
    BY <1>4 DEF PrepareResumed, SlotInv, RequestKnows, Recorded, TypeOK, None, stored, remote
  <2> QED BY <2>1, <1>4, <1>r DEF PrepareResumed, TypeOK
<1>5. CASE PrepareNew(p)
  <2>1. /\ job[p].id \in Attempts /\ ~Recorded(job[p].id) /\ holder = None /\ holder' = job[p].id
        /\ attempt'[job[p].id].status = "PENDING" /\ attempt'[job[p].id].url = FALSE
        /\ \A a \in Attempts \ {job[p].id} : attempt'[a] = attempt[a]
    BY <1>5 DEF PrepareNew, ReserveRecurring, TypeOK
  <2>2. UNCHANGED <<session, gift, late, inbox, event, job>>
    BY <1>5 DEF PrepareNew, remote
  <2>3. /\ NothingUnrecorded' /\ GiftOfPaid' /\ UnlessOverHolds' /\ UrlOfSession' /\ ClosedIsOver'
    BY <2>1, <2>2, AttemptsAssumption
       DEF SlotInv, NothingUnrecorded, GiftOfPaid, UnlessOverHolds, UrlOfSession, ClosedIsOver,
           Recorded, Over, None
  <2>4. EventsHappened'
    BY <2>2 DEF SlotInv, EventsHappened, Happened
  <2>5. RequestKnows'
    BY <2>1, <2>2, <1>5 DEF PrepareNew, SlotInv, RequestKnows, Recorded, TypeOK, None
  <2>6. WorkerKnows'
    BY <2>2, <1>5, WorkersKeep DEF PrepareNew, TypeOK
  <2> QED BY <2>3, <2>4, <2>5, <2>6 DEF SlotInv
<1>6. CASE PrepareStale(p)
  <2>1. /\ UNCHANGED <<stored, remote, event>> /\ pc'[p] = "expire" /\ job'[p].stale = holder
        /\ \A x \in (Requests \cup Workers) \ {p} : pc'[x] = pc[x]
        /\ \A q \in Requests \ {p} : job'[q] = job[q]
    BY <1>6 DEF PrepareStale, HeldOpen, TypeOK, Job
  <2>2. holder \in Attempts /\ session[holder] # None
    BY <1>6 DEF PrepareStale, HeldOpen, TypeOK, SlotInv, UrlOfSession
  <2>3. RequestKnows'
    BY <2>1, <2>2 DEF SlotInv, RequestKnows, Recorded, stored, remote
  <2> QED BY <2>1, <2>3, <1>r
<1>7. CASE ExpireCheckout(p)
  <2> DEFINE a == job[p].stale
  <2>1. /\ a \in Attempts /\ session[a] # None /\ UNCHANGED <<attempt, holder, gift, late, event>>
        /\ \A x \in (Requests \cup Workers) \ {p} : pc'[x] = pc[x]
        /\ \A q \in Requests \ {p} : job'[q] = job[q]
    BY <1>7, <1>e DEF ExpireCheckout, TypeOK, SlotInv, RequestKnows, stored
  <2>2. /\ session' = session \/ (session[a] = "open" /\ session' = [session EXCEPT ![a] = "expired"])
        /\ session[a] \in {"open", "complete", "expired"}
        /\ inbox' = inbox \/ (inbox' = inbox \cup {<<"expired", a>>} /\ session'[a] = "expired")
    BY <2>1, <1>7 DEF ExpireCheckout, TypeOK, None
  <2>3. \/ pc'[p] = "idle"
        \/ pc'[p] = "retire" /\ job'[p].stale = a /\ session'[a] = "expired"
    BY <2>1, <2>2, <1>7, <1>e DEF ExpireCheckout, ReportedExpired, TypeOK
  <2> HIDE DEF a
  <2>4. \A b \in Attempts : /\ session[b] = "expired" => session'[b] = "expired"
                            /\ (session[b] = None) <=> (session'[b] = None)
                            /\ (session[b] = "complete") <=> (session'[b] = "complete")
    BY <2>1, <2>2 DEF TypeOK, None
  <2>5. /\ NothingUnrecorded' /\ GiftOfPaid' /\ UnlessOverHolds' /\ UrlOfSession' /\ ClosedIsOver'
    BY <2>1, <2>4 DEF SlotInv, NothingUnrecorded, GiftOfPaid, UnlessOverHolds, UrlOfSession,
                      ClosedIsOver, Recorded, Over
  <2>6. EventsHappened'
    BY <2>1, <2>2, <2>4 DEF SlotInv, EventsHappened, Happened, TypeOK
  <2>7. RequestKnows'
    BY <2>1, <2>3, <2>4, <1>t DEF SlotInv, RequestKnows, Recorded, TypeOK
  <2>8. WorkerKnows'
    BY <2>1, <2>4, WorkersKeep
  <2> QED BY <2>5, <2>6, <2>7, <2>8 DEF SlotInv
<1>8. CASE Retire(p)
  <2> DEFINE a == job[p].stale
  <2>1. /\ a \in Attempts /\ session[a] = "expired" /\ UNCHANGED <<session, gift, late, inbox, event>>
        /\ \A x \in (Requests \cup Workers) \ {p} : pc'[x] = pc[x]
        /\ \A q \in Requests \ {p} : job'[q] = job[q]
        /\ pc'[p] \in {"idle", "prepare"}
    BY <1>8, <1>e DEF Retire, TypeOK, SlotInv, RequestKnows, remote
  <2>2. /\ holder' = holder \/ (holder = a /\ holder' = None)
        /\ \A b \in Attempts \ {a} : attempt'[b] = attempt[b]
        /\ attempt'[a].url = attempt[a].url
        /\ attempt'[a].status = attempt[a].status \/ attempt'[a].status = "EXPIRED"
    BY <2>1, <1>8 DEF Retire, ReleaseReservation, TypeOK, Attempt, stored
  <2>3. Recorded(a)
    BY <2>1 DEF SlotInv, NothingUnrecorded, None
  <2> HIDE DEF a
  <2>4. \A b \in Attempts : Recorded(b)' <=> Recorded(b)
    BY <2>1, <2>2, <2>3 DEF Recorded, None
  <2>5. NothingUnrecorded' /\ GiftOfPaid' /\ UnlessOverHolds' /\ UrlOfSession'
    BY <2>1, <2>2, <2>3, <2>4, AttemptsAssumption
       DEF SlotInv, NothingUnrecorded, GiftOfPaid, UnlessOverHolds, UrlOfSession, Over
  <2>6. ClosedIsOver'
    BY <2>1, <2>2 DEF SlotInv, ClosedIsOver
  <2>7. EventsHappened'
    BY <2>1 DEF SlotInv, EventsHappened, Happened
  <2>8. RequestKnows'
    BY <2>1, <2>4, <1>t DEF SlotInv, RequestKnows, TypeOK
  <2>9. WorkerKnows'
    BY <2>1, WorkersKeep
  <2> QED BY <2>5, <2>6, <2>7, <2>8, <2>9 DEF SlotInv
<1>9. CASE CreateCheckout(p)
  <2> DEFINE a == job[p].id
  <2>1. /\ a \in Attempts /\ Recorded(a) /\ UNCHANGED <<attempt, holder, gift, late, inbox, event, job>>
        /\ \A x \in (Requests \cup Workers) \ {p} : pc'[x] = pc[x]
        /\ pc'[p] = "acknowledge"
    BY <1>9 DEF CreateCheckout, TypeOK, SlotInv, RequestKnows, stored
  <2>2. \/ session[a] # None /\ session' = session
        \/ session[a] = None /\ session' = [session EXCEPT ![a] = "open"]
    <3>1. session' = [session EXCEPT ![a] = IF @ = None THEN "open" ELSE @]
      BY <1>9 DEF CreateCheckout, Opens
    <3>2. session \in [Attempts -> {None, "open", "complete", "expired"}]
      BY DEF TypeOK
    <3> HIDE DEF a
    <3> QED BY <2>1, <3>1, <3>2
  <2> HIDE DEF a
  <2>3. \A b \in Attempts : /\ (session[b] = "expired") <=> (session'[b] = "expired")
                            /\ (session[b] = "complete") <=> (session'[b] = "complete")
                            /\ session[b] # None => session'[b] # None
                            /\ b # a => session'[b] = session[b]
    BY <2>1, <2>2 DEF TypeOK, None
  <2>4. NothingUnrecorded' /\ GiftOfPaid' /\ UnlessOverHolds' /\ UrlOfSession' /\ ClosedIsOver'
    BY <2>1, <2>3 DEF SlotInv, NothingUnrecorded, GiftOfPaid, UnlessOverHolds, UrlOfSession,
                      ClosedIsOver, Recorded, Over
  <2>5. EventsHappened'
    BY <2>1, <2>3 DEF SlotInv, EventsHappened, Happened, TypeOK
  <2>6. session'[a] # None
    BY <2>1, <2>2 DEF TypeOK, None
  <2>7. RequestKnows'
    BY <2>1, <2>3, <2>6, <1>t DEF SlotInv, RequestKnows, Recorded, TypeOK, a
  <2>8. WorkerKnows'
    BY <2>1, <2>3, WorkersKeep
  <2> QED BY <2>4, <2>5, <2>7, <2>8 DEF SlotInv
<1>10. CASE CreateTimesOut(p)
  <2>1. /\ job[p].id \in Attempts /\ Recorded(job[p].id)
        /\ UNCHANGED <<attempt, holder, session, gift, inbox, event>>
        /\ late' = late \cup {job[p].id}
    BY <1>10 DEF CreateTimesOut, TypeOK, SlotInv, RequestKnows, stored
  <2>2. NothingUnrecorded' /\ GiftOfPaid' /\ UnlessOverHolds' /\ UrlOfSession' /\ ClosedIsOver'
        /\ EventsHappened'
    BY <2>1 DEF SlotInv, NothingUnrecorded, GiftOfPaid, UnlessOverHolds, UrlOfSession, ClosedIsOver,
                EventsHappened, Happened, Recorded, Over
  <2>3. RequestKnows'
    BY <2>1, <1>10, <1>e DEF CreateTimesOut, SlotInv, RequestKnows, Recorded
  <2>4. WorkerKnows'
    BY <2>1, <1>10, <1>e, WorkersKeep DEF CreateTimesOut
  <2> QED BY <2>2, <2>3, <2>4 DEF SlotInv
<1>11. CASE AcknowledgeCheckout(p)
  <2> DEFINE a == job[p].id
  <2>1. /\ a \in Attempts /\ Recorded(a) /\ session[a] # None
        /\ UNCHANGED <<holder, session, gift, late, inbox, event>>
    BY <1>11 DEF AcknowledgeCheckout, TypeOK, SlotInv, RequestKnows, remote
  <2>2. /\ \A b \in Attempts \ {a} : attempt'[b] = attempt[b]
        /\ \/ attempt'[a].status = attempt[a].status
           \/ attempt[a].status = "PENDING" /\ attempt'[a].status = "OPEN"
    BY <2>1, <1>11 DEF AcknowledgeCheckout, Acknowledged, TypeOK, Attempt
  <2> HIDE DEF a
  <2>3. \A b \in Attempts : Recorded(b)' <=> Recorded(b)
    BY <2>1, <2>2 DEF Recorded, None
  <2>4. NothingUnrecorded' /\ GiftOfPaid' /\ UnlessOverHolds' /\ UrlOfSession' /\ ClosedIsOver'
    BY <2>1, <2>2, <2>3 DEF SlotInv, NothingUnrecorded, GiftOfPaid, UnlessOverHolds, UrlOfSession,
                            ClosedIsOver, Over
  <2>5. EventsHappened'
    BY <2>1 DEF SlotInv, EventsHappened, Happened
  <2>6. RequestKnows'
    BY <2>1, <2>3, <1>11, <1>e, <1>t DEF AcknowledgeCheckout, SlotInv, RequestKnows, TypeOK
  <2>7. WorkerKnows'
    BY <2>1, <1>11, <1>e, WorkersKeep DEF AcknowledgeCheckout
  <2> QED BY <2>4, <2>5, <2>6, <2>7 DEF SlotInv
<1> QED BY <1>1, <1>2, <1>3, <1>4, <1>5, <1>6, <1>7, <1>8, <1>9, <1>10, <1>11,
           RequestStep(p) DEF RequestStep

\* Every step of a worker keeps the invariant.
LEMMA WorkerInv ==
  ASSUME Inv, NEW w \in Workers, WorkerStep(w)
  PROVE  SlotInv'
<1> USE Actors DEF Inv
<1>t. TypeOK'
  BY WorkerType
<1>e. ASSUME NEW others \in [Workers -> Held], EndEvent(w, others)
      PROVE  /\ pc'[w] = "idle" /\ \A x \in (Requests \cup Workers) \ {w} : pc'[x] = pc[x]
             /\ \A v \in Workers \ {w} : event'[v] = others[v]
  BY <1>e DEF EndEvent, TypeOK
\* Requests do not notice a worker that leaves the processor alone and records
\* no attempt anew.
<1>r. ASSUME UNCHANGED <<session, job>>, \A p \in Requests : pc'[p] = pc[p],
             \A a \in Attempts : Recorded(a) => Recorded(a)'
      PROVE  RequestKnows'
  BY <1>r DEF SlotInv, RequestKnows, TypeOK
<1>1. ASSUME NEW e \in inbox, BeginEvent(w, e) PROVE SlotInv'
  <2>1. /\ UNCHANGED <<attempt, holder, session, gift, late, job>>
        /\ inbox' \subseteq inbox
        /\ \A x \in (Requests \cup Workers) \ {w} : pc'[x] = pc[x]
        /\ \A v \in Workers \ {w} : event'[v] = event[v]
        /\ event'[w].kind = e[1] /\ event'[w].about = e[2] /\ event'[w].seen = None
    BY <1>1 DEF BeginEvent, TypeOK, stored
  <2>2. NothingUnrecorded' /\ GiftOfPaid' /\ UnlessOverHolds' /\ UrlOfSession' /\ ClosedIsOver'
    BY <2>1 DEF SlotInv, NothingUnrecorded, GiftOfPaid, UnlessOverHolds, UrlOfSession, ClosedIsOver,
                Recorded, Over
  <2>3. EventsHappened'
    BY <2>1 DEF SlotInv, EventsHappened, Happened
  <2>4. RequestKnows'
    BY <2>1, <1>r DEF Recorded
  <2>5. WorkerKnows'
    BY <2>1 DEF SlotInv, WorkerKnows, EventsHappened, Happened, None
  <2> QED BY <2>2, <2>3, <2>4, <2>5 DEF SlotInv
<1>2. CASE Prefetch(w)
  <2>1. /\ UNCHANGED <<stored, remote, job>> /\ pc[w] = "fetch"
        /\ \A x \in (Requests \cup Workers) \ {w} : pc'[x] = pc[x]
        /\ \A v \in Workers \ {w} : event'[v] = event[v]
        /\ event'[w].kind = event[w].kind /\ event'[w].about = event[w].about
        /\ event'[w].seen = "outdated" \/ event'[w].seen = gift[event[w].about]
    BY <1>2 DEF Prefetch, TypeOK, Held
  <2>2. RequestKnows'
    BY <2>1, <1>r DEF Recorded, stored, remote
  <2>3. WorkerKnows'
    BY <2>1 DEF SlotInv, WorkerKnows, Happened, remote
  <2> QED BY <2>1, <2>2, <2>3, StoredFrame DEF SlotInv
<1>3. CASE ApplyExpired(w)
  <2> DEFINE a == event[w].about
  <2>1. /\ a \in Attempts /\ session[a] = "expired"
        /\ UNCHANGED <<session, gift, late, inbox, job>>
        /\ \A x \in (Requests \cup Workers) \ {w} : pc'[x] = pc[x]
        /\ \A v \in Workers \ {w} : event'[v] = event[v]
        /\ pc'[w] = "idle"
    BY <1>3, <1>e DEF ApplyExpired, TypeOK, SlotInv, WorkerKnows, Happened, remote
  <2>2. /\ holder' = holder \/ (holder = a /\ holder' = None)
        /\ \A b \in Attempts \ {a} : attempt'[b] = attempt[b]
        /\ attempt'[a].url = attempt[a].url
        /\ attempt'[a].status = attempt[a].status \/ attempt'[a].status = "EXPIRED"
    BY <2>1, <1>3 DEF ApplyExpired, ExpiredStatus, ReleaseReservation, TypeOK, Attempt
  <2> HIDE DEF a
  <2>3. \A b \in Attempts : Recorded(b)' <=> Recorded(b)
    BY <2>1, <2>2 DEF Recorded, None, SlotInv, NothingUnrecorded
  <2>4. NothingUnrecorded' /\ GiftOfPaid' /\ UnlessOverHolds' /\ UrlOfSession'
    BY <2>1, <2>2, <2>3, AttemptsAssumption
       DEF SlotInv, NothingUnrecorded, GiftOfPaid, UnlessOverHolds, UrlOfSession, Over
  <2>5. ClosedIsOver'
    BY <2>1, <2>2 DEF SlotInv, ClosedIsOver
  <2>6. EventsHappened'
    BY <2>1 DEF SlotInv, EventsHappened, Happened
  <2>7. RequestKnows'
    BY <2>1, <2>3, <1>r
  <2>8. WorkerKnows'
    BY <2>1 DEF SlotInv, WorkerKnows, Happened
  <2> QED BY <2>4, <2>5, <2>6, <2>7, <2>8 DEF SlotInv
<1>4. CASE ApplySubscription(w)
  <2> DEFINE a == event[w].about
             s == CurrentSubscription(w)
  <2>1. /\ a \in Attempts /\ gift[a] # None
        /\ UNCHANGED <<session, gift, late, inbox, job>>
        /\ s = "ended" => gift[a] = "ended"
    BY <1>4 DEF ApplySubscription, CurrentSubscription, TypeOK, SlotInv, WorkerKnows, Happened, remote
  <2>2. Outdated(w) \in [Workers -> Held]
        /\ \A v \in Workers : /\ Outdated(w)[v].kind = event[v].kind
                              /\ Outdated(w)[v].about = event[v].about
                              /\ Outdated(w)[v].seen = "ended" => event[v].seen = "ended"
    BY DEF Outdated, Held, Seen, TypeOK
  <2>3. /\ \A x \in (Requests \cup Workers) \ {w} : pc'[x] = pc[x]
        /\ \A v \in Workers \ {w} : event'[v] = Outdated(w)[v]
        /\ pc'[w] = "idle"
    BY <2>2, <1>4, <1>e DEF ApplySubscription
  <2>4. /\ holder' = holder \/ (holder = a /\ holder' = None /\ s = "ended")
        /\ \A b \in Attempts \ {a} : attempt'[b] = attempt[b]
        /\ attempt'[a].url = attempt[a].url
        /\ \/ attempt'[a].status = attempt[a].status
           \/ attempt'[a].status = "COMPLETE"
           \/ attempt'[a].status = "CANCELLED" /\ s = "ended"
    BY <2>1, <1>4 DEF ApplySubscription, SubscriptionStatus, CompletedStatus, ReleaseReservation,
                      TypeOK, Attempt
  <2> HIDE DEF a, s
  <2>5. \A b \in Attempts : Recorded(b)' <=> Recorded(b)
    BY <2>1, <2>4 DEF Recorded, None, SlotInv, NothingUnrecorded, GiftOfPaid
  <2>6. NothingUnrecorded' /\ GiftOfPaid' /\ UnlessOverHolds' /\ UrlOfSession'
    BY <2>1, <2>4, <2>5, AttemptsAssumption
       DEF SlotInv, NothingUnrecorded, GiftOfPaid, UnlessOverHolds, UrlOfSession, Over
  <2>7. ClosedIsOver'
    BY <2>1, <2>4 DEF SlotInv, ClosedIsOver
  <2>8. EventsHappened'
    BY <2>1 DEF SlotInv, EventsHappened, Happened
  <2>9. RequestKnows'
    BY <2>1, <2>3, <2>5, <1>r
  <2>10. WorkerKnows'
    BY <2>1, <2>2, <2>3 DEF SlotInv, WorkerKnows, Happened
  <2> QED BY <2>6, <2>7, <2>8, <2>9, <2>10 DEF SlotInv
<1>5. CASE StopEvent(w)
  <2>1. /\ UNCHANGED <<attempt, holder, session, gift, late, job>>
        /\ inbox' = inbox \cup {<<event[w].kind, event[w].about>>}
        /\ Happened(event[w].kind, event[w].about)
        /\ \A x \in (Requests \cup Workers) \ {w} : pc'[x] = pc[x]
        /\ \A v \in Workers \ {w} : event'[v] = event[v]
        /\ pc'[w] = "idle"
    BY <1>5, <1>e DEF StopEvent, TypeOK, SlotInv, WorkerKnows, stored
  <2>2. NothingUnrecorded' /\ GiftOfPaid' /\ UnlessOverHolds' /\ UrlOfSession' /\ ClosedIsOver'
    BY <2>1 DEF SlotInv, NothingUnrecorded, GiftOfPaid, UnlessOverHolds, UrlOfSession, ClosedIsOver,
                Recorded, Over
  <2>3. EventsHappened'
    BY <2>1 DEF SlotInv, EventsHappened, Happened
  <2>4. RequestKnows'
    BY <2>1, <1>r DEF Recorded
  <2>5. WorkerKnows'
    BY <2>1 DEF SlotInv, WorkerKnows, Happened
  <2> QED BY <2>2, <2>3, <2>4, <2>5 DEF SlotInv
<1> QED BY <1>1, <1>2, <1>3, <1>4, <1>5, WorkerStep(w) DEF WorkerStep

\* What a step of the processor may do to the sessions and the gifts.
Advances ==
  \A a \in Attempts :
    /\ session[a] = "expired" => session'[a] = "expired"
    /\ session[a] # None => session'[a] # None
    /\ gift[a] # None => gift'[a] # None
    /\ gift[a] = "ended" => gift'[a] = "ended"
    /\ ~Recorded(a) => session'[a] = None /\ a \notin late'

\* The processor only moves forward, and every event tells what happened.
LEMMA ProcessorAdvances ==
  ASSUME Inv, ProcessorStep
  PROVE  Advances /\ GiftOfPaid' /\ EventsHappened'
<1> USE DEF Inv
<1>1. ASSUME NEW a \in late, LateCreate(a) PROVE Advances /\ GiftOfPaid' /\ EventsHappened'
  <2>1. /\ a \in Attempts /\ Recorded(a) /\ late' \subseteq late /\ UNCHANGED <<gift, inbox>>
    BY <1>1 DEF LateCreate, TypeOK, SlotInv, NothingUnrecorded
  <2>2. session' = session \/ (session[a] = None /\ session' = [session EXCEPT ![a] = "open"])
    <3>1. \/ session' = session
          \/ session' = [session EXCEPT ![a] = IF @ = None THEN "open" ELSE @]
      BY <1>1 DEF LateCreate, Opens
    <3>2. session \in [Attempts -> {None, "open", "complete", "expired"}]
      BY DEF TypeOK
    <3> QED BY <2>1, <3>1, <3>2
  <2> QED BY <2>1, <2>2 DEF Advances, TypeOK, SlotInv, NothingUnrecorded, GiftOfPaid,
                            EventsHappened, Happened, None
<1>2. ASSUME NEW a \in Attempts, DonorPays(a) PROVE Advances /\ GiftOfPaid' /\ EventsHappened'
  <2>1. /\ session[a] = "open" /\ session' = [session EXCEPT ![a] = "complete"]
        /\ gift' = [gift EXCEPT ![a] = "live"] /\ UNCHANGED late
        /\ inbox' = inbox \cup {<<"completed", a>>, <<"subscription", a>>}
    BY <1>2 DEF DonorPays
  <2>2. Recorded(a) /\ gift[a] = None
    BY <2>1 DEF SlotInv, NothingUnrecorded, GiftOfPaid, None
  <2>3. Advances /\ GiftOfPaid'
    BY <2>1, <2>2 DEF Advances, TypeOK, SlotInv, NothingUnrecorded, GiftOfPaid, None
  <2>4. EventsHappened'
    BY <2>1, <2>3 DEF Advances, TypeOK, SlotInv, EventsHappened, Happened, None
  <2> QED BY <2>3, <2>4
<1>3. ASSUME NEW a \in Attempts, SessionLapses(a) PROVE Advances /\ GiftOfPaid' /\ EventsHappened'
  <2>1. /\ session[a] = "open" /\ session' = [session EXCEPT ![a] = "expired"]
        /\ inbox' = inbox \cup {<<"expired", a>>} /\ UNCHANGED <<gift, late>>
    BY <1>3 DEF SessionLapses
  <2>2. Advances /\ GiftOfPaid'
    BY <2>1 DEF Advances, TypeOK, SlotInv, NothingUnrecorded, GiftOfPaid, None
  <2>3. EventsHappened'
    BY <2>1, <2>2 DEF Advances, TypeOK, SlotInv, EventsHappened, Happened
  <2> QED BY <2>2, <2>3
<1>4. ASSUME NEW a \in Attempts, SubscriptionEnds(a) PROVE Advances /\ GiftOfPaid' /\ EventsHappened'
  <2>1. /\ gift[a] = "live" /\ gift' = [gift EXCEPT ![a] = "ended"]
        /\ inbox' = inbox \cup {<<"subscription", a>>} /\ UNCHANGED <<session, late>>
    BY <1>4 DEF SubscriptionEnds
  <2>2. Advances /\ GiftOfPaid'
    BY <2>1 DEF Advances, TypeOK, SlotInv, NothingUnrecorded, GiftOfPaid, None
  <2>3. EventsHappened'
    BY <2>1, <2>2 DEF Advances, TypeOK, SlotInv, EventsHappened, Happened, None
  <2> QED BY <2>2, <2>3
<1> QED BY <1>1, <1>2, <1>3, <1>4 DEF ProcessorStep

\* Every step of the processor keeps the invariant.
LEMMA ProcessorInv ==
  ASSUME Inv, ProcessorStep
  PROVE  SlotInv'
<1> USE DEF Inv
<1>1. /\ UNCHANGED <<attempt, holder, pc, job, event>>
      /\ \A a \in Attempts : Recorded(a)' <=> Recorded(a)
  BY DEF ProcessorStep, LateCreate, DonorPays, SessionLapses, SubscriptionEnds, stored, Recorded
<1>2. Advances /\ GiftOfPaid' /\ EventsHappened'
  BY ProcessorAdvances
<1>3. NothingUnrecorded' /\ UrlOfSession' /\ ClosedIsOver'
  BY <1>1, <1>2 DEF Advances, SlotInv, NothingUnrecorded, UrlOfSession, ClosedIsOver
<1>4. UnlessOverHolds'
  BY <1>1, <1>2 DEF Advances, SlotInv, UnlessOverHolds, Over
<1>5. RequestKnows'
  BY <1>1, <1>2 DEF Advances, SlotInv, RequestKnows, TypeOK
<1>6. WorkerKnows'
  BY <1>1, <1>2, WorkersKeep DEF Advances
<1> QED BY <1>2, <1>3, <1>4, <1>5, <1>6 DEF SlotInv

\* The invariant holds in every reachable state.
THEOREM InvHolds == Spec => []Inv
<1>1. Init => Inv
  <2> SUFFICES ASSUME Init PROVE Inv
    OBVIOUS
  <2>1. TypeOK /\ HasTries
    BY InitType, Actors DEF Init, HasTries
  <2>2. \A a \in Attempts : /\ ~Recorded(a) /\ session[a] = None /\ gift[a] = None /\ holder # a
                            /\ attempt[a].status = None /\ attempt[a].url = FALSE
    BY AttemptsAssumption DEF Init, Recorded, NoAttempt
  <2>3. NothingUnrecorded /\ GiftOfPaid /\ UnlessOverHolds /\ UrlOfSession /\ ClosedIsOver
    BY <2>2 DEF Init, NothingUnrecorded, GiftOfPaid, UnlessOverHolds, UrlOfSession, ClosedIsOver, None
  <2>4. RequestKnows /\ EventsHappened /\ WorkerKnows
    BY Actors DEF Init, RequestKnows, EventsHappened, WorkerKnows
  <2> QED BY <2>1, <2>3, <2>4 DEF Inv, SlotInv
<1>2. Inv /\ [Next]_vars => Inv'
  <2> SUFFICES ASSUME Inv, [Next]_vars PROVE Inv'
    OBVIOUS
  <2>1. TypeOK' /\ HasTries'
    BY NextType DEF Inv
  <2>2. CASE \E p \in Requests : RequestStep(p)
    BY <2>1, <2>2, RequestInv DEF Inv
  <2>3. CASE \E w \in Workers : WorkerStep(w)
    BY <2>1, <2>3, WorkerInv DEF Inv
  <2>4. CASE ProcessorStep
    BY <2>1, <2>4, ProcessorInv DEF Inv
  <2>5. CASE Tick \/ UNCHANGED vars
    <3>1. UNCHANGED <<stored, remote, pc, job, event>>
      BY <2>5 DEF Tick, vars
    <3>2. RequestKnows'
      BY <3>1 DEF Inv, SlotInv, RequestKnows, Recorded, stored, remote
    <3>3. WorkerKnows'
      BY <3>1, WorkersKeep DEF Inv, remote
    <3> QED BY <2>1, <3>1, <3>2, <3>3, StoredFrame DEF Inv, SlotInv
  <2> QED BY <2>2, <2>3, <2>4, <2>5 DEF Next
<1> QED BY <1>1, <1>2, PTL DEF Spec

(***************************************************************************)
(* What the invariant is for.                                              *)
(***************************************************************************)

\* A donor never has two monthly gifts that can charge: an attempt that can
\* still charge holds the slot (ReserveRecurring), and there is one slot.
THEOREM OneGift == Spec => []OneMonthlyGift
<1>1. Inv => OneMonthlyGift
  <2> SUFFICES ASSUME Inv, NEW a \in Attempts, Chargeable(a) PROVE holder = a
    BY DEF OneMonthlyGift
  <2>1. Recorded(a)
    BY DEF Inv, SlotInv, NothingUnrecorded, GiftOfPaid, Chargeable, None
  <2>2. ~Over(a)
    BY DEF Inv, SlotInv, GiftOfPaid, Chargeable, Over, None
  <2> QED BY <2>1, <2>2 DEF Inv, SlotInv, UnlessOverHolds
<1> QED BY <1>1, InvHolds, PTL

\* The stored status of a closed attempt is what happened at the processor.
THEOREM ClosedTruthful == Spec => []ClosedIsOver
<1>1. Inv => ClosedIsOver
  BY DEF Inv, SlotInv
<1> QED BY <1>1, InvHolds, PTL

\* No step takes an attempt back from EXPIRED or CANCELLED, or from COMPLETE to
\* anything but CANCELLED: late acknowledgements and overtaken events included.
THEOREM NeverBack == Spec => NeverReopened
<1> DEFINE Kept == \A a \in Attempts :
                     /\ attempt[a].status \in {"EXPIRED", "CANCELLED"}
                        => attempt'[a].status = attempt[a].status
                     /\ attempt[a].status = "COMPLETE"
                        => attempt'[a].status \in {"COMPLETE", "CANCELLED"}
<1>1. Inv /\ [Next]_vars => Kept
  <2> SUFFICES ASSUME Inv, [Next]_vars PROVE Kept
    OBVIOUS
  <2> USE DEF Inv
  <2>u. ASSUME attempt' = attempt PROVE Kept
    BY <2>u
  <2>1. ASSUME NEW p \in Requests, RequestStep(p) PROVE Kept
    <3>1. CASE PrepareNew(p)
      BY <3>1 DEF PrepareNew, Recorded, TypeOK, None
    <3>2. CASE Retire(p)
      <4>1. job[p].stale \in Attempts
        BY <3>2 DEF Retire, TypeOK
      <4> QED BY <4>1, <3>2 DEF Retire, TypeOK, Attempt, stored
    <3>3. CASE AcknowledgeCheckout(p)
      <4>1. job[p].id \in Attempts
        BY <3>3 DEF AcknowledgeCheckout, TypeOK
      <4> QED BY <4>1, <3>3 DEF AcknowledgeCheckout, Acknowledged, TypeOK, Attempt
    <3>4. CASE UNCHANGED attempt
      BY <3>4, <2>u
    <3> QED BY <3>1, <3>2, <3>3, <3>4, <2>1
            DEF RequestStep, Begin, Refuse, PrepareAnswered, PrepareResumed, PrepareReuse,
                PrepareStale, ExpireCheckout, CreateCheckout, CreateTimesOut, Stop, stored, vars
  <2>2. ASSUME NEW w \in Workers, WorkerStep(w) PROVE Kept
    <3>1. CASE ApplyExpired(w)
      <4>1. event[w].about \in Attempts
        BY <3>1 DEF ApplyExpired, TypeOK
      <4> QED BY <4>1, <3>1 DEF ApplyExpired, ExpiredStatus, TypeOK, Attempt
    <3>2. CASE ApplySubscription(w)
      <4> DEFINE a == event[w].about
                 s == CurrentSubscription(w)
      <4>1. a \in Attempts /\ gift[a] # None
        BY <3>2, Actors DEF ApplySubscription, TypeOK, SlotInv, WorkerKnows, Happened
      <4>2. attempt[a].status # "EXPIRED"
        BY <4>1 DEF SlotInv, ClosedIsOver, GiftOfPaid
      <4>3. /\ \A b \in Attempts \ {a} : attempt'[b] = attempt[b]
            /\ attempt'[a].status = SubscriptionStatus(IF event[w].kind = "completed"
                                        THEN CompletedStatus(attempt[a].status)
                                        ELSE attempt[a].status, s)
        BY <4>1, <3>2 DEF ApplySubscription, TypeOK, Attempt
      <4> HIDE DEF a, s
      <4> QED BY <4>1, <4>2, <4>3 DEF SubscriptionStatus, CompletedStatus
    <3>3. CASE UNCHANGED attempt
      BY <3>3, <2>u
    <3> QED BY <3>1, <3>2, <3>3, <2>2 DEF WorkerStep, BeginEvent, Prefetch, StopEvent, stored
  <2>3. CASE ProcessorStep \/ Tick \/ UNCHANGED vars
    BY <2>3, <2>u DEF ProcessorStep, LateCreate, DonorPays, SessionLapses, SubscriptionEnds, Tick,
                      vars, stored
  <2> QED BY <2>1, <2>2, <2>3 DEF Next
<1>2. Inv /\ [Next]_vars => [Kept]_vars
  BY <1>1
<1> QED BY <1>2, InvHolds, PTL DEF Spec, NeverReopened

(***************************************************************************)
(* Checkout implements RecurringSlot.                                      *)
(***************************************************************************)

GiftStates == [a \in Attempts |-> GiftState(a)]

\* What the invariant says of the abstract state.
LEMMA GiftStateIs ==
  ASSUME Inv, NEW a \in Attempts
  PROVE  /\ GiftState(a) = "unopened" <=> session[a] = None
         /\ GiftState(a) = "payable" <=> session[a] = "open"
         /\ GiftState(a) = "live" <=> gift[a] = "live"
         /\ GiftState(a) = "over" <=> Over(a)
         /\ GiftState(a) \in {"unopened", "payable", "live", "over"}
         /\ GiftState(a) \in {"payable", "live"} => holder = a
<1>1. /\ session[a] \in {None, "open", "complete", "expired"}
      /\ gift[a] \in {None, "live", "ended"}
      /\ gift[a] # None <=> session[a] = "complete"
  BY DEF Inv, TypeOK, SlotInv, GiftOfPaid
<1>2. /\ GiftState(a) = "unopened" <=> session[a] = None
      /\ GiftState(a) = "payable" <=> session[a] = "open"
      /\ GiftState(a) = "live" <=> gift[a] = "live"
      /\ GiftState(a) = "over" <=> Over(a)
      /\ GiftState(a) \in {"unopened", "payable", "live", "over"}
  BY <1>1 DEF GiftState, Over, None
<1>3. ASSUME GiftState(a) \in {"payable", "live"} PROVE holder = a
  BY <1>1, <1>2, <1>3 DEF Inv, SlotInv, UnlessOverHolds, NothingUnrecorded, Over, None
<1> QED BY <1>2, <1>3

\* A step that changes one gift, along one of the abstract moves, while its
\* attempt holds the slot.
LEMMA AbstractMove ==
  ASSUME NEW a \in Attempts, holder = a, UNCHANGED holder,
         <<GiftState(a), GiftState(a)'>> \in Slot!Moves,
         \A b \in Attempts \ {a} : session'[b] = session[b] /\ gift'[b] = gift[b]
  PROVE  Slot!Next
<1>1. GiftState(a)' \in {"payable", "live", "over"}
  BY DEF Slot!Moves
<1>2. \A b \in Attempts \ {a} : GiftState(b)' = GiftState(b)
  BY DEF GiftState
<1>3. GiftStates' = [GiftStates EXCEPT ![a] = GiftState(a)']
  BY <1>2 DEF GiftStates
<1>4. Slot!Move(a, GiftState(a)')
  BY <1>3 DEF Slot!Move, GiftStates
<1> QED BY <1>1, <1>4 DEF Slot!Next

\* A step that leaves the processor alone, and gives up the slot at most for a
\* gift that is over, is an abstract step or none.
LEMMA AbstractFree ==
  ASSUME Inv, UNCHANGED <<session, gift>>, NEW a \in Attempts,
         holder' = holder \/ (holder = a /\ holder' = None /\ Over(a))
  PROVE  Slot!Next \/ UNCHANGED <<holder, GiftStates>>
<1>1. GiftStates' = GiftStates
  BY DEF GiftStates, GiftState
<1>2. CASE holder = a /\ holder' = None /\ Over(a)
  <2>1. GiftState(a) = "over"
    BY <1>2, GiftStateIs
  <2>2. Slot!Free(a)
    BY <1>1, <1>2, <2>1 DEF Slot!Free, GiftStates
  <2> QED BY <2>2 DEF Slot!Next
<1> QED BY <1>1, <1>2

\* Every step of a request, of a worker and of the processor is an abstract step
\* or leaves the abstract state alone.
LEMMA SlotStep ==
  ASSUME Inv, Inv', [Next]_vars
  PROVE  Slot!Next \/ UNCHANGED <<holder, GiftStates>>
<1>u. ASSUME UNCHANGED <<holder, session, gift>> PROVE UNCHANGED <<holder, GiftStates>>
  BY <1>u DEF GiftStates, GiftState
<1>1. ASSUME NEW p \in Requests, RequestStep(p)
      PROVE  Slot!Next \/ UNCHANGED <<holder, GiftStates>>
  <2>1. CASE PrepareNew(p)
    <3> DEFINE a == job[p].id
    <3>1. /\ a \in Attempts /\ holder = None /\ holder' = a /\ UNCHANGED <<session, gift>>
          /\ session[a] = None
      BY <2>1 DEF PrepareNew, ReserveRecurring, Inv, TypeOK, SlotInv, NothingUnrecorded, remote
    <3> HIDE DEF a
    <3>2. GiftState(a) = "unopened" /\ GiftStates' = GiftStates
      BY <3>1, GiftStateIs DEF GiftStates, GiftState
    <3>3. Slot!Take(a)
      BY <3>1, <3>2 DEF Slot!Take, GiftStates
    <3> QED BY <3>1, <3>3 DEF Slot!Next
  <2>2. CASE ExpireCheckout(p)
    <3>0. PICK a \in Attempts : a = job[p].stale
      BY <2>2 DEF ExpireCheckout, Inv, TypeOK
    <3>1. /\ UNCHANGED <<holder, gift>>
          /\ session' = session \/ (session[a] = "open" /\ session' = [session EXCEPT ![a] = "expired"])
      BY <2>2, <3>0 DEF ExpireCheckout, Inv, TypeOK, stored
    <3>2. CASE session' = session
      BY <3>1, <3>2, <1>u
    <3>3. CASE session[a] = "open" /\ session' = [session EXCEPT ![a] = "expired"]
      <4>1. /\ GiftState(a) = "payable" /\ holder = a /\ session'[a] = "expired"
            /\ \A b \in Attempts \ {a} : session'[b] = session[b] /\ gift'[b] = gift[b]
        BY <3>1, <3>3, GiftStateIs DEF Inv, TypeOK
      <4>2. gift'[a] = None
        BY <3>1, <3>3 DEF Inv, SlotInv, GiftOfPaid, None
      <4>3. GiftState(a)' = "over"
        BY <4>1, <4>2 DEF GiftState, None
      <4> QED BY <3>1, <4>1, <4>3, AbstractMove DEF Slot!Moves
    <3> QED BY <3>1, <3>2, <3>3
  <2>3. CASE Retire(p)
    <3> DEFINE a == job[p].stale
    <3>1. /\ a \in Attempts /\ Over(a) /\ UNCHANGED <<session, gift>>
          /\ holder' = holder \/ (holder = a /\ holder' = None)
      BY <2>3 DEF Retire, ReleaseReservation, Inv, TypeOK, SlotInv, RequestKnows, Over, remote, stored
    <3> HIDE DEF a
    <3> QED BY <3>1, AbstractFree
  <2>4. CASE CreateCheckout(p)
    <3>0. PICK a \in Attempts : a = job[p].id
      BY <2>4 DEF CreateCheckout, Inv, TypeOK
    <3>1. /\ Recorded(a) /\ UNCHANGED <<holder, gift>>
          /\ session' = [session EXCEPT ![a] = IF @ = None THEN "open" ELSE @]
      BY <2>4, <3>0, Actors DEF CreateCheckout, Opens, Inv, TypeOK, SlotInv, RequestKnows, stored
    <3>2. session \in [Attempts -> {None, "open", "complete", "expired"}]
      BY DEF Inv, TypeOK
    <3>3. CASE session[a] # None
      BY <3>1, <3>2, <3>3, <1>u
    <3>4. CASE session[a] = None
      <4>1. /\ holder = a /\ session'[a] = "open"
            /\ \A b \in Attempts \ {a} : session'[b] = session[b] /\ gift'[b] = gift[b]
        BY <3>1, <3>2, <3>4 DEF Inv, SlotInv, UnlessOverHolds, GiftOfPaid, Over, None
      <4>2. gift[a] = None /\ gift'[a] = None
        BY <3>1, <3>4 DEF Inv, SlotInv, GiftOfPaid, None
      <4>3. GiftState(a) = "unopened" /\ GiftState(a)' = "payable"
        BY <3>4, <4>1, <4>2 DEF GiftState, None
      <4> QED BY <3>1, <4>1, <4>3, AbstractMove DEF Slot!Moves
    <3> QED BY <3>3, <3>4
  <2>5. CASE UNCHANGED <<holder, session, gift>>
    BY <2>5, <1>u
  <2> QED BY <2>1, <2>2, <2>3, <2>4, <2>5, <1>1
          DEF RequestStep, Begin, Refuse, PrepareAnswered, PrepareResumed, PrepareReuse, PrepareStale,
              CreateTimesOut, AcknowledgeCheckout, Stop, stored, remote, vars
<1>2. ASSUME NEW w \in Workers, WorkerStep(w)
      PROVE  Slot!Next \/ UNCHANGED <<holder, GiftStates>>
  <2> DEFINE a == event[w].about
  <2>1. CASE ApplyExpired(w)
    <3>1. /\ a \in Attempts /\ Over(a) /\ UNCHANGED <<session, gift>>
          /\ holder' = holder \/ (holder = a /\ holder' = None)
      BY <2>1, Actors DEF ApplyExpired, ReleaseReservation, Inv, TypeOK, SlotInv, WorkerKnows,
                          Happened, Over, remote
    <3> HIDE DEF a
    <3> QED BY <3>1, AbstractFree
  <2>2. CASE ApplySubscription(w)
    <3>1. /\ a \in Attempts /\ UNCHANGED <<session, gift>>
          /\ holder' = holder \/ (holder = a /\ holder' = None /\ Over(a))
      BY <2>2, Actors DEF ApplySubscription, CurrentSubscription, ReleaseReservation, Inv, TypeOK,
                          SlotInv, WorkerKnows, Over, remote
    <3> HIDE DEF a
    <3> QED BY <3>1, AbstractFree
  <2>3. CASE UNCHANGED <<holder, session, gift>>
    BY <2>3, <1>u
  <2> QED BY <2>1, <2>2, <2>3, <1>2 DEF WorkerStep, BeginEvent, Prefetch, StopEvent, stored, remote
<1>3. ASSUME NEW a \in late, LateCreate(a)
      PROVE  Slot!Next \/ UNCHANGED <<holder, GiftStates>>
  <2>1. /\ a \in Attempts /\ Recorded(a) /\ UNCHANGED <<holder, gift>>
        /\ \/ session' = session
           \/ session' = [session EXCEPT ![a] = IF @ = None THEN "open" ELSE @]
    BY <1>3 DEF LateCreate, Opens, Inv, TypeOK, SlotInv, NothingUnrecorded, stored
  <2>2. session \in [Attempts -> {None, "open", "complete", "expired"}]
    BY DEF Inv, TypeOK
  <2>3. CASE session' = session
    BY <2>1, <2>3, <1>u
  <2>4. CASE session[a] = None /\ session'[a] = "open"
    <3>1. /\ holder = a
          /\ \A b \in Attempts \ {a} : session'[b] = session[b] /\ gift'[b] = gift[b]
      BY <2>1, <2>2, <2>4 DEF Inv, SlotInv, UnlessOverHolds, GiftOfPaid, Over, None
    <3>2. gift[a] = None /\ gift'[a] = None
      BY <2>1, <2>4 DEF Inv, SlotInv, GiftOfPaid, None
    <3>3. GiftState(a) = "unopened" /\ GiftState(a)' = "payable"
      BY <2>4, <3>2 DEF GiftState, None
    <3> QED BY <2>1, <3>1, <3>3, AbstractMove DEF Slot!Moves
  <2> QED BY <2>1, <2>2, <2>3, <2>4
<1>4. ASSUME NEW a \in Attempts, DonorPays(a) \/ SessionLapses(a) \/ SubscriptionEnds(a)
      PROVE  Slot!Next \/ UNCHANGED <<holder, GiftStates>>
  <2>1. /\ UNCHANGED holder
        /\ \A b \in Attempts \ {a} : session'[b] = session[b] /\ gift'[b] = gift[b]
        /\ \/ session[a] = "open" /\ session'[a] = "complete" /\ gift'[a] = "live"
           \/ session[a] = "open" /\ session'[a] = "expired" /\ gift'[a] = gift[a]
           \/ gift[a] = "live" /\ session'[a] = session[a] /\ gift'[a] = "ended"
    BY <1>4 DEF DonorPays, SessionLapses, SubscriptionEnds, Inv, TypeOK, stored
  <2>2. /\ GiftState(a) \in {"payable", "live"} /\ holder = a
        /\ GiftState(a) = "payable" <=> session[a] = "open"
        /\ GiftState(a) = "live" <=> gift[a] = "live"
    BY <2>1, GiftStateIs
  <2>3. /\ session[a] \in {None, "open", "complete", "expired"}
        /\ gift[a] # None <=> session[a] = "complete"
    BY DEF Inv, TypeOK, SlotInv, GiftOfPaid
  <2>4. \/ session[a] = "open" /\ GiftState(a)' = "live"
        \/ session[a] = "open" /\ GiftState(a)' = "over"
        \/ gift[a] = "live" /\ GiftState(a)' = "over"
    BY <2>1, <2>3 DEF GiftState, None
  <2>5. <<GiftState(a), GiftState(a)'>> \in Slot!Moves
    BY <2>2, <2>4 DEF Slot!Moves
  <2> QED BY <2>1, <2>2, <2>5, AbstractMove
<1>5. CASE Tick \/ UNCHANGED vars
  BY <1>5, <1>u DEF Tick, vars, stored, remote
<1> QED BY <1>1, <1>2, <1>3, <1>4, <1>5 DEF Next, ProcessorStep

\* The checkout implements the one-slot specification: whatever requests, the
\* worker and the processor do, a session opens, is paid and ends only in the
\* slot, and the slot is given up only by a gift that is over.
THEOREM Refinement == Spec => ImplementsSlot
<1>1. Init => Slot!Init
  <2> SUFFICES ASSUME Init PROVE Slot!Init
    OBVIOUS
  <2>1. \A a \in Attempts : GiftState(a) = "unopened"
    BY DEF Init, GiftState, None
  <2> QED BY <2>1 DEF Init, Slot!Init
<1>2. Inv /\ Inv' /\ [Next]_vars => [Slot!Next]_<<holder, GiftStates>>
  BY SlotStep
<1> QED BY <1>1, <1>2, InvHolds, PTL DEF Spec, ImplementsSlot, Slot!Spec, GiftStates

-----------------------------------------------------------------------------
(***************************************************************************)
(* The restart budget: whoever types a donor's email on the website can    *)
(* close only so many of the donor's open sessions. It rests on the        *)
(* invariant Inv, by which an open session is that of the slot's holder.   *)
(***************************************************************************)

(***************************************************************************)
(* The inductive invariant.                                                *)
(***************************************************************************)

\* A request read the clock at most RequestTime ago.
Clocked ==
  /\ now > 0
  /\ \A p \in Requests : pc[p] # "idle" => job[p].at =< now /\ now =< job[p].at + RequestTime

\* What was closed stays closed.
Past ==
  /\ restarts \in [Attempts -> Nat]
  /\ \A b \in Attempts : restarts[b] # 0 => restarts[b] =< now /\ session[b] = "expired"

\* An attempt that is not over began after all restarts, but for the time its
\* request took.
Follows ==
  \A a, b \in Attempts :
    restarts[b] # 0 /\ a # b /\ Recorded(a) /\ ~Over(a)
      => attempt[a].created + RequestTime >= restarts[b]

\* Of two attempts that were closed, one began after the other was closed.
InTurn ==
  \A a, b \in Attempts :
    restarts[a] # 0 /\ restarts[b] # 0 /\ a # b
      => \/ attempt[b].created + RequestTime >= restarts[a]
         \/ attempt[a].created + RequestTime >= restarts[b]

\* What MayRestart found is so until the session is closed: no attempt begins
\* while the session holds the slot.
Allowed ==
  \A p \in Requests \ Apps :
    pc[p] = "expire" /\ session[job[p].stale] = "open" => RecentAttempts(p) =< RestartBudget

TurnInv    == Clocked /\ Past /\ Follows /\ InTurn /\ Allowed
RestartInv == Inv /\ TurnInv /\ RestartsBounded

(***************************************************************************)
(* What a step does to the clock, the attempts and a website request.      *)
(***************************************************************************)

\* Attempt a is begun by a request that finds the slot free.
Begins(a) ==
  /\ holder = None
  /\ \E p \in Requests : pc[p] # "idle" /\ attempt'[a].created = job[p].at

\* An attempt keeps its created_at, and is begun only in the free slot.
LEMMA AttemptsBegin ==
  ASSUME Inv, [Next]_vars, NEW a \in Attempts
  PROVE  /\ Recorded(a) => attempt'[a].created = attempt[a].created
         /\ ~Recorded(a) /\ Recorded(a)' => Begins(a)
<1> DEFINE P == /\ Recorded(a) => attempt'[a].created = attempt[a].created
                /\ ~Recorded(a) /\ Recorded(a)' => Begins(a)
<1> USE DEF Inv
<1>t. attempt \in [Attempts -> Attempt] /\ attempt[a] \in Attempt
  BY DEF TypeOK
<1>u. ASSUME UNCHANGED attempt PROVE P
  BY <1>u DEF Recorded
<1>s. ASSUME NEW b \in Attempts, NEW s, attempt' = [attempt EXCEPT ![b].status = s], 
             Recorded(b)
      PROVE P
  BY <1>s, <1>t DEF Recorded, Attempt
<1>1. ASSUME NEW p \in Requests, RequestStep(p) PROVE P
  <2>j. pc[p] # "idle" => job[p].id \in Attempts
    BY DEF TypeOK
  <2>1. CASE PrepareNew(p)
    <3>1. /\ pc[p] = "prepare" /\ holder = None /\ ~Recorded(job[p].id)
          /\ attempt' = [attempt EXCEPT ![job[p].id] =
                           [status |-> "PENDING", created |-> job[p].at, native |-> p \in Apps,
                            terms |-> job[p].terms, url |-> FALSE]]
      BY <2>1 DEF PrepareNew, ReserveRecurring
    <3>2. CASE a = job[p].id
      <4>1. attempt'[a].created = job[p].at
        BY <3>1, <3>2, <1>t
      <4> QED BY <3>1, <3>2, <4>1 DEF Begins
    <3>3. CASE a # job[p].id
      BY <3>1, <3>3, <1>t DEF Recorded
    <3> QED BY <3>2, <3>3
  <2>2. CASE AcknowledgeCheckout(p)
    <3>1. Recorded(job[p].id) /\ job[p].id \in Attempts
      BY <2>2, <2>j DEF AcknowledgeCheckout, SlotInv, RequestKnows
    <3>2. attempt' = Acknowledged(job[p].id)
      BY <2>2 DEF AcknowledgeCheckout
    <3> QED BY <3>1, <3>2, <1>t DEF Acknowledged, Recorded, Attempt
  <2>3. CASE Retire(p)
    <3>1. job[p].stale \in Attempts /\ session[job[p].stale] = "expired"
      BY <2>3 DEF Retire, TypeOK, SlotInv, RequestKnows
    <3>2. Recorded(job[p].stale)
      BY <3>1 DEF SlotInv, NothingUnrecorded, None
    <3>3. \/ UNCHANGED attempt
          \/ attempt' = [attempt EXCEPT ![job[p].stale].status = IF @ = "OPEN" THEN "EXPIRED" ELSE @]
      BY <2>3 DEF Retire, stored
    <3> QED BY <3>1, <3>2, <3>3, <1>u, <1>s
  <2>4. CASE ~(PrepareNew(p) \/ AcknowledgeCheckout(p) \/ Retire(p))
    <3>1. UNCHANGED attempt
      BY <1>1, <2>4 DEF RequestStep, Begin, Refuse, PrepareAnswered, PrepareResumed, PrepareReuse,
           PrepareStale, ExpireCheckout, CreateCheckout, CreateTimesOut, Stop, vars, stored
    <3> QED BY <3>1, <1>u
  <2> QED BY <2>1, <2>2, <2>3, <2>4
<1>2. ASSUME NEW w \in Workers, WorkerStep(w) PROVE P
  <2>1. CASE ApplyExpired(w) \/ ApplySubscription(w)
    <3>1. /\ pc[w] # "idle" /\ event[w].about \in Attempts
          /\ event[w].kind \in Kinds
          /\ Happened(event[w].kind, event[w].about)
      BY <2>1 DEF ApplyExpired, ApplySubscription, TypeOK, SlotInv, WorkerKnows
    <3>2. Recorded(event[w].about)
      BY <3>1 DEF Happened, SlotInv, NothingUnrecorded, GiftOfPaid, None
    <3>3. \E s : attempt' = [attempt EXCEPT ![event[w].about].status = s]
      BY <2>1 DEF ApplyExpired, ApplySubscription
    <3> QED BY <3>1, <3>2, <3>3, <1>s
  <2>2. CASE ~(ApplyExpired(w) \/ ApplySubscription(w))
    <3>1. UNCHANGED attempt
      BY <1>2, <2>2 DEF WorkerStep, BeginEvent, Prefetch, StopEvent, stored
    <3> QED BY <3>1, <1>u
  <2> QED BY <2>1, <2>2
<1>3. ASSUME ProcessorStep \/ Tick \/ UNCHANGED vars PROVE P
  <2>1. UNCHANGED attempt
    BY <1>3 DEF ProcessorStep, LateCreate, DonorPays, SessionLapses, SubscriptionEnds, Tick,
                vars, stored
  <2> QED BY <2>1, <1>u
<1> QED BY <1>1, <1>2, <1>3 DEF Next

\* A session is closed for good, and a website request comes to close one only
\* from staleCheckout.
LEMMA SessionsClose ==
  ASSUME Inv, [Next]_vars
  PROVE  /\ \A a \in Attempts : /\ session[a] = "expired" => session'[a] = "expired"
                                /\ gift[a] = "ended" => gift'[a] = "ended"
                                /\ session'[a] = "open" => session[a] \in {None, "open"}
<1> USE DEF Inv
<1>t. /\ session \in [Attempts -> {None, "open", "complete", "expired"}]
      /\ gift \in [Attempts -> {None, "live", "ended"}] /\ late \subseteq Attempts
  BY DEF TypeOK
<1>o. ASSUME NEW a \in Attempts, Opens(a)
      PROVE  \A b \in Attempts : /\ session[b] = "expired" => session'[b] = "expired"
                                 /\ session'[b] = "open" => session[b] \in {None, "open"}
  BY <1>o, <1>t DEF Opens, None
<1>1. ASSUME NEW p \in Requests, RequestStep(p)
      PROVE  /\ UNCHANGED gift
             /\ \A b \in Attempts : /\ session[b] = "expired" => session'[b] = "expired"
                                    /\ session'[b] = "open" => session[b] \in {None, "open"}
  <2>1. CASE ExpireCheckout(p)
    BY <2>1, <1>t DEF ExpireCheckout
  <2>2. CASE CreateCheckout(p)
    <3>1. job[p].id \in Attempts
      BY <2>2 DEF CreateCheckout, TypeOK
    <3> QED BY <2>2, <3>1, <1>o DEF CreateCheckout
  <2>3. CASE ~(ExpireCheckout(p) \/ CreateCheckout(p))
    <3>1. UNCHANGED <<session, gift>>
      BY <1>1, <2>3 DEF RequestStep, Begin, Refuse, PrepareAnswered, PrepareResumed, PrepareNew,
           PrepareReuse, PrepareStale, Retire, CreateTimesOut, AcknowledgeCheckout, Stop, vars, remote
    <3> QED BY <3>1
  <2> QED BY <2>1, <2>2, <2>3
<1>2. ASSUME NEW w \in Workers, WorkerStep(w) PROVE UNCHANGED <<session, gift>>
  BY <1>2 DEF WorkerStep, BeginEvent, Prefetch, ApplyExpired, ApplySubscription, StopEvent, remote
<1>3. CASE ProcessorStep
  <2>1. ASSUME NEW a \in late, LateCreate(a)
        PROVE  /\ UNCHANGED gift
               /\ \A b \in Attempts : /\ session[b] = "expired" => session'[b] = "expired"
                                      /\ session'[b] = "open" => session[b] \in {None, "open"}
    BY <2>1, <1>o, <1>t DEF LateCreate
  <2>2. ASSUME NEW a \in Attempts, DonorPays(a) \/ SessionLapses(a) \/ SubscriptionEnds(a)
        PROVE  \A b \in Attempts : /\ session[b] = "expired" => session'[b] = "expired"
                                   /\ gift[b] = "ended" => gift'[b] = "ended"
                                   /\ session'[b] = "open" => session[b] \in {None, "open"}
    <3>1. CASE DonorPays(a)
      <4>1. gift[a] = None
        BY <3>1 DEF DonorPays, SlotInv, GiftOfPaid, None
      <4> QED BY <3>1, <4>1, <1>t DEF DonorPays, None
    <3>2. CASE SessionLapses(a)
      BY <3>2, <1>t DEF SessionLapses
    <3>3. CASE SubscriptionEnds(a)
      BY <3>3, <1>t DEF SubscriptionEnds
    <3> QED BY <2>2, <3>1, <3>2, <3>3
  <2> QED BY <1>3, <2>1, <2>2 DEF ProcessorStep
<1>4. CASE Tick \/ UNCHANGED vars
  BY <1>4 DEF Tick, vars, remote
<1> QED BY <1>1, <1>2, <1>3, <1>4 DEF Next

\* How a request gets where it is after the step.
RequestMoves(p) ==
  /\ pc'[p] # "idle" => \/ pc[p] # "idle" /\ job'[p].at = job[p].at
                        \/ job'[p].at = now
  /\ pc'[p] = "expire" => \/ pc[p] = "expire" /\ job'[p] = job[p]
                          \/ PrepareStale(p)

\* A request reads the clock when it begins, and time passes only while no
\* request has run out of it.
LEMMA RequestsMove ==
  ASSUME Inv, [Next]_vars
  PROVE  /\ \A p \in Requests : RequestMoves(p)
         /\ \/ now' = now
            \/ Tick /\ UNCHANGED <<attempt, session, pc, job>>
<1> USE Actors DEF Inv
<1>t. /\ pc \in [Requests \cup Workers -> RequestStates \cup WorkerStates]
      /\ job \in [Requests -> Job]
  BY DEF TypeOK
<1>u. ASSUME NEW q \in Requests, pc'[q] = pc[q], job'[q] = job[q] PROVE RequestMoves(q)
  BY <1>u DEF RequestMoves
<1>1. ASSUME NEW p \in Requests, RequestStep(p)
      PROVE  now' = now /\ \A q \in Requests : RequestMoves(q)
  <2>1. now' = now
    BY <1>1 DEF RequestStep, Begin, Refuse, PrepareAnswered, PrepareResumed, PrepareNew,
         PrepareReuse, PrepareStale, ExpireCheckout, Retire, CreateCheckout, CreateTimesOut,
         AcknowledgeCheckout, Stop, vars
  <2>2. ASSUME NEW s \in RequestStates, s # "expire", pc' = [pc EXCEPT ![p] = s],
               \/ UNCHANGED job /\ pc[p] # "idle"
               \/ \E j : job' = [job EXCEPT ![p] = j] /\ (j.at = now \/ s = "idle")
        PROVE  \A q \in Requests : RequestMoves(q)
    <3> SUFFICES ASSUME NEW q \in Requests PROVE RequestMoves(q)
      OBVIOUS
    <3>1. CASE q = p
      BY <2>2, <3>1, <1>t DEF RequestMoves
    <3>2. CASE q # p
      BY <2>2, <3>2, <1>t, <1>u
    <3> QED BY <3>1, <3>2
  <2>e. ASSUME End(p) PROVE \A q \in Requests : RequestMoves(q)
    <3>1. pc' = [pc EXCEPT ![p] = "idle"] /\ job' = [job EXCEPT ![p] = NoJob]
      BY <2>e DEF End
    <3> QED BY <3>1, <2>2 DEF RequestStates
  <2>3. ASSUME NEW a \in Attempts, NEW terms \in Terms, Begin(p, a, terms)
        PROVE  \A q \in Requests : RequestMoves(q)
    <3> DEFINE j == [id |-> a, at |-> now, terms |-> terms, tries |-> PrepareTries, stale |-> None]
    <3>1. pc' = [pc EXCEPT ![p] = "prepare"] /\ job' = [job EXCEPT ![p] = j] /\ j.at = now
      BY <2>3 DEF Begin
    <3> HIDE DEF j
    <3> QED BY <3>1, <2>2 DEF RequestStates
  <2>4. ASSUME NEW a \in Attempts, Refuse(p, a) PROVE \A q \in Requests : RequestMoves(q)
    BY <2>4, <1>u DEF Refuse, vars
  <2>5. ASSUME PrepareResumed(p) \/ PrepareNew(p) \/ CreateCheckout(p)
        PROVE  \A q \in Requests : RequestMoves(q)
    <3>1. /\ pc[p] # "idle" /\ UNCHANGED job
          /\ \E s \in {"create", "acknowledge"} : pc' = [pc EXCEPT ![p] = s]
      BY <2>5 DEF PrepareResumed, PrepareNew, CreateCheckout
    <3> QED BY <3>1, <2>2 DEF RequestStates
  <2>6. ASSUME PrepareStale(p) PROVE \A q \in Requests : RequestMoves(q)
    <3>1. /\ pc[p] = "prepare" /\ pc' = [pc EXCEPT ![p] = "expire"]
          /\ job' = [job EXCEPT ![p].stale = holder, ![p].tries = @ - 1]
      BY <2>6 DEF PrepareStale, HeldOpen
    <3>2. job'[p].at = job[p].at
      BY <3>1, <1>t DEF Job
    <3>3. RequestMoves(p)
      BY <2>6, <3>1, <3>2 DEF RequestMoves
    <3>4. ASSUME NEW q \in Requests \ {p} PROVE RequestMoves(q)
      BY <3>1, <1>t, <1>u
    <3> QED BY <3>3, <3>4
  <2>7. ASSUME ExpireCheckout(p) PROVE \A q \in Requests : RequestMoves(q)
    <3>1. End(p) \/ (pc[p] # "idle" /\ UNCHANGED job /\ pc' = [pc EXCEPT ![p] = "retire"])
      BY <2>7 DEF ExpireCheckout
    <3> QED BY <3>1, <2>e, <2>2 DEF RequestStates
  <2>8. ASSUME Retire(p) PROVE \A q \in Requests : RequestMoves(q)
    <3>1. \/ End(p)
          \/ pc[p] = "retire" /\ pc' = [pc EXCEPT ![p] = "prepare"]
             /\ job' = [job EXCEPT ![p].stale = None]
      BY <2>8 DEF Retire
    <3>2. ASSUME pc[p] = "retire", pc' = [pc EXCEPT ![p] = "prepare"],
                 job' = [job EXCEPT ![p].stale = None]
          PROVE  \A q \in Requests : RequestMoves(q)
      <4>1. job'[p].at = job[p].at
        BY <3>2, <1>t DEF Job
      <4>2. RequestMoves(p)
        BY <3>2, <4>1, <1>t DEF RequestMoves
      <4>3. ASSUME NEW q \in Requests \ {p} PROVE RequestMoves(q)
        BY <3>2, <1>t, <1>u
      <4> QED BY <4>2, <4>3
    <3> QED BY <3>1, <3>2, <2>e
  <2>9. ASSUME \/ PrepareAnswered(p) \/ PrepareReuse(p) \/ CreateTimesOut(p)
               \/ AcknowledgeCheckout(p) \/ Stop(p)
        PROVE  \A q \in Requests : RequestMoves(q)
    BY <2>9, <2>e DEF PrepareAnswered, PrepareReuse, CreateTimesOut, AcknowledgeCheckout, Stop
  <2> QED BY <1>1, <2>1, <2>3, <2>4, <2>5, <2>6, <2>7, <2>8, <2>9 DEF RequestStep
<1>2. ASSUME NEW w \in Workers, WorkerStep(w)
      PROVE  now' = now /\ \A q \in Requests : RequestMoves(q)
  <2>1. /\ now' = now /\ UNCHANGED job
        /\ \E s : pc' = [pc EXCEPT ![w] = s]
    BY <1>2 DEF WorkerStep, BeginEvent, Prefetch, ApplyExpired, ApplySubscription, StopEvent, EndEvent
  <2>2. \A q \in Requests : pc'[q] = pc[q]
    BY <2>1, <1>t
  <2> QED BY <2>1, <2>2, <1>u
<1>3. CASE ProcessorStep
  <2>1. UNCHANGED <<now, pc, job>>
    BY <1>3 DEF ProcessorStep, LateCreate, DonorPays, SessionLapses, SubscriptionEnds
  <2> QED BY <2>1, <1>u
<1>4. CASE Tick
  <2>1. UNCHANGED <<attempt, session, pc, job>>
    BY <1>4 DEF Tick, stored, remote
  <2> QED BY <1>4, <2>1, <1>u
<1>5. CASE UNCHANGED vars
  BY <1>5, <1>u DEF vars
<1> QED BY <1>1, <1>2, <1>3, <1>4, <1>5 DEF Next

\* The clock's part of the invariant.
LEMMA ClockedStep ==
  ASSUME Inv, Clocked, [Next]_vars
  PROVE  Clocked' /\ now =< now'
<1>t. /\ now \in Nat /\ now' \in Nat /\ RequestTime \in Nat
      /\ \A p \in Requests : job[p].at \in Nat /\ job'[p].at \in Nat
  <2>1. TypeOK /\ TypeOK'
    BY NextType DEF Inv
  <2> QED BY <2>1, TimesAssumption DEF TypeOK, Job
<1>1. ASSUME now' = now PROVE Clocked' /\ now =< now'
  BY <1>1, <1>t, RequestsMove DEF Clocked, RequestMoves
<1>2. ASSUME Tick, UNCHANGED <<pc, job>> PROVE Clocked' /\ now =< now'
  BY <1>2, <1>t DEF Tick, Clocked
<1> QED BY <1>1, <1>2, RequestsMove

\* A website restart closes the holder's session, for a request that was
\* allowed to.
LEMMA RestartIs ==
  ASSUME Inv, [Next]_vars, NEW h \in Attempts, Restarted(h)
  PROVE  /\ session[h] = "open" /\ session'[h] = "expired"
         /\ UNCHANGED <<now, attempt>>
         /\ \A b \in Attempts : Restarted(b) => b = h
         /\ \E p \in Requests \ Apps : pc[p] = "expire" /\ job[p].stale = h
<1> USE Actors DEF Inv
<1>1. session[h] = "open" /\ session'[h] = "expired"
  BY DEF Restarted
<1>2. PICK p \in Requests \ Apps : pc[p] = "expire" /\ pc'[p] = "retire"
  BY DEF Restarted
<1>3. ExpireCheckout(p)
  <2>t. /\ pc \in [Requests \cup Workers -> RequestStates \cup WorkerStates]
        /\ \A w \in Workers : p # w
    BY DEF TypeOK
  <2>1. PICK q \in Requests : RequestStep(q)
    <3>1. ASSUME NEW w \in Workers, WorkerStep(w) PROVE pc'[p] = pc[p]
      BY <3>1, <2>t DEF WorkerStep, BeginEvent, Prefetch, ApplyExpired, ApplySubscription,
                        StopEvent, EndEvent
    <3>2. ASSUME ProcessorStep \/ Tick \/ UNCHANGED vars PROVE pc'[p] = pc[p]
      BY <3>2 DEF ProcessorStep, LateCreate, DonorPays, SessionLapses, SubscriptionEnds, Tick, vars
    <3> QED BY <1>2, <3>1, <3>2 DEF Next
  <2>2. ExpireCheckout(q) \/ CreateCheckout(q)
    <3>1. ASSUME ~(ExpireCheckout(q) \/ CreateCheckout(q)) PROVE UNCHANGED session
      BY <2>1, <3>1 DEF RequestStep, Begin, Refuse, PrepareAnswered, PrepareResumed, PrepareNew,
           PrepareReuse, PrepareStale, Retire, CreateTimesOut, AcknowledgeCheckout, Stop, vars, remote
    <3> QED BY <1>1, <3>1
  <2>3. q = p
    BY <1>2, <2>2, <2>t DEF ExpireCheckout, CreateCheckout, End
  <2> QED BY <2>2, <2>3, <1>2 DEF CreateCheckout
<1>4. /\ job[p].stale \in Attempts /\ UNCHANGED <<now, attempt>>
      /\ \A b \in Attempts : session'[b] # session[b] => b = job[p].stale
  BY <1>3 DEF ExpireCheckout, TypeOK, stored
<1>5. \A b \in Attempts : Restarted(b) => b = job[p].stale
  BY <1>4 DEF Restarted
<1> QED BY <1>1, <1>2, <1>4, <1>5

\* An open session is that of the slot's holder.
LEMMA OpenHolds ==
  ASSUME Inv, NEW a \in Attempts, session[a] = "open"
  PROVE  Recorded(a) /\ ~Over(a) /\ holder = a /\ holder # None
<1>1. Recorded(a)
  BY DEF Inv, SlotInv, NothingUnrecorded, None
<1>2. ~Over(a)
  BY DEF Inv, SlotInv, GiftOfPaid, Over, None
<1> QED BY <1>1, <1>2, AttemptsAssumption DEF Inv, SlotInv, UnlessOverHolds

\* What was found of recent attempts stays so while no attempt begins.
LEMMA AllowedStep ==
  ASSUME Inv, Inv', Allowed, [Next]_vars
  PROVE  Allowed'
<1> SUFFICES ASSUME NEW p \in Requests \ Apps, pc'[p] = "expire",
                    session'[job'[p].stale] = "open"
             PROVE  RecentAttempts(p)' =< RestartBudget
  BY DEF Allowed
<1> DEFINE h == job'[p].stale
           Recent  == {a \in Attempts : Recorded(a)
                         /\ attempt[a].created > job[p].at - RestartWindow}
           Recent2 == {a \in Attempts : Recorded(a)'
                         /\ attempt'[a].created > job'[p].at - RestartWindow}
<1>1. h \in Attempts
  BY DEF Inv, TypeOK
<1>2. session[h] # None
  <2>1. RequestMoves(p)
    BY RequestsMove
  <2>2. CASE pc[p] = "expire" /\ job'[p] = job[p]
    BY <2>2 DEF Inv, SlotInv, RequestKnows
  <2>3. CASE PrepareStale(p)
    <3>1. job' = [job EXCEPT ![p].stale = holder, ![p].tries = @ - 1]
      BY <2>3 DEF PrepareStale
    <3>2. h = holder
      BY <3>1 DEF Inv, TypeOK, Job
    <3> QED BY <1>1, <2>3, <3>2 DEF PrepareStale, HeldOpen, Inv, SlotInv, UrlOfSession
  <2> QED BY <2>1, <2>2, <2>3 DEF RequestMoves
<1>3. session[h] = "open"
  BY <1>1, <1>2, SessionsClose
<1>4. holder # None
  BY <1>1, <1>3, OpenHolds
<1>5. \A a \in Attempts : Recorded(a)' => Recorded(a) /\ attempt'[a].created = attempt[a].created
  BY <1>4, AttemptsBegin DEF Begins
<1>6. job'[p].at = job[p].at /\ Recent2 \subseteq Recent
      /\ Cardinality(Recent) + 1 =< RestartBudget
  <2>1. RequestMoves(p)
    BY RequestsMove
  <2>2. CASE pc[p] = "expire" /\ job'[p] = job[p]
    BY <1>3, <1>5, <2>2 DEF Allowed, RecentAttempts
  <2>3. CASE PrepareStale(p)
    <3>1. job' = [job EXCEPT ![p].stale = holder, ![p].tries = @ - 1]
      BY <2>3 DEF PrepareStale
    <3>2. job'[p].at = job[p].at
      BY <3>1 DEF Inv, TypeOK, Job
    <3>3. Recent2 \subseteq Recent
      BY <3>2, <1>5
    <3> QED BY <2>3, <3>2, <3>3 DEF PrepareStale, MayRestart, RecentAttempts
  <2> QED BY <2>1, <2>2, <2>3 DEF RequestMoves
<1>7. IsFiniteSet(Recent)
  BY FS_Subset, AttemptsAssumption
<1>8. Cardinality(Recent2) =< Cardinality(Recent)
  BY <1>6, <1>7, FS_Subset
<1>9. Cardinality(Recent2) \in Nat /\ Cardinality(Recent) \in Nat /\ RestartBudget \in Nat
  BY <1>6, <1>7, FS_Subset, FS_CardinalityType, TimeTypes
<1>10. RecentAttempts(p)' = Cardinality(Recent2) + 1
  BY DEF RecentAttempts
<1> QED BY <1>6, <1>8, <1>9, <1>10

\* Restarts stay in turn: a session is closed only while no other attempt can
\* charge, and the next attempt begins later.
LEMMA TurnStep ==
  ASSUME RestartInv, Inv', Clocked', now =< now', [RestartNext]_<<vars, restarts>>
  PROVE  Past' /\ Follows' /\ InTurn'
<1> USE DEF RestartInv, TurnInv
<1>n. [Next]_vars
  BY DEF RestartNext
<1>t. /\ now \in Nat /\ now' \in Nat /\ RequestTime \in Nat /\ now > 0
      /\ restarts \in [Attempts -> Nat]
      /\ \A a \in Attempts : attempt[a].created \in Nat /\ attempt'[a].created \in Nat
      /\ \A p \in Requests : job[p].at \in Nat
  BY TimesAssumption DEF Inv, TypeOK, Attempt, Job, Past, Clocked
<1>r. \A a \in Attempts : restarts'[a] = restarts[a] \/ (Restarted(a) /\ restarts'[a] = now)
  BY DEF RestartNext
<1>1. Past'
  <2>1. restarts' \in [Attempts -> Nat]
    BY <1>t DEF RestartNext
  <2>2. ASSUME NEW b \in Attempts, restarts'[b] # 0
        PROVE  restarts'[b] =< now' /\ session'[b] = "expired"
    BY <2>2, <1>n, <1>t, <1>r, SessionsClose DEF Past, Restarted
  <2> QED BY <2>1, <2>2 DEF Past
<1>o. \A a \in Attempts : Over(a) => Over(a)'
  BY <1>n, SessionsClose DEF Over
<1>2. Follows'
  <2> SUFFICES ASSUME NEW a \in Attempts, NEW b \in Attempts, restarts'[b] # 0, a # b,
                      Recorded(a)', ~Over(a)'
               PROVE  attempt'[a].created + RequestTime >= restarts'[b]
    BY DEF Follows
  <2>1. CASE Restarted(b)
    <3>1. UNCHANGED attempt /\ holder = b
      BY <2>1, <1>n, RestartIs, OpenHolds
    <3>2. Recorded(a) /\ ~Over(a)
      BY <3>1, <1>o DEF Recorded
    <3>3. holder = a
      BY <3>2 DEF Inv, SlotInv, UnlessOverHolds
    <3> QED BY <3>1, <3>3
  <2>2. CASE ~Restarted(b)
    <3>1. restarts'[b] = restarts[b] /\ restarts[b] # 0 /\ restarts[b] =< now
      BY <2>2, <1>r DEF Past
    <3>2. CASE Recorded(a)
      <4>1. attempt'[a].created = attempt[a].created
        BY <1>n, <3>2, AttemptsBegin
      <4> QED BY <3>1, <3>2, <4>1, <1>o DEF Follows
    <3>3. CASE ~Recorded(a)
      <4>1. PICK p \in Requests : pc[p] # "idle" /\ attempt'[a].created = job[p].at
        BY <1>n, <3>3, AttemptsBegin DEF Begins
      <4>2. now =< job[p].at + RequestTime
        BY <4>1 DEF Clocked
      <4>3. restarts[b] \in Nat
        BY <1>t
      <4> QED BY <3>1, <4>1, <4>2, <4>3, <1>t
    <3> QED BY <3>2, <3>3
  <2> QED BY <2>1, <2>2
<1>3. InTurn'
  <2>1. ASSUME NEW a \in Attempts, NEW b \in Attempts, Restarted(a), restarts'[b] # 0, a # b
        PROVE  attempt'[a].created + RequestTime >= restarts'[b]
    <3>1. UNCHANGED attempt /\ ~Restarted(b) /\ Recorded(a) /\ ~Over(a)
      BY <2>1, <1>n, RestartIs, OpenHolds
    <3>2. restarts'[b] = restarts[b]
      BY <3>1, <1>r
    <3> QED BY <2>1, <3>1, <3>2 DEF Follows
  <2>2. ASSUME NEW a \in Attempts, restarts[a] # 0
        PROVE  attempt'[a].created = attempt[a].created
    <3>1. Recorded(a)
      BY <2>2 DEF Past, Inv, SlotInv, NothingUnrecorded, None
    <3> QED BY <3>1, <1>n, AttemptsBegin
  <2> SUFFICES ASSUME NEW a \in Attempts, NEW b \in Attempts,
                      restarts'[a] # 0, restarts'[b] # 0, a # b
               PROVE  \/ attempt'[b].created + RequestTime >= restarts'[a]
                      \/ attempt'[a].created + RequestTime >= restarts'[b]
    BY DEF InTurn
  <2>3. CASE Restarted(a) \/ Restarted(b)
    BY <2>1, <2>3
  <2>4. CASE ~Restarted(a) /\ ~Restarted(b)
    <3>1. restarts'[a] = restarts[a] /\ restarts'[b] = restarts[b]
      BY <2>4, <1>r
    <3> QED BY <3>1, <2>2 DEF InTurn
  <2> QED BY <2>3, <2>4
<1> QED BY <1>1, <1>2, <1>3

\* Attempts recorded as begun in the restart window before t.
Since(t) == {a \in Attempts : Recorded(a) /\ attempt[a].created > t - RestartWindow}

\* Sessions closed in a window are at most one more than the attempts begun in
\* the restart window.
Counted ==
  \A t, at \in Nat :
    at =< t => Cardinality(RestartsUpTo(t)) =< Cardinality(Since(at)) + 1

\* The sessions closed in a window were, but for the first of them, of attempts
\* begun after one of them was closed.
LEMMA ClosedAreRecent == Inv /\ Past /\ InTurn => Counted
<1> SUFFICES ASSUME Inv, Past, InTurn, NEW t \in Nat, NEW at \in Nat, at =< t
             PROVE  Cardinality(RestartsUpTo(t)) =< Cardinality(Since(at)) + 1
  BY DEF Counted
<1> DEFINE S == RestartsUpTo(t)
<1>t. /\ RestartWindow \in Nat /\ RequestTime \in Nat
      /\ restarts \in [Attempts -> Nat]
      /\ \A a \in Attempts : attempt[a].created \in Nat
  BY TimesAssumption DEF Inv, TypeOK, Attempt, Past
<1>s. \A b \in S : /\ b \in Attempts /\ restarts[b] # 0 /\ Recorded(b)
                   /\ restarts[b] > t - (RestartWindow - RequestTime)
  BY <1>t DEF RestartsUpTo, Past, Inv, SlotInv, NothingUnrecorded, None
<1>f. IsFiniteSet(Since(at)) /\ IsFiniteSet(S)
  BY FS_Subset, AttemptsAssumption DEF RestartsUpTo, Since
<1>n. Cardinality(Since(at)) \in Nat /\ Cardinality(S) \in Nat
  BY <1>f, FS_CardinalityType
<1>1. ASSUME NEW a \in S, NEW b \in S, a # b PROVE a \in Since(at) \/ b \in Since(at)
  <2>1. \/ attempt[b].created + RequestTime >= restarts[a]
        \/ attempt[a].created + RequestTime >= restarts[b]
    BY <1>1, <1>s DEF InTurn
  <2>2. restarts[a] \in Nat /\ restarts[b] \in Nat
    BY <1>s, <1>t
  <2> QED BY <2>1, <2>2, <1>s, <1>t DEF Since
<1> HIDE DEF S
<1>2. CASE S \subseteq Since(at)
  <2>1. Cardinality(S) =< Cardinality(Since(at))
    BY <1>2, <1>f, FS_Subset
  <2> QED BY <2>1, <1>n DEF S
<1>3. CASE ~(S \subseteq Since(at))
  <2>1. PICK x \in S : x \notin Since(at)
    BY <1>3
  <2>2. S \subseteq Since(at) \cup {x}
    BY <1>1, <2>1
  <2>3. /\ IsFiniteSet(Since(at) \cup {x})
        /\ Cardinality(Since(at) \cup {x}) = Cardinality(Since(at)) + 1
    BY <1>f, <2>1, FS_AddElement
  <2>4. Cardinality(S) =< Cardinality(Since(at) \cup {x})
    BY <2>2, <2>3, FS_Subset
  <2> QED BY <2>3, <2>4 DEF S
<1> QED BY <1>2, <1>3

\* A step that closes no session changes no window, and one that does was
\* within the budget.
LEMMA BoundedStep ==
  ASSUME RestartInv, Inv', TurnInv', [RestartNext]_<<vars, restarts>>
  PROVE  RestartsBounded'
<1> USE DEF RestartInv, TurnInv
<1>n. [Next]_vars
  BY DEF RestartNext
<1>t. /\ now \in Nat /\ now > 0 /\ RestartBudget \in Nat
      /\ restarts \in [Attempts -> Nat] /\ restarts' \in [Attempts -> Nat]
      /\ \A p \in Requests : job[p].at \in Nat
  BY TimeTypes DEF Inv, TypeOK, Job, Past, Clocked
<1>r. \A a \in Attempts : restarts'[a] = IF Restarted(a) THEN now ELSE restarts[a]
  <2>1. CASE UNCHANGED <<vars, restarts>>
    <3>1. \A a \in Attempts : ~Restarted(a)
      BY <2>1 DEF Restarted, vars, remote
    <3> QED BY <2>1, <3>1
  <2>2. CASE RestartNext
    BY <2>2 DEF RestartNext
  <2> QED BY <2>1, <2>2
<1>1. CASE \A a \in Attempts : ~Restarted(a)
  <2>1. \A a \in Attempts : restarts'[a] = restarts[a]
    BY <1>1, <1>r
  <2>2. restarts' = restarts
    BY <2>1, <1>t
  <2> QED BY <2>2 DEF RestartsBounded, RestartsUpTo
<1>2. ASSUME NEW h \in Attempts, Restarted(h) PROVE RestartsBounded'
  <2>1. /\ session[h] = "open" /\ UNCHANGED <<now, attempt>>
        /\ \A b \in Attempts : Restarted(b) => b = h
    BY <1>2, <1>n, RestartIs
  <2>2. PICK p \in Requests \ Apps : pc[p] = "expire" /\ job[p].stale = h
    BY <1>2, <1>n, RestartIs
  <2>3. RecentAttempts(p) =< RestartBudget /\ job[p].at =< now
    BY <2>1, <2>2 DEF Allowed, Clocked
  <2>4. \A b \in Attempts : b # h => restarts'[b] = restarts[b]
    BY <1>r, <2>1
  <2>5. restarts'[h] = now /\ restarts[h] = 0
    BY <1>r, <1>2, <2>1 DEF Past
  <2>6. (Inv /\ Past /\ InTurn)' => Counted'
    BY ClosedAreRecent, PTL
  <2>7. ASSUME NEW CONSTANT t \in Nat, NEW a \in Attempts, restarts'[a] = t, t # 0
        PROVE  Cardinality(RestartsUpTo(t)') =< RestartBudget
    <3>1. t =< now
      BY <2>1, <2>7 DEF Past
    <3>2. CASE t = now
      <4>1. Cardinality(RestartsUpTo(t)') =< Cardinality(Since(job[p].at)) + 1
        <5>1. \A at \in Nat : Since(at)' = Since(at)
          BY <2>1 DEF Since, Recorded
        <5>2. \A at \in Nat : at =< t => Cardinality(RestartsUpTo(t)') =< Cardinality(Since(at)) + 1
          BY <2>6, <5>1 DEF Counted
        <5> QED BY <5>2, <2>3, <3>2, <1>t
      <4>2. Cardinality(Since(job[p].at)) + 1 =< RestartBudget
        BY <2>3 DEF RecentAttempts, Since
      <4>3. Cardinality(Since(job[p].at)) \in Nat /\ Cardinality(RestartsUpTo(t)') \in Nat
        <5>1. IsFiniteSet(Since(job[p].at)) /\ IsFiniteSet(RestartsUpTo(t)')
          BY FS_Subset, AttemptsAssumption DEF Since, RestartsUpTo
        <5> QED BY <5>1, FS_CardinalityType
      <4> QED BY <4>1, <4>2, <4>3, <1>t
    <3>3. CASE t < now
      <4>1. RestartsUpTo(t)' = RestartsUpTo(t)
        BY <3>3, <2>4, <2>5, <1>t DEF RestartsUpTo
      <4>2. a # h /\ restarts[a] = t
        BY <3>3, <2>4, <2>5, <2>7, <1>t
      <4> QED BY <2>7, <4>1, <4>2 DEF RestartsBounded
    <3> QED BY <3>1, <3>2, <3>3, <1>t
  <2>8. \A a \in Attempts : restarts'[a] \in Nat
    BY <1>t
  <2> QED BY <2>7, <2>8 DEF RestartsBounded, RestartsUpTo
<1> QED BY <1>1, <1>2

(***************************************************************************)
(* The theorem.                                                            *)
(***************************************************************************)

\* MayRestart keeps its budget: within a restart window, less the time a request
\* may run, website requests close at most RestartBudget sessions of a donor,
\* whatever requests race with them or crash.
THEOREM RestartsWithinBudget == RestartSpec => []RestartsBounded
<1>1. RestartSpec => Spec
  <2>1. RestartInit => Init
    BY DEF RestartInit
  <2>2. [RestartNext]_<<vars, restarts>> => [Next]_vars
    BY DEF RestartNext
  <2> QED BY <2>1, <2>2, PTL DEF RestartSpec, Spec
<1>2. RestartInit /\ Inv => RestartInv
  <2> SUFFICES ASSUME RestartInit, Inv PROVE TurnInv /\ RestartsBounded
    BY DEF RestartInv
  <2>1. /\ now = 1 /\ \A p \in Requests : pc[p] = "idle"
        /\ restarts \in [Attempts -> Nat] /\ \A a \in Attempts : restarts[a] = 0
    BY Actors DEF RestartInit, Init
  <2> QED BY <2>1 DEF TurnInv, Clocked, Past, Follows, InTurn, Allowed, RestartsBounded
<1>3. RestartInv /\ Inv' /\ [RestartNext]_<<vars, restarts>> => RestartInv'
  <2> SUFFICES ASSUME RestartInv, Inv', [RestartNext]_<<vars, restarts>> PROVE RestartInv'
    OBVIOUS
  <2>1. [Next]_vars /\ Inv /\ Clocked /\ Allowed
    BY DEF RestartNext, RestartInv, TurnInv
  <2>2. Clocked' /\ now =< now' /\ Allowed'
    BY <2>1, ClockedStep, AllowedStep
  <2>3. TurnInv'
    BY <2>2, TurnStep DEF TurnInv
  <2> QED BY <2>3, BoundedStep DEF RestartInv
<1>4. RestartInv => RestartsBounded
  BY DEF RestartInv
<1> QED BY <1>1, <1>2, <1>3, <1>4, InvHolds, PTL DEF RestartSpec
=============================================================================
