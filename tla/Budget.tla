------------------------------- MODULE Budget -------------------------------
(***************************************************************************)
(* The pacing of processor requests, one bucket of each kind:              *)
(*   store/stripe_budget.go     a bucket every replica shares: a row       *)
(*                              holding the next arrival time (GCRA),      *)
(*                              reserved in one statement;                 *)
(*   payments/ratebudget.go     a bucket of one process: tokens refilled   *)
(*                              lazily, behind a mutex.                    *)
(* The buckets of BucketRate never share state, so one of each stands for  *)
(* all four. Time is in ticks; Interval is 1/rate and Tolerance is         *)
(* (burst-1)/rate, the two figures Acquire derives from BucketRate. The    *)
(* tokens of the local bucket are kept as the ticks it took to refill      *)
(* them, so that one token is Interval.                                    *)
(***************************************************************************)
EXTENDS Integers, Sequences

CONSTANTS
  Callers,    \* requests of all replicas that draw on the shared bucket
  Locals,     \* requests inside the one process of the local bucket
  Remaining,  \* the times a caller's context may have left
  Interval, Tolerance,
  MaxWait,    \* maxStripeWait
  MaxTime,    \* bound on the clock
  MaxSlots    \* bound on the requests each bucket admits

ASSUME BudgetAssumption ==
  /\ Callers \cap Locals = {}
  /\ Interval \in Nat \ {0} /\ Tolerance \in Nat
  /\ MaxWait \in Nat /\ MaxTime \in Nat /\ MaxSlots \in Nat
  /\ Remaining \subseteq Nat

VARIABLES
  now,
  nextAt,   \* donor_stripe_budgets.next_at, NoRow before the first request
  tokens,   \* bucket.tokens of the local bucket, in ticks
  last,     \* bucket.last
  pc,       \* "idle", "reserve" (limit computed) or "sleep" (timer running)
  wait,     \* of a caller: its limit, when it reserved and when its timer fires
  shared,   \* the start times the shared bucket handed out, in order
  local     \* and those of the local bucket

vars == <<now, nextAt, tokens, last, pc, wait, shared, local>>

NoRow == -1
Later(a, b) == IF a > b THEN a ELSE b
Sooner(a, b) == IF a < b THEN a ELSE b
NoWait == [limit |-> 0, at |-> 0, until |-> 0]
Burst == Interval + Tolerance

Init ==
  /\ now = 0
  /\ nextAt = NoRow
  /\ tokens = Burst /\ last = 0
  /\ pc = [c \in Callers \cup Locals |-> "idle"]
  /\ wait = [c \in Callers \cup Locals |-> NoWait]
  /\ shared = <<>> /\ local = <<>>

\* The call returns to its caller.
Return(c) ==
  /\ pc' = [pc EXCEPT ![c] = "idle"]
  /\ wait' = [wait EXCEPT ![c] = NoWait]

-----------------------------------------------------------------------------
(* The shared bucket.                                                      *)

\* Acquire up to the statement: the limit is computed from the deadline, and
\* a caller with no time left is refused at once.
Acquire(c) ==
  /\ pc[c] = "idle"
  /\ \E left \in Remaining :
       /\ Sooner(MaxWait, left) > 0
       /\ pc' = [pc EXCEPT ![c] = "reserve"]
       /\ wait' = [wait EXCEPT ![c] = [NoWait EXCEPT !.limit = Sooner(MaxWait, left)]]
  /\ UNCHANGED <<now, nextAt, tokens, last, shared, local>>

\* The WHERE of ReserveStripeRequest: the row's slot lies within the caller's
\* limit, or there is no row yet.
Reservable(limit) == nextAt = NoRow \/ nextAt - now <= Tolerance + limit

\* The value the statement stores: an idle bucket does not save up its slots.
SavesUp == (IF nextAt = NoRow THEN now ELSE nextAt) + Interval   \* mutant
NextArrival == Later(nextAt, now) + Interval

\* ReserveStripeRequest admits the request and answers how long it must wait.
ReserveStripeRequest(c) ==
  /\ pc[c] = "reserve" /\ Len(shared) < MaxSlots
  /\ Reservable(wait[c].limit)
  /\ nextAt' = NextArrival
  /\ LET start == now + Later(0, nextAt' - now - Interval - Tolerance) IN
     /\ shared' = Append(shared, start)
     /\ IF start = now
          THEN Return(c)
          ELSE /\ pc' = [pc EXCEPT ![c] = "sleep"]
               /\ wait' = [wait EXCEPT ![c].at = now, ![c].until = start]
  /\ UNCHANGED <<now, tokens, last, local>>

\* No row comes back: ErrStripeBudget, and nothing is reserved.
Refuse(c) ==
  /\ pc[c] = "reserve"
  /\ ~Reservable(wait[c].limit)
  /\ Return(c)
  /\ UNCHANGED <<now, nextAt, tokens, last, shared, local>>

-----------------------------------------------------------------------------
(* The bucket of one process.                                              *)

Refilled == Sooner(Burst, tokens + (now - last))

HasToken(t) == t >= Interval

\* bucket.reserve, under the mutex: it refills, then spends a token or says
\* how long until one is there.
RateReserve(j) ==
  /\ pc[j] = "idle" \/ (pc[j] = "sleep" /\ wait[j].until <= now)
  /\ Len(local) < MaxSlots
  /\ last' = now
  /\ IF HasToken(Refilled)
       THEN /\ tokens' = Refilled - Interval
            /\ local' = Append(local, now)
            /\ Return(j)
       ELSE /\ tokens' = Refilled
            /\ pc' = [pc EXCEPT ![j] = "sleep"]
            /\ wait' = [wait EXCEPT ![j] = [limit |-> 0, at |-> now, until |-> now + (Interval - Refilled)]]
            /\ UNCHANGED local
  /\ UNCHANGED <<now, nextAt, shared>>

-----------------------------------------------------------------------------
\* The timer of a caller fires; a job's does in RateReserve, which loops.
Wake(c) ==
  /\ pc[c] = "sleep" /\ wait[c].until <= now
  /\ Return(c)
  /\ UNCHANGED <<now, nextAt, tokens, last, shared, local>>

\* The context ends first. A slot that was reserved is not given back.
Cancel(c) ==
  /\ pc[c] # "idle"
  /\ Return(c)
  /\ UNCHANGED <<now, nextAt, tokens, last, shared, local>>

Tick ==
  /\ now < MaxTime
  /\ now' = now + 1
  /\ UNCHANGED <<nextAt, tokens, last, pc, wait, shared, local>>

Next ==
  \/ \E c \in Callers : Acquire(c) \/ ReserveStripeRequest(c) \/ Refuse(c) \/ Wake(c)
  \/ \E j \in Locals : RateReserve(j)
  \/ \E c \in Callers \cup Locals : Cancel(c)
  \/ Tick

Spec == Init /\ [][Next]_vars

-----------------------------------------------------------------------------
\* Types. A bucket never holds more than its burst (ratebudget.go:84), and a
\* refill is never dated after the clock.
TypeOK ==
  /\ now \in Nat
  /\ nextAt \in Nat \cup {NoRow}
  /\ tokens \in 0..Burst
  /\ last \in 0..now
  /\ pc \in [Callers \cup Locals -> {"idle", "reserve", "sleep"}]
  /\ wait \in [Callers \cup Locals -> [limit : Nat, at : Nat, until : Nat]]
  /\ shared \in Seq(Nat) /\ local \in Seq(Nat)

\* Any n+1 consecutive requests of a bucket span at least n intervals less
\* the tolerance.
Paced(slots) ==
  \A i, j \in 1..Len(slots) :
    i <= j => (j - i) * Interval <= Tolerance + (slots[j] - slots[i])

\* However many replicas ask, at whatever moments and with whatever deadlines,
\* the shared bucket never hands out more than its burst and then one request
\* per interval (stripe_budget.go:24, "the Stripe account's request ceiling
\* shared by every process"), counting the slots of callers that gave up.
SharedWithinRate == Paced(shared)

\* The same of the token bucket, whose refill is computed lazily from the time
\* of the last call and capped (ratebudget.go:79).
LocalWithinRate == Paced(local)

\* Neither bucket, the account's shared one or a replica's own, is overdrawn.
WithinRate == SharedWithinRate /\ LocalWithinRate

\* A caller is refused (stripe_budget.go:50, ErrStripeBudget) only when the
\* bucket is full: a request started at any moment before its limit would, with
\* those already admitted, exceed the bucket's rate.
RefusedOnlyWhenFull ==
  [][\A c \in Callers :
       Refuse(c) =>
         \E i \in 1..Len(shared) :
           (Len(shared) + 1 - i) * Interval > Tolerance + (now + wait[c].limit - shared[i])]_vars

\* A caller is never put to sleep for longer than the limit it asked with
\* (stripe_budget.go:16, "A reservation made without a deadline" included).
SleepsWithinLimit ==
  \A c \in Callers : pc[c] = "sleep" => wait[c].until <= wait[c].at + wait[c].limit
=============================================================================
