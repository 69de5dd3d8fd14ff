---------------------------- MODULE ProgrammeProofs ----------------------------
(***************************************************************************)
(* Theorems about Budget, for any number of callers, any deadlines and any *)
(* rate and burst: its types, and that neither bucket ever admits more     *)
(* than its burst and then one request per interval. Then of the whole:    *)
(* what is proved of badges on their own (RecognitionProofs), and, from    *)
(* inductive invariants of Teams, that a month has one winning team and    *)
(* that matching is exact.                                                 *)
(***************************************************************************)
EXTENDS Programme, FiniteSetsExt, FiniteSetTheorems, TLAPS

(***************************************************************************)
(* The inductive invariant. What a bucket stores bounds, for every request *)
(* it admitted, how many came after it: the row's arrival time moves up an *)
(* interval per request, and the tokens fall by one.                       *)
(***************************************************************************)
ArrivalCounts ==
  \A i \in 1..Len(shared) :
    nextAt >= shared[i] + (Len(shared) + 1 - i) * Interval

TokensCount ==
  \A i \in 1..Len(local) :
    tokens + (Len(local) + 1 - i) * Interval <= Burst + (last - local[i])

BudgetInv ==
  /\ TypeOK
  /\ ArrivalCounts /\ SharedWithinRate
  /\ TokensCount /\ LocalWithinRate

USE BudgetAssumption

-----------------------------------------------------------------------------
\* The arithmetic of one more request: n counted intervals are one more.
LEMMA OneMore ==
  ASSUME NEW n \in Int
  PROVE  (n + 1) * Interval = n * Interval + Interval
  OBVIOUS

\* The slot of a request admitted at t, once the row has moved up to next.
LEMMA SlotOf ==
  ASSUME NEW t \in Nat, NEW next \in Nat, NEW old \in Int,
         next >= old + Interval, next >= t + Interval,
         NEW start, start = t + Later(0, next - t - Interval - Tolerance)
  PROVE  /\ start \in Nat
         /\ start >= old - Tolerance
         /\ start + Interval <= next
<1>1. CASE 0 > next - t - Interval - Tolerance
  <2>1. start = t
    BY <1>1 DEF Later
  <2> QED
    BY <1>1, <2>1
<1>2. CASE ~(0 > next - t - Interval - Tolerance)
  <2>1. start = t + (next - t - Interval - Tolerance)
    BY <1>2 DEF Later
  <2> QED
    BY <1>2, <2>1
<1> QED
  BY <1>1, <1>2

\* A pace is kept by one more request that keeps its distance to every
\* earlier one.
LEMMA PacedAppend ==
  ASSUME NEW slots \in Seq(Nat), NEW start \in Nat, Paced(slots),
         \A i \in 1..Len(slots) :
           (Len(slots) + 1 - i) * Interval <= Tolerance + (start - slots[i])
  PROVE  Paced(Append(slots, start))
<1> DEFINE more == Append(slots, start)
<1>1. /\ Len(more) = Len(slots) + 1
      /\ more[Len(slots) + 1] = start
      /\ \A i \in 1..Len(slots) : more[i] = slots[i]
  OBVIOUS
<1> HIDE DEF more
<1> SUFFICES ASSUME NEW i \in 1..Len(more), NEW j \in 1..Len(more), i <= j
             PROVE  (j - i) * Interval <= Tolerance + (more[j] - more[i])
  BY DEF Paced, more
<1> Len(slots) \in Nat
  OBVIOUS
<1>2. CASE j \in 1..Len(slots)
  <2>1. i \in 1..Len(slots)
    BY <1>2
  <2> QED
    BY <1>1, <1>2, <2>1 DEF Paced
<1>3. CASE j = Len(slots) + 1 /\ i \in 1..Len(slots)
  BY <1>1, <1>3
<1>4. CASE j = Len(slots) + 1 /\ i = j
  <2>1. (j - i) * Interval = 0
    BY <1>4
  <2> QED
    BY <1>1, <1>4, <2>1
<1> QED
  BY <1>1, <1>2, <1>3, <1>4

-----------------------------------------------------------------------------
LEMMA InitInv == Init => BudgetInv
<1> SUFFICES ASSUME Init PROVE BudgetInv
  OBVIOUS
<1> Len(shared) = 0 /\ Len(local) = 0
  BY DEF Init
<1> QED
  BY DEF Init, BudgetInv, TypeOK, ArrivalCounts, SharedWithinRate, TokensCount,
         LocalWithinRate, Paced, Burst, NoWait, NoRow

\* A step that leaves the buckets alone only has its types to show.
LEMMA BucketsAlone ==
  ASSUME BudgetInv, TypeOK', UNCHANGED <<nextAt, tokens, last, shared, local>>
  PROVE  BudgetInv'
BY DEF BudgetInv, ArrivalCounts, SharedWithinRate, TokensCount, LocalWithinRate

LEMMA AcquireInv ==
  ASSUME BudgetInv, NEW c \in Callers, Acquire(c)
  PROVE  BudgetInv'
<1>1. PICK left \in Remaining : wait' = [wait EXCEPT ![c] = [NoWait EXCEPT !.limit = Sooner(MaxWait, left)]]
  BY DEF Acquire
<1>2. Sooner(MaxWait, left) \in Nat
  BY DEF Sooner
<1>3. TypeOK'
  BY <1>1, <1>2 DEF Acquire, BudgetInv, TypeOK, NoWait
<1> QED
  BY <1>3, BucketsAlone DEF Acquire

\* Refusals, timers and cancellations end a call and touch no bucket.
LEMMA ReturnInv ==
  ASSUME BudgetInv, NEW c \in Callers \cup Locals, Return(c),
         UNCHANGED <<now, nextAt, tokens, last, shared, local>>
  PROVE  BudgetInv'
<1>1. TypeOK'
  BY DEF Return, BudgetInv, TypeOK, NoWait
<1> QED
  BY <1>1, BucketsAlone

\* The row moves up by an interval for the request it admits, and the slot it
\* hands out is at least the row's old arrival time less the tolerance.
LEMMA ReserveInv ==
  ASSUME BudgetInv, NEW c \in Callers, ReserveStripeRequest(c)
  PROVE  BudgetInv'
<1> DEFINE start == now + Later(0, nextAt' - now - Interval - Tolerance)
<1>1. /\ now \in Nat /\ nextAt \in Nat \cup {NoRow} /\ NoRow = -1
      /\ shared \in Seq(Nat) /\ Len(shared) \in Nat
      /\ \A i \in 1..Len(shared) : shared[i] \in Nat
  BY DEF BudgetInv, TypeOK, NoRow
<1>2. /\ nextAt' \in Nat
      /\ nextAt' >= nextAt + Interval /\ nextAt' >= now + Interval
      /\ start \in Nat
      /\ start >= nextAt - Tolerance
      /\ start + Interval <= nextAt'
  <2>1. /\ nextAt' \in Nat
        /\ nextAt' >= nextAt + Interval /\ nextAt' >= now + Interval
    BY <1>1 DEF ReserveStripeRequest, NextArrival, Later
  <2>2. nextAt \in Int
    BY <1>1
  <2> QED
    BY <1>1, <2>1, <2>2, SlotOf
<1>3. shared' = Append(shared, start) /\ UNCHANGED <<now, tokens, last, local>>
  BY DEF ReserveStripeRequest
<1> HIDE DEF start
<1>4. /\ Len(shared') = Len(shared) + 1
      /\ shared'[Len(shared) + 1] = start
      /\ \A i \in 1..Len(shared) : shared'[i] = shared[i]
      /\ shared' \in Seq(Nat)
  BY <1>1, <1>2, <1>3
<1>5. TypeOK'
  <2>1. pc' \in [Callers \cup Locals -> {"idle", "reserve", "sleep"}]
    BY DEF ReserveStripeRequest, Return, BudgetInv, TypeOK
  <2>2. wait' \in [Callers \cup Locals -> [limit : Nat, at : Nat, until : Nat]]
    <3>1. CASE Return(c)
      BY <3>1 DEF Return, BudgetInv, TypeOK, NoWait
    <3>2. CASE wait' = [wait EXCEPT ![c].at = now, ![c].until = start]
      BY <3>2, <1>1, <1>2 DEF BudgetInv, TypeOK
    <3> QED
      BY <3>1, <3>2 DEF ReserveStripeRequest, start
  <2> QED
    BY <1>2, <1>3, <1>4, <2>1, <2>2 DEF BudgetInv, TypeOK
<1>6. ArrivalCounts'
  <2> SUFFICES ASSUME NEW i \in 1..Len(shared')
               PROVE  nextAt' >= shared'[i] + (Len(shared') + 1 - i) * Interval
    BY DEF ArrivalCounts
  <2>1. CASE i \in 1..Len(shared)
    <3>1. nextAt >= shared[i] + (Len(shared) + 1 - i) * Interval
      BY <2>1 DEF BudgetInv, ArrivalCounts
    <3>2. (Len(shared') + 1 - i) * Interval = (Len(shared) + 1 - i) * Interval + Interval
      BY <1>1, <1>4, <2>1, OneMore
    <3> QED
      BY <1>1, <1>2, <1>4, <2>1, <3>1, <3>2
  <2>2. CASE i = Len(shared) + 1
    <3>1. (Len(shared') + 1 - i) * Interval = Interval
      BY <1>1, <1>4, <2>2
    <3> QED
      BY <1>2, <1>4, <2>2, <3>1
  <2> QED
    BY <1>1, <1>4, <2>1, <2>2
<1>7. SharedWithinRate'
  <2>1. ASSUME NEW i \in 1..Len(shared)
        PROVE  (Len(shared) + 1 - i) * Interval <= Tolerance + (start - shared[i])
    <3>1. nextAt >= shared[i] + (Len(shared) + 1 - i) * Interval
      BY DEF BudgetInv, ArrivalCounts
    <3>2. (Len(shared) + 1 - i) * Interval \in Int /\ shared[i] \in Nat
      BY <1>1
    <3> QED
      BY <1>1, <1>2, <3>1, <3>2
  <2>2. Paced(shared)
    BY DEF BudgetInv, SharedWithinRate
  <2> QED
    BY <1>1, <1>2, <1>3, <2>1, <2>2, PacedAppend DEF SharedWithinRate
<1> QED
  BY <1>3, <1>5, <1>6, <1>7 DEF BudgetInv, TokensCount, LocalWithinRate

\* A refill adds no more than the time that passed, and no more than the burst
\* is ever held; a request takes one interval of it.
LEMMA RateInv ==
  ASSUME BudgetInv, NEW j \in Locals, RateReserve(j)
  PROVE  BudgetInv'
<1>1. /\ now \in Nat /\ tokens \in 0..Burst /\ last \in 0..now /\ Burst = Interval + Tolerance
      /\ local \in Seq(Nat) /\ Len(local) \in Nat
      /\ \A i \in 1..Len(local) : local[i] \in Nat
  BY DEF BudgetInv, TypeOK, Burst
<1>2. Refilled \in 0..Burst /\ Refilled <= tokens + (now - last)
  BY <1>1 DEF Refilled, Sooner
<1>3. last' = now /\ UNCHANGED <<now, nextAt, shared>>
  BY DEF RateReserve
<1>4. \A i \in 1..Len(local) :
        Refilled + (Len(local) + 1 - i) * Interval <= Burst + (now - local[i])
  BY <1>1, <1>2 DEF BudgetInv, TokensCount
<1>5. CASE Refilled >= Interval
  <2>1. /\ tokens' = Refilled - Interval /\ local' = Append(local, now) /\ Return(j)
    BY <1>5 DEF RateReserve, HasToken
  <2>2. /\ Len(local') = Len(local) + 1
        /\ local'[Len(local) + 1] = now
        /\ \A i \in 1..Len(local) : local'[i] = local[i]
        /\ local' \in Seq(Nat)
    BY <1>1, <2>1
  <2>3. TypeOK'
    BY <1>1, <1>2, <1>3, <1>5, <2>1, <2>2 DEF Return, BudgetInv, TypeOK, NoWait
  <2>4. TokensCount'
    <3> SUFFICES ASSUME NEW i \in 1..Len(local')
                 PROVE  tokens' + (Len(local') + 1 - i) * Interval <= Burst + (last' - local'[i])
      BY DEF TokensCount, Burst
    <3>1. CASE i \in 1..Len(local)
      <4>1. (Len(local') + 1 - i) * Interval = (Len(local) + 1 - i) * Interval + Interval
        BY <1>1, <2>2, <3>1, OneMore
      <4> QED
        BY <1>1, <1>2, <1>3, <1>4, <2>1, <2>2, <3>1, <4>1
    <3>2. CASE i = Len(local) + 1
      <4>1. (Len(local') + 1 - i) * Interval = Interval
        BY <1>1, <2>2, <3>2
      <4> QED
        BY <1>1, <1>2, <1>3, <2>1, <2>2, <3>2, <4>1
    <3> QED
      BY <1>1, <2>2, <3>1, <3>2
  <2>5. LocalWithinRate'
    <3>1. ASSUME NEW i \in 1..Len(local)
          PROVE  (Len(local) + 1 - i) * Interval <= Tolerance + (now - local[i])
      BY <1>1, <1>2, <1>4, <1>5
    <3>2. Paced(local)
      BY DEF BudgetInv, LocalWithinRate
    <3> QED
      BY <1>1, <2>1, <3>1, <3>2, PacedAppend DEF LocalWithinRate
  <2> QED
    BY <1>3, <2>3, <2>4, <2>5 DEF BudgetInv, ArrivalCounts, SharedWithinRate
<1>6. CASE ~(Refilled >= Interval)
  <2>1. /\ tokens' = Refilled /\ UNCHANGED local
        /\ pc' = [pc EXCEPT ![j] = "sleep"]
        /\ wait' = [wait EXCEPT ![j] = [limit |-> 0, at |-> now, until |-> now + (Interval - Refilled)]]
    BY <1>6 DEF RateReserve, HasToken
  <2>2. now + (Interval - Refilled) \in Nat
    BY <1>1, <1>2, <1>6
  <2>3. TypeOK'
    BY <1>1, <1>2, <1>3, <2>1, <2>2 DEF BudgetInv, TypeOK
  <2>4. TokensCount'
    BY <1>1, <1>3, <1>4, <2>1 DEF TokensCount, Burst
  <2> QED
    BY <1>3, <2>1, <2>3, <2>4 DEF BudgetInv, ArrivalCounts, SharedWithinRate, LocalWithinRate
<1> QED
  BY <1>5, <1>6

LEMMA StepInv == BudgetInv /\ [Next]_vars => BudgetInv'
<1> SUFFICES ASSUME BudgetInv, [Next]_vars PROVE BudgetInv'
  OBVIOUS
<1>1. ASSUME NEW c \in Callers, Acquire(c) PROVE BudgetInv'
  BY <1>1, AcquireInv
<1>2. ASSUME NEW c \in Callers, ReserveStripeRequest(c) PROVE BudgetInv'
  BY <1>2, ReserveInv
<1>3. ASSUME NEW c \in Callers, Refuse(c) \/ Wake(c) PROVE BudgetInv'
  BY <1>3, ReturnInv DEF Refuse, Wake
<1>4. ASSUME NEW j \in Locals, RateReserve(j) PROVE BudgetInv'
  BY <1>4, RateInv
<1>5. ASSUME NEW c \in Callers \cup Locals, Cancel(c) PROVE BudgetInv'
  BY <1>5, ReturnInv DEF Cancel
<1>6. CASE Tick
  <2>1. TypeOK'
    BY <1>6 DEF Tick, BudgetInv, TypeOK
  <2> QED
    BY <1>6, <2>1, BucketsAlone DEF Tick
<1>7. CASE UNCHANGED vars
  <2>1. TypeOK'
    BY <1>7 DEF vars, BudgetInv, TypeOK
  <2> QED
    BY <1>7, <2>1, BucketsAlone DEF vars
<1> QED
  BY <1>1, <1>2, <1>3, <1>4, <1>5, <1>6, <1>7 DEF Next

-----------------------------------------------------------------------------
\* Every reachable state of the two buckets is well typed; in particular the
\* local bucket's tokens stay between nothing and its burst (reserve in
\* ratebudget.go).
THEOREM TypeCorrect == Spec => []TypeOK
<1>1. BudgetInv => TypeOK
  BY DEF BudgetInv
<1> QED
  BY InitInv, StepInv, <1>1, PTL DEF Spec

\* The shared bucket never admits more than its burst and then one request per
\* interval, whatever the replicas, deadlines and pauses
\* (ReserveStripeRequest).
THEOREM SharedPaced == Spec => []SharedWithinRate
<1>1. BudgetInv => SharedWithinRate
  BY DEF BudgetInv
<1> QED
  BY InitInv, StepInv, <1>1, PTL DEF Spec

\* Nor does the bucket of one process (reserve in ratebudget.go).
THEOREM LocalPaced == Spec => []LocalWithinRate
<1>1. BudgetInv => LocalWithinRate
  BY DEF BudgetInv
<1> QED
  BY InitInv, StepInv, <1>1, PTL DEF Spec

\* Neither the account's shared bucket (stripe_budget.go) nor a replica's token
\* bucket (ratebudget.go) hands out more than its rate and burst, for any number
\* of callers and jobs, any interval and any tolerance.
THEOREM BothPaced == Spec => []WithinRate
<1>1. BudgetInv => WithinRate
  BY DEF BudgetInv, WithinRate
<1> QED
  BY InitInv, StepInv, <1>1, PTL DEF Spec

-----------------------------------------------------------------------------
(***************************************************************************)
(* The whole. A behaviour of it is a behaviour of each component, whose    *)
(* proofs are instantiated with the constants the component has here.      *)
(***************************************************************************)
BadgeProved == INSTANCE RecognitionProofs WITH
  Donors <- BadgeRules.Donors, Known <- BadgeRules.Known, Emails <- BadgeRules.Emails,
  Txs <- BadgeRules.Txs, Devices <- BadgeRules.Devices, Keys <- BadgeRules.Keys,
  Thresholds <- BadgeRules.Thresholds, MaxRefs <- BadgeRules.MaxRefs,
  MaxCheckins <- BadgeRules.MaxCheckins, MaxWrites <- BadgeRules.MaxWrites,
  MaxRules <- BadgeRules.MaxRules, MaxStaff <- BadgeRules.MaxStaff, claims <- badgeClaims
ClaimsProved == INSTANCE RecognitionProofs WITH
  Donors <- FoundingClaims.Donors, Known <- FoundingClaims.Known, Emails <- FoundingClaims.Emails,
  Txs <- FoundingClaims.Txs, Devices <- FoundingClaims.Devices, Keys <- FoundingClaims.Keys,
  Thresholds <- FoundingClaims.Thresholds, MaxRefs <- FoundingClaims.MaxRefs,
  MaxCheckins <- FoundingClaims.MaxCheckins, MaxWrites <- FoundingClaims.MaxWrites,
  MaxRules <- FoundingClaims.MaxRules, MaxStaff <- FoundingClaims.MaxStaff, claims <- badgeClaims

\* The proofs are of the module that Programme composes: both instances have the
\* same definitions.
LEMMA BadgeAssumed == Badge!RecognitionAssumption => BadgeProved!RecognitionAssumption
BY DEF Badge!RecognitionAssumption, BadgeProved!RecognitionAssumption

LEMMA BadgeStepsProved == Badge!Spec => BadgeProved!Spec
BY PTL
   DEF Badge!vars, Badge!Codes, Badge!Counted, Badge!NoEmail, Badge!Elsewhere, Badge!NoBadge,
       Badge!Idle, Badge!Init, Badge!Locking, Badge!Exists, Badge!Holder, Badge!DonorFree,
       Badge!RowFree, Badge!BadgeFree, Badge!reserveEmailIdentity, Badge!Open, Badge!Write,
       Badge!Set, Badge!BeginRefresh, Badge!BeginFact, Badge!FoundingClaimed,
       Badge!projectFacts, Badge!ApplyReferralDelta, Badge!Tick, Badge!Signals,
       Badge!signalsFor, Badge!ruleEarned, Badge!recognitionRules, Badge!EarnBadge, Badge!IsNew,
       Badge!earnBadge, Badge!CommitAwards, Badge!GrantBadge, Badge!RevokeBadge, Badge!Staff,
       Badge!Grant, Badge!Revoke, Badge!SetRules, Badge!Unscheduled,
       Badge!RefreshRecognitionSchedule, Badge!CommitRules, Badge!ImportFoundingClaims,
       Badge!GrantFoundingClaimsByEmail, Badge!ImportGrants, Badge!CommitImport,
       Badge!lockGuest, Badge!completeEmailChange, Badge!GrantFoundingClaim, Badge!ClaimGrant,
       Badge!CommitDonor, Badge!Step, Badge!Next, Badge!Spec, BadgeProved!vars,
       BadgeProved!Codes, BadgeProved!Counted, BadgeProved!NoEmail, BadgeProved!Elsewhere,
       BadgeProved!NoBadge, BadgeProved!Idle, BadgeProved!Init, BadgeProved!Locking,
       BadgeProved!Exists, BadgeProved!Holder, BadgeProved!DonorFree, BadgeProved!RowFree,
       BadgeProved!BadgeFree, BadgeProved!reserveEmailIdentity, BadgeProved!Open,
       BadgeProved!Write, BadgeProved!Set, BadgeProved!BeginRefresh, BadgeProved!BeginFact,
       BadgeProved!FoundingClaimed, BadgeProved!projectFacts, BadgeProved!ApplyReferralDelta,
       BadgeProved!Tick, BadgeProved!Signals, BadgeProved!signalsFor, BadgeProved!ruleEarned,
       BadgeProved!recognitionRules, BadgeProved!EarnBadge, BadgeProved!IsNew,
       BadgeProved!earnBadge, BadgeProved!CommitAwards, BadgeProved!GrantBadge,
       BadgeProved!RevokeBadge, BadgeProved!Staff, BadgeProved!Grant, BadgeProved!Revoke,
       BadgeProved!SetRules, BadgeProved!Unscheduled, BadgeProved!RefreshRecognitionSchedule,
       BadgeProved!CommitRules, BadgeProved!ImportFoundingClaims,
       BadgeProved!GrantFoundingClaimsByEmail, BadgeProved!ImportGrants,
       BadgeProved!CommitImport, BadgeProved!lockGuest, BadgeProved!completeEmailChange,
       BadgeProved!GrantFoundingClaim, BadgeProved!ClaimGrant, BadgeProved!CommitDonor,
       BadgeProved!Step, BadgeProved!Next, BadgeProved!Spec

LEMMA BadgeSaysProved == BadgeProved!SettledIsAwarded => Badge!SettledIsAwarded
BY DEF Badge!Codes, Badge!Qualifies, Badge!SettledIsAwarded, BadgeProved!Codes,
       BadgeProved!Qualifies, BadgeProved!SettledIsAwarded

LEMMA ClaimsAssumed == Claims!RecognitionAssumption => ClaimsProved!RecognitionAssumption
BY DEF Claims!RecognitionAssumption, ClaimsProved!RecognitionAssumption

LEMMA ClaimsStepsProved == Claims!Spec => ClaimsProved!Spec
BY PTL
   DEF Claims!vars, Claims!Codes, Claims!Counted, Claims!NoEmail, Claims!Elsewhere,
       Claims!NoBadge, Claims!Idle, Claims!Init, Claims!Locking, Claims!Exists, Claims!Holder,
       Claims!DonorFree, Claims!RowFree, Claims!BadgeFree, Claims!reserveEmailIdentity,
       Claims!Open, Claims!Write, Claims!Set, Claims!BeginRefresh, Claims!BeginFact,
       Claims!FoundingClaimed, Claims!projectFacts, Claims!ApplyReferralDelta, Claims!Tick,
       Claims!Signals, Claims!signalsFor, Claims!ruleEarned, Claims!recognitionRules,
       Claims!EarnBadge, Claims!IsNew, Claims!earnBadge, Claims!CommitAwards, Claims!GrantBadge,
       Claims!RevokeBadge, Claims!Staff, Claims!Grant, Claims!Revoke, Claims!SetRules,
       Claims!Unscheduled, Claims!RefreshRecognitionSchedule, Claims!CommitRules,
       Claims!ImportFoundingClaims, Claims!GrantFoundingClaimsByEmail, Claims!ImportGrants,
       Claims!CommitImport, Claims!lockGuest, Claims!completeEmailChange,
       Claims!GrantFoundingClaim, Claims!ClaimGrant, Claims!CommitDonor, Claims!Step,
       Claims!Next, Claims!Spec, ClaimsProved!vars, ClaimsProved!Codes, ClaimsProved!Counted,
       ClaimsProved!NoEmail, ClaimsProved!Elsewhere, ClaimsProved!NoBadge, ClaimsProved!Idle,
       ClaimsProved!Init, ClaimsProved!Locking, ClaimsProved!Exists, ClaimsProved!Holder,
       ClaimsProved!DonorFree, ClaimsProved!RowFree, ClaimsProved!BadgeFree,
       ClaimsProved!reserveEmailIdentity, ClaimsProved!Open, ClaimsProved!Write,
       ClaimsProved!Set, ClaimsProved!BeginRefresh, ClaimsProved!BeginFact,
       ClaimsProved!FoundingClaimed, ClaimsProved!projectFacts, ClaimsProved!ApplyReferralDelta,
       ClaimsProved!Tick, ClaimsProved!Signals, ClaimsProved!signalsFor,
       ClaimsProved!ruleEarned, ClaimsProved!recognitionRules, ClaimsProved!EarnBadge,
       ClaimsProved!IsNew, ClaimsProved!earnBadge, ClaimsProved!CommitAwards,
       ClaimsProved!GrantBadge, ClaimsProved!RevokeBadge, ClaimsProved!Staff,
       ClaimsProved!Grant, ClaimsProved!Revoke, ClaimsProved!SetRules, ClaimsProved!Unscheduled,
       ClaimsProved!RefreshRecognitionSchedule, ClaimsProved!CommitRules,
       ClaimsProved!ImportFoundingClaims, ClaimsProved!GrantFoundingClaimsByEmail,
       ClaimsProved!ImportGrants, ClaimsProved!CommitImport, ClaimsProved!lockGuest,
       ClaimsProved!completeEmailChange, ClaimsProved!GrantFoundingClaim,
       ClaimsProved!ClaimGrant, ClaimsProved!CommitDonor, ClaimsProved!Step, ClaimsProved!Next,
       ClaimsProved!Spec

LEMMA ClaimsSaysProved == ClaimsProved!ClaimsGranted => Claims!ClaimsGranted
BY DEF Claims!Waits, Claims!ClaimsGranted, ClaimsProved!Waits, ClaimsProved!ClaimsGranted

\* The parts whose badges are awarded, and whose claims are made.
OfBadges == part = "badges"
OfClaims == part = "claims"

\* A behaviour of one part is that component's.
LEMMA BadgeBehaves == ProgrammeSpec /\ OfBadges => Badge!Spec
<1>1. ProgrammeInit /\ OfBadges => Badge!Init
  BY DEF ProgrammeInit, OfBadges
<1>2. OfBadges /\ [ProgrammeNext]_programmeVars => OfBadges' /\ [Badge!Next]_Badge!vars
  BY DEF OfBadges, ProgrammeNext, programmeVars, badgeVars, Badge!vars
<1> QED BY <1>1, <1>2, PTL DEF ProgrammeSpec, Badge!Spec, Badge!vars

LEMMA ClaimsBehave == ProgrammeSpec /\ OfClaims => Claims!Spec
<1>1. ProgrammeInit /\ OfClaims => Claims!Init
  BY DEF ProgrammeInit, OfClaims
<1>2. OfClaims /\ [ProgrammeNext]_programmeVars => OfClaims' /\ [Claims!Next]_Claims!vars
  BY DEF OfClaims, ProgrammeNext, programmeVars, badgeVars, Claims!vars
<1> QED BY <1>1, <1>2, PTL DEF ProgrammeSpec, Claims!Spec, Claims!vars

\* No award is lost to an overlap of facts, referrals and changes of the rules, in
\* the whole as on its own. Claims are lost in the two ways ClaimsGranted excepts
\* and in no other: a sign-up without the key when the address was claimed, and an
\* import and a sign-up that overlapped and missed each other
\* (awardBadges, SetRules, ImportFoundingClaims, GrantFoundingClaim).
THEOREM AwardsKept == ProgrammeSpec => []SettledIsAwarded
<1>1. ProgrammeSpec /\ OfBadges => []Badge!SettledIsAwarded
  <2>1. BadgeProved!RecognitionAssumption
    BY Instances, BadgeAssumed
  <2>2. BadgeProved!Spec => []BadgeProved!SettledIsAwarded
    BY <2>1, BadgeProved!NoAwardLost
  <2> QED BY <2>2, BadgeStepsProved, BadgeSaysProved, BadgeBehaves, PTL
<1>2. ProgrammeSpec /\ OfClaims => []Claims!ClaimsGranted
  <2>1. ClaimsProved!RecognitionAssumption
    BY Instances, ClaimsAssumed
  <2>2. ClaimsProved!Spec => []ClaimsProved!ClaimsGranted
    BY <2>1, ClaimsProved!ClaimsMeetOrAreMissed
  <2> QED BY <2>2, ClaimsStepsProved, ClaimsSaysProved, ClaimsBehave, PTL
<1>3. SettledIsAwarded <=> /\ (OfBadges => Badge!SettledIsAwarded)
                           /\ (OfClaims => Claims!ClaimsGranted)
  BY DEF SettledIsAwarded, OfBadges, OfClaims
<1>4. ~OfBadges /\ [ProgrammeNext]_programmeVars => (~OfBadges)'
  BY Zenon DEF OfBadges, ProgrammeNext, programmeVars
<1>5. ~OfClaims /\ [ProgrammeNext]_programmeVars => (~OfClaims)'
  BY Zenon DEF OfClaims, ProgrammeNext, programmeVars
<1> QED BY <1>1, <1>2, <1>3, <1>4, <1>5, PTL DEF ProgrammeSpec

-----------------------------------------------------------------------------
(***************************************************************************)
(* Sums over finite sets, which what a team gives and what an employer     *)
(* matches are. A sum is defined step by step; what holds of every sum is  *)
(* shown of a smallest set for which it might not.                         *)
(***************************************************************************)
HIDE BudgetAssumption

\* Among finite sets there is a smallest.
LEMMA Smallest ==
  ASSUME NEW S, IsFiniteSet(S), NEW Bad \in SUBSET SUBSET S, Bad # {}
  PROVE  \E T \in Bad : \A U \in SUBSET T : U # T => U \notin Bad
<1> DEFINE R == StrictSubsetOrdering(S)
<1>1. IsWellFoundedOn(R, SUBSET S)
  BY FS_StrictSubsetOrderingWellFounded, FS_FiniteSubsetsOfFinite
<1>2. \A A, B \in SUBSET S : A \subseteq B /\ A # B => <<A, B>> \in R
  BY DEF StrictSubsetOrdering
<1> HIDE DEF R
<1>3. PICK T \in Bad : \A A \in Bad : <<A, T>> \notin R
  BY <1>1, WFMin
<1> QED BY <1>2, <1>3, Zenon

Sum(f, S) == MapThenSumSet(LAMBDA d : f[d], S)
Pick(s) == CHOOSE x \in s : TRUE
Adds(f, g, S) == g = [s \in SUBSET S |-> IF s = {} THEN 0 ELSE f[Pick(s)] + g[s \ {Pick(s)}]]

LEMMA SumIs ==
  ASSUME NEW S, NEW f
  PROVE  Sum(f, S) = (CHOOSE g : Adds(f, g, S))[S]
BY DEF Sum, Adds, Pick, MapThenSumSet, MapThenFoldSet

\* The sum of a smaller set within that of a larger one.
LEMMA SumWithin ==
  ASSUME NEW f, NEW A, IsFiniteSet(A), NEW B \in SUBSET A, NEW g, NEW h,
         Adds(f, g, A), Adds(f, h, B), NEW T \in SUBSET B
  PROVE  g[T] = h[T]
<1> DEFINE Bad == {U \in SUBSET B : g[U] # h[U]}
<1> SUFFICES ASSUME Bad # {} PROVE FALSE
  OBVIOUS
<1>1. IsFiniteSet(B) /\ Bad \in SUBSET SUBSET B
  BY FS_Subset
<1>3. PICK U \in Bad : \A V \in SUBSET U : V # U => V \notin Bad
  <2> HIDE DEF Bad
  <2> QED BY <1>1, Smallest
<1>4. CASE U = {}
  BY <1>3, <1>4 DEF Adds
<1>5. CASE U # {}
  <2>1. Pick(U) \in U
    BY <1>5 DEF Pick
  <2>2. U \ {Pick(U)} \notin Bad
    BY <1>3, <2>1
  <2>3. g[U \ {Pick(U)}] = h[U \ {Pick(U)}]
    BY <2>2
  <2>4. /\ g[U] = f[Pick(U)] + g[U \ {Pick(U)}]
        /\ h[U] = f[Pick(U)] + h[U \ {Pick(U)}]
    BY <1>3, <1>5 DEF Adds
  <2> QED BY <1>3, <2>3, <2>4
<1> QED BY <1>4, <1>5

LEMMA SumExists ==
  ASSUME NEW f, NEW S, IsFiniteSet(S)
  PROVE  \E g : Adds(f, g, S)
<1> DEFINE Bad == {U \in SUBSET S : ~\E g : Adds(f, g, U)}
           Of(U) == CHOOSE g : Adds(f, g, U)
<1> SUFFICES ASSUME Bad # {} PROVE FALSE
  OBVIOUS
<1>1. IsFiniteSet(S) /\ Bad \in SUBSET SUBSET S
  BY FS_Subset
<1>3. PICK T \in Bad : \A V \in SUBSET T : V # T => V \notin Bad
  <2> HIDE DEF Bad
  <2> QED BY <1>1, Smallest
<1>4. ASSUME NEW U \in SUBSET T, U # T
      PROVE  Adds(f, Of(U), U)
  <2>1. U \notin Bad
    BY <1>3, <1>4
  <2> QED BY <1>3, <2>1
<1> IsFiniteSet(T)
  BY FS_Subset
<1> DEFINE less(U) == U \ {Pick(U)}
           g == [U \in SUBSET T |-> IF U = {} THEN 0 ELSE f[Pick(U)] + Of(less(U))[less(U)]]
<1>5. ASSUME NEW U \in SUBSET T, U # {}
      PROVE  g[less(U)] = Of(less(U))[less(U)]
  <2>1. Pick(U) \in U
    BY <1>5 DEF Pick
  <2> DEFINE W == less(U)
  <2>2. W \in SUBSET T /\ W # T
    BY <2>1
  <2>3. Adds(f, Of(W), W)
    BY <1>4, <2>2
  <2> HIDE DEF W, Of, Bad
  <2>4. CASE W = {}
    <3>1. Of(W)[W] = 0
      BY <2>3, <2>4 DEF Adds
    <3>2. g[W] = 0
      BY <2>2, <2>4
    <3> QED BY <3>1, <3>2 DEF W
  <2>5. CASE W # {}
    <3>1. Pick(W) \in W
      BY <2>5 DEF Pick
    <3>2. less(W) \in SUBSET W /\ less(W) # T /\ less(W) \in SUBSET T
      BY <2>2, <3>1
    <3>3. Adds(f, Of(less(W)), less(W))
      BY <1>4, <3>2
    <3>4. IsFiniteSet(W)
      BY <1>3, <2>2, FS_Subset
    <3>5. Of(W)[less(W)] = Of(less(W))[less(W)]
      <4> less(W) \in SUBSET less(W)
        OBVIOUS
      <4> HIDE DEF less
      <4> QED BY <2>3, <3>2, <3>3, <3>4, SumWithin
    <3>6. Of(W)[W] = f[Pick(W)] + Of(W)[less(W)]
      BY <2>3, <2>5, Zenon DEF Adds
    <3>7. g[W] = f[Pick(W)] + Of(less(W))[less(W)]
      BY <2>2, <2>5
    <3> QED BY <3>5, <3>6, <3>7 DEF W
  <2> QED BY <2>4, <2>5
<1> HIDE DEF Of
<1>6. Adds(f, g, T)
  <2> DEFINE k == [U \in SUBSET T |-> IF U = {} THEN 0 ELSE f[Pick(U)] + g[less(U)]]
  <2>1. \A U \in SUBSET T : g[U] = k[U]
    BY <1>5, Zenon
  <2>2. g = k
    <3> HIDE DEF less
    <3> QED BY <2>1
  <2> QED BY <2>2 DEF Adds
<1> QED BY <1>3, <1>6

\* A sum is its first element's share and the sum of the rest.
LEMMA SumStep ==
  ASSUME NEW f, NEW S, IsFiniteSet(S)
  PROVE  Sum(f, S) = IF S = {} THEN 0 ELSE f[Pick(S)] + Sum(f, S \ {Pick(S)})
<1> DEFINE Of(U) == CHOOSE g : Adds(f, g, U)
           T == S \ {Pick(S)}
<1>1. IsFiniteSet(T) /\ T \in SUBSET S
  BY FS_Subset
<1>2. Adds(f, Of(S), S) /\ Adds(f, Of(T), T)
  BY <1>1, SumExists
<1>3. Sum(f, S) = Of(S)[S] /\ Sum(f, T) = Of(T)[T]
  BY SumIs, Zenon
<1> HIDE DEF Of
<1> HIDE DEF T
<1>4. Of(S)[T] = Of(T)[T]
  <2> T \in SUBSET T
    OBVIOUS
  <2> QED BY <1>1, <1>2, SumWithin
<1>5. Of(S)[S] = IF S = {} THEN 0 ELSE f[Pick(S)] + Of(S)[T]
  BY <1>2 DEF Adds, T
<1> QED BY <1>3, <1>4, <1>5 DEF T

LEMMA SumType ==
  ASSUME NEW f, NEW S, IsFiniteSet(S), \A x \in S : f[x] \in Int
  PROVE  Sum(f, S) \in Int
<1> DEFINE Bad == {U \in SUBSET S : Sum(f, U) \notin Int}
<1> SUFFICES ASSUME Bad # {} PROVE FALSE
  OBVIOUS
<1>1. IsFiniteSet(S) /\ Bad \in SUBSET SUBSET S
  BY FS_Subset
<1>3. PICK T \in Bad : \A V \in SUBSET T : V # T => V \notin Bad
  <2> HIDE DEF Bad
  <2> QED BY <1>1, Smallest
<1>4. IsFiniteSet(T)
  BY <1>3, FS_Subset
<1>5. T # {}
  <2> Sum(f, {}) = 0
    BY FS_EmptySet, SumStep
  <2>1. Sum(f, T) \notin Int
    BY <1>3
  <2> QED BY <2>1
<1>6. Pick(T) \in T
  BY <1>5 DEF Pick
<1>7. T \ {Pick(T)} \notin Bad
  BY <1>3, <1>6
<1> QED BY <1>3, <1>4, <1>5, <1>6, <1>7, SumStep

\* In whatever order.
LEMMA SumAdd ==
  ASSUME NEW f, NEW S, IsFiniteSet(S), \A x \in S : f[x] \in Int, NEW x \in S
  PROVE  Sum(f, S) = f[x] + Sum(f, S \ {x})
<1> DEFINE Bad == {U \in SUBSET S : \E y \in U : Sum(f, U) # f[y] + Sum(f, U \ {y})}
<1> SUFFICES ASSUME Bad # {} PROVE FALSE
  OBVIOUS
<1>1. IsFiniteSet(S) /\ Bad \in SUBSET SUBSET S
  BY FS_Subset
<1>3. PICK T \in Bad : \A V \in SUBSET T : V # T => V \notin Bad
  <2> HIDE DEF Bad
  <2> QED BY <1>1, Smallest
<1>4. PICK y \in T : Sum(f, T) # f[y] + Sum(f, T \ {y})
  BY <1>3
<1>5. Pick(T) \in T
  BY DEF Pick
<1>6. \A U \in SUBSET S : IsFiniteSet(U) /\ Sum(f, U) \in Int
  BY FS_Subset, SumType
<1>7. Sum(f, T) = f[Pick(T)] + Sum(f, T \ {Pick(T)})
  BY <1>3, <1>5, <1>6, SumStep
<1>8. y # Pick(T)
  BY <1>4, <1>7
<1> DEFINE both == T \ {y, Pick(T)}
<1>9. /\ (T \ {y}) \ {Pick(T)} = both /\ (T \ {Pick(T)}) \ {y} = both
      /\ both \in SUBSET S /\ T \ {y} \in SUBSET S /\ T \ {Pick(T)} \in SUBSET S
  BY <1>3
<1>10. T \ {y} \notin Bad /\ T \ {Pick(T)} \notin Bad
  BY <1>3, <1>5, <1>9, Zenon
<1>11. /\ Sum(f, T \ {y}) = f[Pick(T)] + Sum(f, both)
       /\ Sum(f, T \ {Pick(T)}) = f[y] + Sum(f, both)
  BY <1>4, <1>5, <1>8, <1>9, <1>10
<1>12. f[y] \in Int /\ f[Pick(T)] \in Int /\ Sum(f, both) \in Int
  BY <1>3, <1>5, <1>6, <1>9
<1> HIDE DEF both
<1> QED BY <1>4, <1>7, <1>11, <1>12

\* A sum of numbers is no less than how many of them are not zero.
LEMMA SumCounts ==
  ASSUME NEW f, NEW S, IsFiniteSet(S), \A x \in S : f[x] \in Nat
  PROVE  /\ Sum(f, S) \in Nat
         /\ Sum(f, S) >= Cardinality({x \in S : f[x] > 0})
         /\ (\A x \in S : f[x] = 0) => Sum(f, S) = 0
<1> DEFINE Some(U) == {x \in U : f[x] > 0}
           Holds(U) == /\ Sum(f, U) \in Nat
                       /\ Sum(f, U) >= Cardinality(Some(U))
                       /\ (\A x \in U : f[x] = 0) => Sum(f, U) = 0
           Bad == {U \in SUBSET S : ~Holds(U)}
<1> SUFFICES ASSUME Bad # {} PROVE FALSE
  OBVIOUS
<1>1. PICK T \in Bad : \A V \in SUBSET T : V # T => V \notin Bad
  <2> HIDE DEF Bad
  <2>1. Bad \in SUBSET SUBSET S
    BY DEF Bad
  <2> QED BY <2>1, Smallest
<1>2. \A U \in SUBSET S : IsFiniteSet(U)
  BY FS_Subset
<1>3. T # {}
  <2>1. Sum(f, {}) = 0 /\ Cardinality({}) = 0
    BY FS_EmptySet, SumStep
  <2>2. Some({}) = {}
    OBVIOUS
  <2>3. Holds({})
    <3> HIDE DEF Some
    <3> QED BY <2>1, <2>2
  <2>4. ~Holds(T)
    BY <1>1
  <2> HIDE DEF Holds
  <2> QED BY <2>3, <2>4
<1> DEFINE y == Pick(T)
           rest == T \ {y}
<1>4. y \in T
  BY <1>3 DEF Pick
<1>5. rest \in SUBSET S /\ rest # T /\ rest \in SUBSET T /\ T \in SUBSET S /\ f[y] \in Nat
  BY <1>1, <1>4
<1>6. Holds(rest)
  BY <1>1, <1>5
<1>7. Sum(f, T) = f[y] + Sum(f, rest)
  BY <1>2, <1>3, <1>5, SumStep
<1> HIDE DEF rest, y
<1>8. Cardinality(Some(T)) = Cardinality(Some(rest)) + (IF f[y] > 0 THEN 1 ELSE 0)
  <2>1. CASE f[y] > 0
    <3>1. Some(T) = Some(rest) \cup {y} /\ y \notin Some(rest) /\ Some(rest) \in SUBSET S
      BY <1>4, <1>5, <2>1 DEF rest
    <3> HIDE DEF Some
    <3> QED BY <1>2, <2>1, <3>1, FS_AddElement
  <2>2. CASE ~(f[y] > 0)
    <3>1. Some(T) = Some(rest)
      BY <1>4, <2>2 DEF rest
    <3>2. Some(rest) \in SUBSET S
      BY <1>5
    <3> HIDE DEF Some
    <3> QED BY <1>2, <2>2, <3>1, <3>2, FS_CardinalityType
  <2> QED BY <2>1, <2>2
<1>9. Cardinality(Some(rest)) \in Nat
  <2>1. Some(rest) \in SUBSET S
    BY <1>5
  <2> HIDE DEF Some
  <2> QED BY <1>2, <2>1, FS_CardinalityType
<1>10. Sum(f, T) \in Nat /\ Sum(f, T) >= Cardinality(Some(T))
  <2> HIDE DEF Some
  <2> QED BY <1>5, <1>6, <1>7, <1>8, <1>9
<1>11. (\A x \in T : f[x] = 0) => Sum(f, T) = 0
  BY <1>4, <1>6, <1>7 DEF rest
<1>12. Holds(T)
  BY <1>10, <1>11
<1> HIDE DEF Holds
<1> QED BY <1>1, <1>12

-----------------------------------------------------------------------------
(***************************************************************************)
(* The teams whose months are closed. What a worker has awarded and not    *)
(* committed is for the winner it noted, in a month nobody else may close; *)
(* so a committed award stays with the month's record.                     *)
(***************************************************************************)
Team == ClosingMonths.Partners \X ClosingMonths.Names
AnyTeam == Team \cup {Winners!NoTeam}
AnyPartner == ClosingMonths.Partners \cup {Winners!None}
Month == 0..ClosingMonths.MaxMonth
Award == [donor : ClosingMonths.Donors, team : Team, month : Month]
MonthRow == [closed : BOOLEAN, winner : AnyTeam, members : SUBSET ClosingMonths.Donors]
WorkRow ==
  [pc : {"idle", "close", "rank", "award"}, month : Month, todo : SUBSET ClosingMonths.Partners,
   partner : AnyPartner, won : [ClosingMonths.Partners -> AnyTeam],
   members : [ClosingMonths.Partners -> SUBSET ClosingMonths.Donors],
   closed : SUBSET ClosingMonths.Partners, earned : SUBSET Award]

WinnersTyped ==
  /\ approved \subseteq ClosingMonths.Partners
  /\ link \in [ClosingMonths.Donors -> [partner : AnyPartner, team : AnyTeam]]
  /\ pledge \in [ClosingMonths.Donors -> ClosingMonths.Pledges]
  /\ teamMonth \in Nat \ {0} /\ (teamMonth = 1 \/ teamMonth <= ClosingMonths.MaxMonth)
  /\ months \in [ClosingMonths.Partners -> [Month -> MonthRow]]
  /\ awarded \subseteq Award /\ wt \subseteq ClosingMonths.Donors
  /\ work \in [ClosingMonths.Workers -> WorkRow]

\* What one worker's open transaction has done.
OpenAwards(r) ==
  \A a \in r.earned : a.month = r.month /\ a.team[1] \in r.closed /\ r.won[a.team[1]] = a.team
OpenPartner(r) ==
  /\ r.pc \in {"rank", "award"} => r.partner \in r.closed /\ \A a \in r.earned : a.team[1] # r.partner
  /\ r.pc = "award" => r.won[r.partner][1] = r.partner
OpenMonth(r) == r.todo \cap r.closed = {} /\ \A p \in r.closed : ~months[p][r.month].closed
OpenMembers(r) ==
  \A p \in ClosingMonths.Partners :
    (r.pc = "award" /\ r.partner = p) \/ \A d \in r.members[p] : \E a \in r.earned : a.donor = d

WinnersInv ==
  /\ WinnersTyped
  /\ \A w \in ClosingMonths.Workers :
       OpenAwards(work[w]) /\ OpenPartner(work[w]) /\ OpenMonth(work[w]) /\ OpenMembers(work[w])
  /\ \A v, w \in ClosingMonths.Workers :
       v # w /\ work[v].month = work[w].month => work[v].closed \cap work[w].closed = {}
  /\ Winners!OneWinningTeam /\ Winners!WinnersAwarded

LEMMA WinnersAssumed ==
  /\ IsFiniteSet(ClosingMonths.Donors) /\ ClosingMonths.Partners \subseteq Nat \ {0}
  /\ ClosingMonths.Names \subseteq Nat \ {0} /\ ClosingMonths.Pledges \subseteq Nat
  /\ ClosingMonths.Minimum \in Nat \ {0} /\ ClosingMonths.MaxMonth \in Nat
  /\ Winners!None = 0 /\ Winners!NoTeam = <<0, 0>>
BY Instances DEF Winners!TeamsAssumption, Winners!None, Winners!NoTeam, Winners!IsFiniteSet, IsFiniteSet

LEMMA LeastPartner ==
  ASSUME NEW T \in SUBSET Nat, T # {}
  PROVE  Winners!Min(T) \in T
<1> DEFINE R == OpToRel(<, Nat)
<1>1. \A x, y \in Nat : <<y, x>> \in R <=> y < x
  BY DEF OpToRel
<1>2. IsWellFoundedOn(R, Nat)
  BY NatLessThanWellFounded, Zenon
<1> HIDE DEF R
<1>3. PICK x \in T : \A y \in T : ~(<<y, x>> \in R)
  BY <1>2, WFMin, Zenon
<1>4. \A y \in T : ~(y < x)
  BY <1>1, <1>3
<1>5. \A y \in T : x <= y
  BY <1>4
<1> QED BY <1>5 DEF Winners!Min

LEMMA WinnersInit == Winners!Init => WinnersInv
<1> SUFFICES ASSUME Winners!Init PROVE WinnersInv
  OBVIOUS
<1>1. Winners!Idle \in WorkRow
  BY WinnersAssumed DEF Winners!Idle, WorkRow, Month, AnyPartner, AnyTeam
<1>2. Winners!Unclosed \in MonthRow
  BY DEF Winners!Unclosed, MonthRow, AnyTeam
<1>3. WinnersTyped
  BY <1>1, <1>2, WinnersAssumed DEF Winners!Init, WinnersTyped, Month, AnyPartner, AnyTeam
<1>4. \A w \in ClosingMonths.Workers :
        OpenAwards(work[w]) /\ OpenPartner(work[w]) /\ OpenMonth(work[w]) /\ OpenMembers(work[w])
  BY DEF Winners!Init, Winners!Idle, OpenAwards, OpenPartner, OpenMonth, OpenMembers
<1>5. \A v, w \in ClosingMonths.Workers :
        v # w /\ work[v].month = work[w].month => work[v].closed \cap work[w].closed = {}
  BY DEF Winners!Init, Winners!Idle
<1>6. Winners!OneWinningTeam /\ Winners!WinnersAwarded
  <2>1. \A p \in ClosingMonths.Partners, m \in Month : months[p][m].members = {}
    BY DEF Winners!Init, Winners!Unclosed, Month
  <2> QED BY <2>1 DEF Winners!Init, Winners!OneWinningTeam, Winners!WinnersAwarded, Month
<1> QED BY <1>3, <1>4, <1>5, <1>6 DEF WinnersInv

\* A step that leaves the months and the workers alone only has its types to
\* show.
LEMMA WinnersRest ==
  ASSUME WinnersInv, WinnersTyped', UNCHANGED <<months, wt, awarded, work>>
  PROVE  WinnersInv'
<1>1. \A w \in ClosingMonths.Workers :
        (OpenAwards(work[w]) /\ OpenPartner(work[w]) /\ OpenMonth(work[w]) /\ OpenMembers(work[w]))'
  BY DEF WinnersInv, OpenAwards, OpenPartner, OpenMonth, OpenMembers
<1> QED BY <1>1 DEF WinnersInv, Winners!OneWinningTeam, Winners!WinnersAwarded

\* What donors and staff do.
LEMMA DonorsInv ==
  ASSUME WinnersInv,
         \/ \E p \in ClosingMonths.Partners :
              Winners!Approve(p) \/ \E t \in ClosingMonths.Terms : Winners!SetTerms(p, t)
         \/ \E v \in ClosingMonths.Visitors :
              Winners!Expire(v) \/ \E p \in ClosingMonths.Partners : Winners!CaptureCompanyCode(v, p)
         \/ \E d \in ClosingMonths.Donors :
              \/ \E v \in ClosingMonths.Visitors : Winners!bindCompanyCode(d, v)
              \/ \E p \in ClosingMonths.Partners : Winners!Enroll(d, p)
              \/ \E n \in ClosingMonths.Names : Winners!JoinTeam(d, n)
              \/ \E a \in ClosingMonths.Pledges : Winners!ChangePledge(d, a)
              \/ Winners!DeleteEmployeeLink(d)
         \/ Winners!MonthEnds
         \/ \E s \in ClosingMonths.Staff :
              \/ \E p \in ClosingMonths.Partners :
                   \/ Winners!MatchGifts(s, p)
                   \/ \E r \in ClosingMonths.Requests, a \in ClosingMonths.Amounts :
                        Winners!RecordMatchPayment(s, r, p, a)
              \/ Winners!Match(s) \/ Winners!InsertMatchPayment(s) \/ Winners!Replay(s)
  PROVE  WinnersInv'
<1> USE DEF WinnersInv
<1>1. ASSUME NEW p \in ClosingMonths.Partners, Winners!Approve(p)
      PROVE  WinnersInv'
  <2> WinnersTyped'
    BY <1>1 DEF WinnersTyped, Winners!Approve, Winners!monthVars, Winners!ledgerVars
  <2> QED BY <1>1, WinnersRest DEF Winners!Approve, Winners!monthVars
<1>2. ASSUME NEW p \in ClosingMonths.Partners, NEW t \in ClosingMonths.Terms, Winners!SetTerms(p, t)
      PROVE  WinnersInv'
  <2> WinnersTyped'
    BY <1>2 DEF WinnersTyped, Winners!SetTerms, Winners!monthVars
  <2> QED BY <1>2, WinnersRest DEF Winners!SetTerms, Winners!monthVars
<1>3. ASSUME NEW v \in ClosingMonths.Visitors,
             Winners!Expire(v) \/ \E p \in ClosingMonths.Partners : Winners!CaptureCompanyCode(v, p)
      PROVE  WinnersInv'
  <2> WinnersTyped'
    BY <1>3 DEF WinnersTyped, Winners!Expire, Winners!CaptureCompanyCode, Winners!monthVars
  <2> QED BY <1>3, WinnersRest DEF Winners!Expire, Winners!CaptureCompanyCode, Winners!monthVars
<1>4. ASSUME NEW d \in ClosingMonths.Donors, NEW v \in ClosingMonths.Visitors,
             Winners!bindCompanyCode(d, v)
      PROVE  WinnersInv'
  <2>1. Winners!PartnerByCompanyCode(touch[v]) => touch[v] \in ClosingMonths.Partners
    BY DEF WinnersTyped, Winners!PartnerByCompanyCode
  <2>2. link' \in [ClosingMonths.Donors -> [partner : AnyPartner, team : AnyTeam]]
    BY <1>4, <2>1 DEF WinnersTyped, Winners!bindCompanyCode, Winners!UpsertEmployeeLink, AnyPartner, AnyTeam
  <2> WinnersTyped'
    BY <1>4, <2>2 DEF WinnersTyped, Winners!bindCompanyCode, Winners!monthVars
  <2> QED BY <1>4, WinnersRest DEF Winners!bindCompanyCode, Winners!monthVars
<1>5. ASSUME NEW d \in ClosingMonths.Donors, NEW p \in ClosingMonths.Partners, Winners!Enroll(d, p)
      PROVE  WinnersInv'
  <2>1. link' \in [ClosingMonths.Donors -> [partner : AnyPartner, team : AnyTeam]]
    BY <1>5 DEF WinnersTyped, Winners!Enroll, Winners!UpsertEmployeeLink, AnyPartner, AnyTeam
  <2> WinnersTyped'
    BY <1>5, <2>1 DEF WinnersTyped, Winners!Enroll, Winners!monthVars
  <2> QED BY <1>5, WinnersRest DEF Winners!Enroll, Winners!monthVars
<1>6. ASSUME NEW d \in ClosingMonths.Donors, NEW n \in ClosingMonths.Names, Winners!JoinTeam(d, n)
      PROVE  WinnersInv'
  <2>1. <<link[d].partner, n>> \in AnyTeam
    BY <1>6, WinnersAssumed DEF WinnersTyped, Winners!JoinTeam, AnyPartner, AnyTeam, Team
  <2>2. link' \in [ClosingMonths.Donors -> [partner : AnyPartner, team : AnyTeam]]
    BY <1>6, <2>1 DEF WinnersTyped, Winners!JoinTeam
  <2> WinnersTyped'
    BY <1>6, <2>2 DEF WinnersTyped, Winners!JoinTeam, Winners!monthVars
  <2> QED BY <1>6, WinnersRest DEF Winners!JoinTeam, Winners!monthVars
<1>7. ASSUME NEW d \in ClosingMonths.Donors, NEW a \in ClosingMonths.Pledges, Winners!ChangePledge(d, a)
      PROVE  WinnersInv'
  <2> WinnersTyped'
    BY <1>7 DEF WinnersTyped, Winners!ChangePledge, Winners!monthVars
  <2> QED BY <1>7, WinnersRest DEF Winners!ChangePledge, Winners!monthVars
<1>8. ASSUME NEW d \in ClosingMonths.Donors, Winners!DeleteEmployeeLink(d)
      PROVE  WinnersInv'
  <2>1. link' \in [ClosingMonths.Donors -> [partner : AnyPartner, team : AnyTeam]]
    BY <1>8 DEF WinnersTyped, Winners!DeleteEmployeeLink, AnyPartner, AnyTeam
  <2> WinnersTyped'
    BY <1>8, <2>1 DEF WinnersTyped, Winners!DeleteEmployeeLink, Winners!monthVars
  <2> QED BY <1>8, WinnersRest DEF Winners!DeleteEmployeeLink, Winners!monthVars
<1>9. ASSUME Winners!MonthEnds
      PROVE  WinnersInv'
  <2> WinnersTyped'
    BY <1>9, WinnersAssumed DEF WinnersTyped, Winners!MonthEnds, Winners!donorVars
  <2> QED BY <1>9, WinnersRest DEF Winners!MonthEnds
<1>10. ASSUME UNCHANGED <<Winners!donorVars, Winners!monthVars>>
       PROVE  WinnersInv'
  <2> WinnersTyped'
    BY <1>10 DEF WinnersTyped, Winners!donorVars, Winners!monthVars
  <2> QED BY <1>10, WinnersRest DEF Winners!monthVars
<1>11. ASSUME NEW s \in ClosingMonths.Staff,
              \/ \E p \in ClosingMonths.Partners :
                   \/ Winners!MatchGifts(s, p)
                   \/ \E r \in ClosingMonths.Requests, a \in ClosingMonths.Amounts :
                        Winners!RecordMatchPayment(s, r, p, a)
              \/ Winners!Match(s) \/ Winners!InsertMatchPayment(s) \/ Winners!Replay(s)
       PROVE  WinnersInv'
  <2> UNCHANGED <<Winners!donorVars, Winners!monthVars>>
    BY <1>11, Zenon DEF Winners!MatchGifts, Winners!RecordMatchPayment, Winners!Match,
                 Winners!InsertMatchPayment, Winners!Replay
  <2> QED BY <1>10
<1> HIDE DEF WinnersInv
<1> QED BY <1>1, <1>2, <1>3, <1>4, <1>5, <1>6, <1>7, <1>8, <1>9, <1>11

\* What one worker's step has to keep, of its own transaction; the others'
\* are as they were.
LEMMA OneWorker ==
  ASSUME WinnersInv, NEW w \in ClosingMonths.Workers, NEW r \in WorkRow,
         work' = [work EXCEPT ![w] = r], UNCHANGED <<months, wt, awarded>>,
         UNCHANGED <<Winners!donorVars, teamMonth>>,
         OpenAwards(r), OpenPartner(r), OpenMonth(r), OpenMembers(r),
         \A v \in ClosingMonths.Workers \ {w} :
           work[v].month = r.month => work[v].closed \cap r.closed = {}
  PROVE  WinnersInv'
<1>1. WinnersTyped'
  BY DEF WinnersInv, WinnersTyped, Winners!donorVars
<1>2. \A v \in ClosingMonths.Workers : work'[v] = IF v = w THEN r ELSE work[v]
  BY DEF WinnersInv, WinnersTyped
<1>3. \A v \in ClosingMonths.Workers :
        (OpenAwards(work[v]) /\ OpenPartner(work[v]) /\ OpenMonth(work[v]) /\ OpenMembers(work[v]))'
  BY <1>2 DEF WinnersInv, OpenAwards, OpenPartner, OpenMonth, OpenMembers
<1>4. (\A v, u \in ClosingMonths.Workers :
        v # u /\ work[v].month = work[u].month => work[v].closed \cap work[u].closed = {})'
  BY <1>2 DEF WinnersInv
<1>5. (Winners!OneWinningTeam /\ Winners!WinnersAwarded)'
  BY DEF WinnersInv, Winners!OneWinningTeam, Winners!WinnersAwarded
<1> QED BY <1>1, <1>3, <1>4, <1>5 DEF WinnersInv

LEMMA IdleWorker ==
  /\ Winners!Idle \in WorkRow
  /\ OpenAwards(Winners!Idle) /\ OpenPartner(Winners!Idle)
  /\ OpenMonth(Winners!Idle) /\ OpenMembers(Winners!Idle)
  /\ Winners!Idle.closed = {}
BY WinnersAssumed
   DEF Winners!Idle, WorkRow, Month, AnyPartner, AnyTeam, OpenAwards, OpenPartner, OpenMonth, OpenMembers

LEMMA CloseDueInv ==
  ASSUME WinnersInv, NEW w \in ClosingMonths.Workers, Winners!CloseDue(w)
  PROVE  WinnersInv'
<1> DEFINE r == [Winners!Idle EXCEPT !.pc = "close", !.month = teamMonth - 1,
                                     !.todo = Winners!FirstFew(Winners!Due(teamMonth - 1))]
<1>1. teamMonth - 1 \in Month
  BY WinnersAssumed DEF Winners!CloseDue, WinnersInv, WinnersTyped, Month
<1>2. Winners!FirstFew(Winners!Due(teamMonth - 1)) \in SUBSET ClosingMonths.Partners
  BY DEF Winners!FirstFew, Winners!Due, WinnersInv, WinnersTyped
<1>3. /\ r \in WorkRow /\ r.pc = "close" /\ r.members = Winners!Idle.members
      /\ r.closed = {} /\ r.earned = {}
  <2>1. Winners!Idle \in WorkRow /\ Winners!Idle.closed = {} /\ Winners!Idle.earned = {}
    BY IdleWorker DEF Winners!Idle
  <2> HIDE DEF r
  <2> DEFINE i == Winners!Idle
             few == Winners!FirstFew(Winners!Due(teamMonth - 1))
  <2>2. r = [i EXCEPT !.pc = "close", !.month = teamMonth - 1, !.todo = few]
    BY DEF r
  <2> HIDE DEF i
  <2> QED BY <1>1, <1>2, <2>1, <2>2 DEF WorkRow, i
<1>4. work' = [work EXCEPT ![w] = r]
  BY DEF Winners!CloseDue
<1> HIDE DEF r
<1>6. OpenAwards(r) /\ OpenPartner(r) /\ OpenMonth(r) /\ r.closed = {}
  BY <1>3 DEF OpenAwards, OpenPartner, OpenMonth
<1>7. OpenMembers(r)
  BY <1>3 DEF OpenMembers, Winners!Idle
<1>8. UNCHANGED <<months, wt, awarded, Winners!donorVars, teamMonth>>
  BY DEF Winners!CloseDue
<1> QED BY <1>3, <1>4, <1>6, <1>7, <1>8, OneWorker

LEMMA CloseTeamMonthInv ==
  ASSUME WinnersInv, NEW w \in ClosingMonths.Workers, Winners!closeTeamMonth(w)
  PROVE  WinnersInv'
<1> DEFINE r == work[w]
           p == Winners!Min(r.todo)
           taken == [r EXCEPT !.pc = "rank", !.partner = p, !.todo = @ \ {p}, !.closed = @ \cup {p}]
           skipped == [r EXCEPT !.todo = @ \ {p}]
<1>1. r \in WorkRow /\ OpenAwards(r) /\ OpenPartner(r) /\ OpenMonth(r) /\ OpenMembers(r)
  BY DEF WinnersInv, WinnersTyped
<1>2. r.pc = "close" /\ r.todo # {} /\ r.todo \in SUBSET ClosingMonths.Partners
  BY <1>1 DEF Winners!closeTeamMonth, WorkRow
<1>3. p \in r.todo
  BY <1>2, WinnersAssumed, LeastPartner
<1>4. \A v \in ClosingMonths.Workers \ {w} : ~(work[v].month = r.month /\ p \in work[v].closed)
  BY DEF Winners!closeTeamMonth
<1>5. UNCHANGED <<months, wt, awarded, Winners!donorVars, teamMonth>>
  BY DEF Winners!closeTeamMonth
<1>6. \A v \in ClosingMonths.Workers \ {w} :
        work[v].month = r.month => work[v].closed \cap r.closed = {}
  BY DEF WinnersInv
<1>7. work' = [work EXCEPT ![w] = IF Winners!CloseTeamMonth(p, r.month) THEN taken ELSE skipped]
  BY DEF Winners!closeTeamMonth
<1> HIDE DEF p, r
<1>8. CASE Winners!CloseTeamMonth(p, r.month)
  <2>2. p \notin r.closed /\ p \in ClosingMonths.Partners
    BY <1>1, <1>2, <1>3 DEF OpenMonth
  <2>1. /\ taken \in WorkRow /\ taken.pc = "rank" /\ taken.month = r.month
        /\ taken.todo = r.todo \ {p} /\ taken.partner = p /\ taken.won = r.won
        /\ taken.members = r.members /\ taken.closed = r.closed \cup {p}
        /\ taken.earned = r.earned
    BY <1>1, <2>2, Zenon DEF WorkRow, AnyPartner
  <2> HIDE DEF taken
  <2>4. OpenAwards(taken)
    BY <1>1, <2>1 DEF OpenAwards
  <2>5. OpenPartner(taken)
    BY <1>1, <2>1, <2>2 DEF OpenPartner, OpenAwards
  <2>6. OpenMonth(taken)
    BY <1>1, <1>8, <2>1 DEF OpenMonth, Winners!CloseTeamMonth
  <2>7. OpenMembers(taken)
    BY <1>1, <1>2, <2>1 DEF OpenMembers
  <2>8. \A v \in ClosingMonths.Workers \ {w} :
          work[v].month = taken.month => work[v].closed \cap taken.closed = {}
    BY <1>4, <1>6, <2>1
  <2> QED BY <1>5, <1>7, <1>8, <2>1, <2>4, <2>5, <2>6, <2>7, <2>8, OneWorker, Zenon
<1>9. CASE ~Winners!CloseTeamMonth(p, r.month)
  <2>1. /\ skipped \in WorkRow /\ skipped.pc = "close" /\ skipped.month = r.month
        /\ skipped.todo = r.todo \ {p} /\ skipped.won = r.won /\ skipped.members = r.members
        /\ skipped.closed = r.closed /\ skipped.earned = r.earned
    BY <1>1, <1>2 DEF WorkRow
  <2> HIDE DEF skipped
  <2>3. OpenAwards(skipped) /\ OpenPartner(skipped) /\ OpenMonth(skipped)
    BY <1>1, <1>2, <2>1 DEF OpenAwards, OpenPartner, OpenMonth
  <2>4. OpenMembers(skipped)
    BY <1>1, <1>2, <2>1 DEF OpenMembers
  <2>5. \A v \in ClosingMonths.Workers \ {w} :
          work[v].month = skipped.month => work[v].closed \cap skipped.closed = {}
    BY <1>6, <2>1
  <2> QED BY <1>5, <1>7, <1>9, <2>1, <2>3, <2>4, <2>5, OneWorker, Zenon
<1> QED BY <1>8, <1>9

\* Ranked teams are the partner's.
LEMMA WinnerIsTheirs ==
  ASSUME WinnersTyped, NEW p \in ClosingMonths.Partners, NEW t \in Winners!Winners(p)
  PROVE  t \in Team /\ t[1] = p
<1>1. PICK d \in ClosingMonths.Donors : t = link[d].team /\ t[1] = p
  BY DEF Winners!Winners, Winners!Ranked
<1>2. t \in AnyTeam
  BY <1>1 DEF WinnersTyped
<1>3. t # <<0, 0>>
  BY <1>1, WinnersAssumed
<1> QED BY <1>1, <1>2, <1>3, WinnersAssumed DEF AnyTeam

LEMMA RecordStandingsInv ==
  ASSUME WinnersInv, NEW w \in ClosingMonths.Workers, Winners!RecordTeamMonthStandings(w)
  PROVE  WinnersInv'
<1> DEFINE r == work[w]
           p == r.partner
           passed == [r EXCEPT !.pc = "close"]
<1>1. r \in WorkRow /\ OpenAwards(r) /\ OpenPartner(r) /\ OpenMonth(r) /\ OpenMembers(r)
  BY DEF WinnersInv, WinnersTyped
<1>2. r.pc = "rank" /\ p \in r.closed /\ p \in ClosingMonths.Partners
  BY <1>1, Zenon DEF Winners!RecordTeamMonthStandings, OpenPartner, WorkRow
<1>3. UNCHANGED <<months, wt, awarded, Winners!donorVars, teamMonth>>
  BY Zenon DEF Winners!RecordTeamMonthStandings
<1>4. \A v \in ClosingMonths.Workers \ {w} :
        work[v].month = r.month => work[v].closed \cap r.closed = {}
  BY DEF WinnersInv
<1>5. \/ work' = [work EXCEPT ![w] = passed]
      \/ \E t \in Winners!Winners(p) :
           work' = [work EXCEPT ![w] = [r EXCEPT !.pc = "award", !.won[p] = t, !.members[p] = Winners!Members(t)]]
  <2>1. work \in [ClosingMonths.Workers -> WorkRow]
    BY DEF WinnersInv, WinnersTyped
  <2>2. [work EXCEPT ![w].pc = "close"] = [work EXCEPT ![w] = passed]
    BY <2>1
  <2> QED BY <2>2, Zenon DEF Winners!RecordTeamMonthStandings
<1> HIDE DEF r
<1>6. CASE work' = [work EXCEPT ![w] = passed]
  <2>1. /\ passed \in WorkRow /\ passed.pc = "close" /\ passed.month = r.month
        /\ passed.todo = r.todo /\ passed.won = r.won /\ passed.members = r.members
        /\ passed.closed = r.closed /\ passed.earned = r.earned
    BY <1>1 DEF WorkRow
  <2> HIDE DEF passed
  <2>3. OpenAwards(passed) /\ OpenPartner(passed) /\ OpenMonth(passed)
    BY <1>1, <2>1 DEF OpenAwards, OpenPartner, OpenMonth
  <2>4. OpenMembers(passed)
    BY <1>1, <1>2, <2>1 DEF OpenMembers
  <2>5. \A v \in ClosingMonths.Workers \ {w} :
          work[v].month = passed.month => work[v].closed \cap passed.closed = {}
    BY <1>4, <2>1
  <2> QED BY <1>3, <1>6, <2>1, <2>3, <2>4, <2>5, OneWorker
<1>7. ASSUME NEW t \in Winners!Winners(p),
             work' = [work EXCEPT ![w] = [r EXCEPT !.pc = "award", !.won[p] = t, !.members[p] = Winners!Members(t)]]
      PROVE  WinnersInv'
  <2> DEFINE won == [r.won EXCEPT ![p] = t]
             members == [r.members EXCEPT ![p] = Winners!Members(t)]
             ranked == [r EXCEPT !.pc = "award", !.won[p] = t, !.members[p] = Winners!Members(t)]
  <2>2. t \in Team /\ t[1] = p
    BY <1>2, <1>7, WinnerIsTheirs DEF WinnersInv
  <2>3. Winners!Members(t) \in SUBSET ClosingMonths.Donors
    BY DEF Winners!Members
  <2>4. /\ won \in [ClosingMonths.Partners -> AnyTeam] /\ won[p] = t
        /\ \A q \in ClosingMonths.Partners : q # p => won[q] = r.won[q]
    BY <1>1, <1>2, <2>2 DEF WorkRow, AnyTeam
  <2>5. /\ members \in [ClosingMonths.Partners -> SUBSET ClosingMonths.Donors]
        /\ \A q \in ClosingMonths.Partners : q # p => members[q] = r.members[q]
    BY <1>1, <1>2, <2>3 DEF WorkRow
  <2>6. /\ ranked \in WorkRow /\ ranked.pc = "award" /\ ranked.month = r.month
        /\ ranked.todo = r.todo /\ ranked.partner = p /\ ranked.won = won
        /\ ranked.members = members /\ ranked.closed = r.closed /\ ranked.earned = r.earned
    <3> DEFINE new == Winners!Members(t)
    <3>1. new \in SUBSET ClosingMonths.Donors /\ t \in AnyTeam
      BY <2>2, <2>3 DEF AnyTeam
    <3> HIDE DEF new
    <3>2. /\ [r EXCEPT !.pc = "award", !.won[p] = t, !.members[p] = new] \in WorkRow
      BY <1>1, <1>2, <3>1, Zenon DEF WorkRow
    <3>3. LET s == [r EXCEPT !.pc = "award", !.won[p] = t, !.members[p] = new] IN
            /\ s.pc = "award" /\ s.month = r.month /\ s.todo = r.todo /\ s.partner = p
            /\ s.won = [r.won EXCEPT ![p] = t] /\ s.members = [r.members EXCEPT ![p] = new]
            /\ s.closed = r.closed /\ s.earned = r.earned
      BY <1>1, <1>2, <3>1 DEF WorkRow
    <3> QED BY <3>2, <3>3 DEF new
  <2> HIDE DEF won, members, ranked
  <2>7. OpenAwards(ranked)
    <3>1. \A a \in r.earned : a.team[1] # p /\ a.team[1] \in ClosingMonths.Partners
      BY <1>1, <1>2 DEF OpenPartner, OpenAwards, WorkRow
    <3> QED BY <1>1, <2>4, <2>6, <3>1 DEF OpenAwards
  <2>8. OpenPartner(ranked)
    BY <1>1, <1>2, <2>2, <2>4, <2>6 DEF OpenPartner
  <2>9. OpenMonth(ranked)
    BY <1>1, <2>6 DEF OpenMonth
  <2>10. OpenMembers(ranked)
    BY <1>1, <1>2, <2>5, <2>6 DEF OpenMembers
  <2>11. work' = [work EXCEPT ![w] = ranked]
    BY <1>7 DEF ranked
  <2>12. \A v \in ClosingMonths.Workers \ {w} :
           work[v].month = ranked.month => work[v].closed \cap ranked.closed = {}
    BY <1>4, <2>6
  <2> QED BY <1>3, <2>6, <2>7, <2>8, <2>9, <2>10, <2>11, <2>12, OneWorker
<1> QED BY <1>5, <1>6, <1>7, Zenon

\* The winner awarded is one of the partner's teams.
LEMMA AwardTeamInv ==
  ASSUME WinnersInv, NEW w \in ClosingMonths.Workers, Winners!AwardTeam(w)
  PROVE  WinnersInv'
<1> DEFINE r == work[w]
           p == r.partner
           t == r.won[p]
           stayed == r.members[p] \cap Winners!Members(t)
           given == {[donor |-> d, team |-> t, month |-> r.month] : d \in Winners!Members(t)}
           done == [r EXCEPT !.pc = "close", !.members[p] = stayed, !.earned = @ \cup given]
<1>1. r \in WorkRow /\ OpenAwards(r) /\ OpenPartner(r) /\ OpenMonth(r) /\ OpenMembers(r)
  BY DEF WinnersInv, WinnersTyped
<1>2. r.pc = "award" /\ p \in r.closed /\ p \in ClosingMonths.Partners /\ t[1] = p
  BY <1>1 DEF Winners!AwardTeam, OpenPartner, WorkRow
<1>3. UNCHANGED <<months, wt, awarded, Winners!donorVars, teamMonth>>
  BY DEF Winners!AwardTeam
<1>4. \A v \in ClosingMonths.Workers \ {w} :
        work[v].month = r.month => work[v].closed \cap r.closed = {}
  BY DEF WinnersInv
<1>5. work' = [work EXCEPT ![w] = done]
  BY DEF Winners!AwardTeam, Winners!TeamMembers
<1>6. t \in Team
  <2>1. t \in AnyTeam
    BY <1>1, <1>2 DEF WorkRow
  <2> QED BY <1>2, <2>1, WinnersAssumed DEF AnyTeam
<1>7. given \in SUBSET Award
  <2>1. r.month \in Month
    BY <1>1 DEF WorkRow
  <2> QED BY <1>6, <2>1 DEF Award, Winners!Members
<1>8. \A a \in given : a.month = r.month /\ a.team = t
  OBVIOUS
<1>9. ASSUME NEW d \in stayed
      PROVE  \E a \in given : a.donor = d
  <2> DEFINE a == [donor |-> d, team |-> t, month |-> r.month]
  <2>1. a \in given /\ a.donor = d
    OBVIOUS
  <2> QED BY <2>1
<1>10. stayed \in SUBSET ClosingMonths.Donors
  BY DEF Winners!Members
<1> DEFINE members == [r.members EXCEPT ![p] = stayed]
<1>11. /\ members[p] = stayed
       /\ \A q \in ClosingMonths.Partners : q # p => members[q] = r.members[q]
  BY <1>1, <1>2 DEF WorkRow
<1> HIDE DEF given, stayed, members
<1>12. /\ done \in WorkRow /\ done.pc = "close" /\ done.month = r.month /\ done.todo = r.todo
       /\ done.partner = p /\ done.won = r.won /\ done.members = members
       /\ done.closed = r.closed /\ done.earned = r.earned \cup given
  <2> HIDE DEF r
  <2>1. done \in WorkRow
    BY <1>1, <1>2, <1>7, <1>10, Zenon DEF WorkRow
  <2>2. /\ done.pc = "close" /\ done.month = r.month /\ done.todo = r.todo /\ done.partner = p
        /\ done.won = r.won /\ done.members = members /\ done.closed = r.closed
        /\ done.earned = r.earned \cup given
    BY <1>1, <1>2, <1>7, <1>10 DEF WorkRow, members
  <2> QED BY <2>1, <2>2
<1> HIDE DEF done
<1>13. OpenAwards(done)
  BY <1>1, <1>2, <1>8, <1>12 DEF OpenAwards
<1>14. OpenPartner(done) /\ OpenMonth(done)
  BY <1>1, <1>12 DEF OpenPartner, OpenMonth
<1>15. OpenMembers(done)
  <2> SUFFICES ASSUME NEW q \in ClosingMonths.Partners, NEW d \in done.members[q]
               PROVE  \E a \in done.earned : a.donor = d
    BY DEF OpenMembers
  <2>1. CASE q = p
    BY <1>9, <1>11, <1>12, <2>1
  <2>2. CASE q # p
    BY <1>1, <1>11, <1>12, <2>2 DEF OpenMembers
  <2> QED BY <2>1, <2>2
<1>16. \A v \in ClosingMonths.Workers \ {w} :
         work[v].month = done.month => work[v].closed \cap done.closed = {}
  BY <1>4, <1>12
<1> QED BY <1>3, <1>5, <1>12, <1>13, <1>14, <1>15, <1>16, OneWorker

LEMMA CrashInv ==
  ASSUME WinnersInv, NEW w \in ClosingMonths.Workers, Winners!Crash(w)
  PROVE  WinnersInv'
<1>1. WinnersTyped'
  BY IdleWorker DEF WinnersInv, WinnersTyped, Winners!Crash
<1>2. \A v \in ClosingMonths.Workers : work'[v] = IF v = w THEN Winners!Idle ELSE work[v]
  BY DEF WinnersInv, WinnersTyped, Winners!Crash
<1>3. UNCHANGED <<months, wt, awarded>>
  BY DEF Winners!Crash
<1>4. \A v \in ClosingMonths.Workers :
        (OpenAwards(work[v]) /\ OpenPartner(work[v]) /\ OpenMonth(work[v]) /\ OpenMembers(work[v]))'
  BY <1>2, <1>3, IdleWorker DEF WinnersInv, OpenAwards, OpenPartner, OpenMonth, OpenMembers
<1>5. (\A v, u \in ClosingMonths.Workers :
        v # u /\ work[v].month = work[u].month => work[v].closed \cap work[u].closed = {})'
  BY <1>2, IdleWorker DEF WinnersInv
<1>6. (Winners!OneWinningTeam /\ Winners!WinnersAwarded)'
  BY <1>3 DEF WinnersInv, Winners!OneWinningTeam, Winners!WinnersAwarded
<1> QED BY <1>1, <1>4, <1>5, <1>6 DEF WinnersInv

\* The month that is closed was open, so no award is for it yet, and nobody
\* else is closing it.
LEMMA CommitMonthInv ==
  ASSUME WinnersInv, NEW w \in ClosingMonths.Workers, Winners!CommitMonth(w)
  PROVE  WinnersInv'
<1> DEFINE r == work[w]
           record(p) == [closed |-> TRUE, winner |-> r.won[p], members |-> r.members[p]]
<1>1. r \in WorkRow /\ OpenAwards(r) /\ OpenMonth(r) /\ OpenMembers(r) /\ r.pc = "close"
  BY DEF WinnersInv, WinnersTyped, Winners!CommitMonth
<1>2. /\ \A p \in ClosingMonths.Partners, m \in Month :
           months'[p][m] = IF m = r.month /\ p \in r.closed THEN record(p) ELSE months[p][m]
      /\ months' \in [ClosingMonths.Partners -> [Month -> MonthRow]]
  <2>1. months \in [ClosingMonths.Partners -> [Month -> MonthRow]] /\ r.month \in Month
    BY <1>1 DEF WinnersInv, WinnersTyped, WorkRow
  <2>2. months' = [p \in ClosingMonths.Partners |-> [months[p] EXCEPT ![r.month] =
                     IF p \in r.closed THEN record(p) ELSE @]]
    BY DEF Winners!CommitMonth
  <2>3. \A p \in ClosingMonths.Partners : record(p) \in MonthRow
    BY <1>1 DEF WorkRow, MonthRow
  <2> HIDE DEF r, record
  <2> QED BY <2>1, <2>2, <2>3
<1>12. ASSUME NEW p \in r.closed
       PROVE  LET line == months'[p][r.month] IN
                line.closed /\ line.winner = r.won[p] /\ line.members = r.members[p]
  <2>1. p \in ClosingMonths.Partners /\ r.month \in Month
    BY <1>1 DEF WorkRow
  <2>2. months'[p][r.month] = record(p)
    <3> HIDE DEF record, r
    <3> QED BY <1>2, <2>1
  <2>3. record(p).closed /\ record(p).winner = r.won[p] /\ record(p).members = r.members[p]
    OBVIOUS
  <2> HIDE DEF record
  <2> QED BY <2>2, <2>3
<1>3. \A v \in ClosingMonths.Workers : work'[v] = IF v = w THEN Winners!Idle ELSE work[v]
  BY DEF WinnersInv, WinnersTyped, Winners!CommitMonth
<1>4. wt' = wt \cup {a.donor : a \in r.earned} /\ awarded' = awarded \cup r.earned
  BY DEF Winners!CommitMonth
<1>5. r.earned \in SUBSET Award /\ r.closed \in SUBSET ClosingMonths.Partners /\ r.month \in Month
  BY <1>1 DEF WorkRow
<1>6. WinnersTyped'
  <2>1. work' \in [ClosingMonths.Workers -> WorkRow]
    BY IdleWorker DEF WinnersInv, WinnersTyped, Winners!CommitMonth
  <2>2. wt' \subseteq ClosingMonths.Donors /\ awarded' \subseteq Award
    BY <1>4, <1>5 DEF WinnersInv, WinnersTyped, Award
  <2> QED BY <1>2, <2>1, <2>2 DEF WinnersInv, WinnersTyped, Winners!CommitMonth, Winners!donorVars
<1>7. ASSUME NEW v \in ClosingMonths.Workers
      PROVE  (OpenAwards(work[v]) /\ OpenPartner(work[v]) /\ OpenMembers(work[v]))'
  BY <1>3, IdleWorker DEF WinnersInv, OpenAwards, OpenPartner, OpenMembers
<1>8. ASSUME NEW v \in ClosingMonths.Workers
      PROVE  OpenMonth(work[v])'
  <2>1. CASE v = w
    BY <1>3, <2>1, IdleWorker DEF OpenMonth
  <2>2. CASE v # w
    <3>1. /\ work[v] \in WorkRow /\ OpenMonth(work[v])
          /\ work[v].month = r.month => work[v].closed \cap r.closed = {}
      BY <2>2 DEF WinnersInv, WinnersTyped
    <3>2. work[v].month \in Month /\ work[v].closed \in SUBSET ClosingMonths.Partners
      BY <3>1 DEF WorkRow
    <3>3. \A p \in work[v].closed : months'[p][work[v].month] = months[p][work[v].month]
      BY <1>2, <3>1, <3>2
    <3> QED BY <1>3, <2>2, <3>1, <3>3 DEF OpenMonth
  <2> QED BY <2>1, <2>2
<1>9. (\A v, u \in ClosingMonths.Workers :
        v # u /\ work[v].month = work[u].month => work[v].closed \cap work[u].closed = {})'
  BY <1>3, IdleWorker DEF WinnersInv
<1>10. Winners!OneWinningTeam'
  <2> SUFFICES ASSUME NEW a \in awarded \cup r.earned
               PROVE  /\ months'[a.team[1]][a.month].closed
                      /\ months'[a.team[1]][a.month].winner = a.team
    BY <1>4 DEF Winners!OneWinningTeam
  <2>1. a.team[1] \in ClosingMonths.Partners /\ a.month \in Month
    BY <1>5 DEF WinnersInv, WinnersTyped, Award, Team
  <2>2. CASE a \in awarded
    <3>1. months[a.team[1]][a.month].closed /\ months[a.team[1]][a.month].winner = a.team
      BY <2>2 DEF WinnersInv, Winners!OneWinningTeam
    <3>2. ~(a.month = r.month /\ a.team[1] \in r.closed)
      BY <1>1, <3>1 DEF OpenMonth
    <3> HIDE DEF record
    <3> QED BY <1>2, <2>1, <3>1, <3>2
  <2>3. CASE a \in r.earned
    <3>1. a.month = r.month /\ a.team[1] \in r.closed /\ r.won[a.team[1]] = a.team
      BY <1>1, <2>3 DEF OpenAwards
    <3> HIDE DEF r
    <3> QED BY <1>12, <3>1
  <2> QED BY <2>2, <2>3
<1>11. Winners!WinnersAwarded'
  <2> SUFFICES ASSUME NEW p \in ClosingMonths.Partners, NEW m \in Month
               PROVE  months'[p][m].members \subseteq wt'
    BY DEF Winners!WinnersAwarded, Month
  <2>1. CASE m = r.month /\ p \in r.closed
    <3>1. months'[p][m].members = r.members[p]
      BY <1>12, <2>1
    <3> QED BY <1>1, <1>4, <3>1 DEF OpenMembers
  <2>2. CASE ~(m = r.month /\ p \in r.closed)
    <3>1. months'[p][m] = months[p][m] /\ months[p][m].members \subseteq wt
      BY <1>2, <2>2 DEF WinnersInv, Winners!WinnersAwarded, Month
    <3> QED BY <1>4, <3>1
  <2> QED BY <2>1, <2>2
<1> QED BY <1>6, <1>7, <1>8, <1>9, <1>10, <1>11 DEF WinnersInv

LEMMA WinnersStep == WinnersInv /\ [Winners!Next]_teamVars => WinnersInv'
<1> SUFFICES ASSUME WinnersInv, Winners!Next \/ UNCHANGED teamVars PROVE WinnersInv'
  OBVIOUS
<1>1. CASE UNCHANGED teamVars
  <2> UNCHANGED <<months, wt, awarded, work>> /\ WinnersTyped'
    BY <1>1 DEF teamVars, WinnersInv, WinnersTyped
  <2> QED BY WinnersRest
<1>2. ASSUME NEW w \in ClosingMonths.Workers, Winners!Close(w) \/ Winners!Crash(w)
      PROVE  WinnersInv'
  BY <1>2, CloseDueInv, CloseTeamMonthInv, RecordStandingsInv, AwardTeamInv, CommitMonthInv, CrashInv
     DEF Winners!Close
<1> QED BY <1>1, <1>2, DonorsInv DEF Winners!Next

-----------------------------------------------------------------------------
\* The winner and the leaderboard, wherever the shapes are right.
LEMMA Rounded ==
  ASSUME NEW a \in Nat, NEW n \in Nat \ {0}
  PROVE  a \div n # 0 <=> a >= n
OBVIOUS

LEMMA TeamCounts ==
  ASSUME WinnersTyped, NEW t
  PROVE  /\ Winners!Annualized(t) \in Nat /\ Winners!ActiveGivers(t) \in Nat
         /\ Winners!Cardinality(Winners!Members(t)) \in Nat
         /\ Winners!Annualized(t) >= 12 * Winners!ActiveGivers(t)
         /\ Winners!ActiveGivers(t) = 0 => Winners!Annualized(t) = 0
<1> DEFINE M == Winners!Members(t)
           G == {d \in M : pledge[d] > 0}
<1>1. IsFiniteSet(M) /\ \A d \in M : pledge[d] \in Nat
  <2>1. M \in SUBSET ClosingMonths.Donors
    BY DEF Winners!Members
  <2>2. \A d \in ClosingMonths.Donors : pledge[d] \in Nat
    BY WinnersAssumed DEF WinnersTyped
  <2> HIDE DEF M
  <2> QED BY <2>1, <2>2, WinnersAssumed, FS_Subset
<1>2. Winners!Annualized(t) = 12 * Sum(pledge, M)
  BY DEF Winners!Annualized, Winners!MapThenSumSet, Winners!MapThenFoldSet, Sum, MapThenSumSet, MapThenFoldSet
<1>3. Winners!Cardinality(M) = Cardinality(M) /\ Winners!ActiveGivers(t) = Cardinality(G)
  BY DEF Winners!Cardinality, Winners!IsFiniteSet, Cardinality, IsFiniteSet, Winners!ActiveGivers
<1> HIDE DEF M
<1>4. /\ Sum(pledge, M) \in Nat /\ Sum(pledge, M) >= Cardinality(G)
      /\ (\A d \in M : pledge[d] = 0) => Sum(pledge, M) = 0
  BY <1>1, SumCounts
<1>5. IsFiniteSet(G) /\ Cardinality(M) \in Nat /\ Cardinality(G) \in Nat
  <2>1. G \in SUBSET M
    OBVIOUS
  <2> HIDE DEF G
  <2> QED BY <1>1, <2>1, FS_Subset, FS_CardinalityType
<1>6. Cardinality(G) = 0 => \A d \in M : pledge[d] = 0
  <2> SUFFICES ASSUME Cardinality(G) = 0 PROVE \A d \in M : pledge[d] = 0
    OBVIOUS
  <2>1. G = {}
    <3> HIDE DEF G
    <3> QED BY <1>5, FS_EmptySet
  <2> QED BY <1>1, <2>1
<1> HIDE DEF G
<1>7. Sum(pledge, M) * 12 >= 12 * Cardinality(G)
  BY <1>4, <1>5
<1> QED BY <1>2, <1>3, <1>4, <1>5, <1>6, <1>7 DEF M

\* The winner's order is the leaderboard's.
LEMMA RankedFirst ==
  ASSUME WinnersTyped, NEW p \in ClosingMonths.Partners, NEW t \in Winners!Ranked(p)
  PROVE  Winners!RankOne(p, t) <=> t \in Winners!TeamLeaderboard(p)
<1>1. \A u \in Winners!Ranked(p) : u[2] \in Nat
  <2> SUFFICES ASSUME NEW u \in Winners!Ranked(p) PROVE u[2] \in Nat
    OBVIOUS
  <2>1. PICK d \in ClosingMonths.Donors : u = link[d].team /\ u[1] = p
    BY DEF Winners!Ranked
  <2>2. u \in AnyTeam
    BY <2>1 DEF WinnersTyped
  <2> QED BY <2>1, <2>2, WinnersAssumed DEF AnyTeam, Team
<1>2. ASSUME NEW u \in Winners!Ranked(p)
      PROVE  LET key(x) == <<Winners!Annualized(x), Winners!ActiveGivers(x), -x[2]>> IN
               (\E i \in 1..3 : key(t)[i] > key(u)[i] /\ \A j \in 1..(i - 1) : key(t)[j] = key(u)[j])
               <=> Winners!LeaderboardBefore(t, u)
  <2> DEFINE key(x) == <<Winners!Annualized(x), Winners!ActiveGivers(x), -x[2]>>
             above(i) == key(t)[i] > key(u)[i] /\ \A j \in 1..(i - 1) : key(t)[j] = key(u)[j]
  <2>1. /\ Winners!Annualized(t) \in Nat /\ Winners!ActiveGivers(t) \in Nat /\ t[2] \in Nat
        /\ Winners!Annualized(u) \in Nat /\ Winners!ActiveGivers(u) \in Nat /\ u[2] \in Nat
    BY <1>1, TeamCounts
  <2>2. 1..3 = {1, 2, 3} /\ 1..(1 - 1) = {} /\ 1..(2 - 1) = {1} /\ 1..(3 - 1) = {1, 2}
    OBVIOUS
  <2>3. above(1) <=> Winners!Annualized(t) > Winners!Annualized(u)
    BY <2>1, <2>2
  <2>4. above(2) <=> /\ Winners!Annualized(t) = Winners!Annualized(u)
                     /\ Winners!ActiveGivers(t) > Winners!ActiveGivers(u)
    BY <2>1, <2>2
  <2>5. above(3) <=> /\ Winners!Annualized(t) = Winners!Annualized(u)
                     /\ Winners!ActiveGivers(t) = Winners!ActiveGivers(u)
                     /\ t[2] < u[2]
    BY <2>1, <2>2
  <2>6. (\E i \in 1..3 : above(i)) <=> above(1) \/ above(2) \/ above(3)
    <3> HIDE DEF above
    <3> QED BY <2>2
  <2> HIDE DEF above
  <2>7. (\E i \in 1..3 : above(i)) <=> Winners!LeaderboardBefore(t, u)
    BY <2>3, <2>4, <2>5, <2>6 DEF Winners!LeaderboardBefore
  <2> QED BY <2>7 DEF above
<1> QED BY <1>2 DEF Winners!RankOne, Winners!TeamLeaderboard

\* The winning team heads the displayed leaderboard and gave something; and the
\* head wins if at least one in twelve of its members gives.
LEMMA WinnerHeads ==
  ASSUME WinnersInv
  PROVE  Winners!WinnerHeadsLeaderboard
<1> SUFFICES ASSUME NEW w \in ClosingMonths.Workers, work[w].pc = "rank"
             PROVE  LET p == work[w].partner IN
               /\ Winners!Winners(p) \subseteq {t \in Winners!TeamLeaderboard(p) : Winners!ActiveGivers(t) > 0}
               /\ \A t \in Winners!TeamLeaderboard(p) :
                    Winners!ActiveGivers(t) > 0 /\ 12 * Winners!ActiveGivers(t) >= Winners!Cardinality(Winners!Members(t))
                    => t \in Winners!Winners(p)
  BY DEF Winners!WinnerHeadsLeaderboard
<1> DEFINE p == work[w].partner
<1>1. p \in ClosingMonths.Partners /\ WinnersTyped
  <2>1. work[w] \in WorkRow /\ OpenPartner(work[w]) /\ WinnersTyped
    BY DEF WinnersInv, WinnersTyped
  <2> QED BY <2>1 DEF OpenPartner, WorkRow
<1>2. ASSUME NEW t \in Winners!Ranked(p)
      PROVE  /\ t \in Winners!Winners(p) => t \in Winners!TeamLeaderboard(p) /\ Winners!ActiveGivers(t) > 0
             /\ t \in Winners!TeamLeaderboard(p) /\ Winners!ActiveGivers(t) > 0
                /\ 12 * Winners!ActiveGivers(t) >= Winners!Cardinality(Winners!Members(t))
                => t \in Winners!Winners(p)
  <2> HIDE DEF p
  <2>1. Winners!RankOne(p, t) <=> t \in Winners!TeamLeaderboard(p)
    BY <1>1, RankedFirst
  <2> DEFINE n == Winners!Cardinality(Winners!Members(t))
             a == Winners!Annualized(t)
             g == Winners!ActiveGivers(t)
  <2>2. n \in Nat /\ a \in Nat /\ g \in Nat /\ a >= 12 * g /\ (g = 0 => a = 0)
    BY <1>1, TeamCounts
  <2>3. n >= ClosingMonths.Minimum
    BY DEF Winners!Ranked
  <2>4. t \in Winners!Winners(p) <=> Winners!RankOne(p, t) /\ a \div n # 0
    BY DEF Winners!Winners, Winners!PerMember
  <2> HIDE DEF n, a, g
  <2>5. n \in Nat \ {0}
    BY <2>2, <2>3, WinnersAssumed
  <2>6. a \div n # 0 <=> a >= n
    BY <2>2, <2>5, Rounded
  <2>7. a \div n # 0 => g > 0
    BY <2>2, <2>5, <2>6
  <2>8. 12 * g >= n => a \div n # 0
    BY <2>2, <2>5, <2>6
  <2> QED BY <2>1, <2>4, <2>7, <2>8 DEF n, g
<1>3. Winners!Winners(p) \subseteq Winners!Ranked(p) /\ Winners!TeamLeaderboard(p) \subseteq Winners!Ranked(p)
  BY DEF Winners!Winners, Winners!TeamLeaderboard
<1> QED BY <1>2, <1>3

-----------------------------------------------------------------------------
(***************************************************************************)
(* The gifts that are matched. A donor counted for an employer is still    *)
(* linked to it, or gone; so the next count is for the same one.           *)
(***************************************************************************)
Terms(c) == [rate : Nat, cap : 0..c.MaxInt]
EntryRow(c) ==
  [pc : {"idle", "owed", "paid", "compare"}, request : c.Requests \cup {"none"},
   partner : c.Partners \cup {0}, amount : c.Amounts \cup {0}, gifts : Nat,
   counted : SUBSET c.Donors, terms : Terms(c)]
LinkRow(c) ==
  [partner : c.Partners \cup {0}, team : (c.Partners \X c.Names) \cup {<<0, 0>>}]

MatchTyped ==
  /\ approved \subseteq LinkedGifts.Partners /\ deleted \subseteq LinkedGifts.Donors
  /\ link \in [LinkedGifts.Donors -> LinkRow(LinkedGifts)]
  /\ terms \in [LinkedGifts.Partners -> LinkedGifts.Terms]
  /\ matched \in [LinkedGifts.Donors -> SUBSET LinkedGifts.Partners]
  /\ status = [p \in LinkedGifts.Partners |-> status[p]]
  /\ entry \in [LinkedGifts.Staff -> EntryRow(LinkedGifts)]

\* The match of partner p counts or counted donor d.
Counts(d, p) ==
  \/ p \in matched[d]
  \/ \E s \in LinkedGifts.Staff :
       entry[s].pc = "owed" /\ entry[s].partner = p /\ d \in entry[s].counted

MatchInv ==
  /\ MatchTyped
  /\ \A s \in LinkedGifts.Staff : entry[s].pc = "owed" => entry[s].partner \in LinkedGifts.Partners
  /\ \A d \in deleted : link[d].partner = 0
  /\ \A d \in LinkedGifts.Donors, p \in LinkedGifts.Partners :
       Counts(d, p) => link[d].partner = p \/ d \in deleted
  /\ \A d \in LinkedGifts.Donors : \A p, q \in LinkedGifts.Partners :
       Counts(d, p) /\ Counts(d, q) => p = q
  /\ Match!OwedIsLargest

LEMMA MatchAssumed ==
  /\ IsFiniteSet(LinkedGifts.Donors) /\ LinkedGifts.Partners \subseteq Nat \ {0}
  /\ LinkedGifts.MaxInt \in Nat /\ LinkedGifts.Terms \subseteq Terms(LinkedGifts)
  /\ LinkedGifts.Gifts \in [LinkedGifts.Donors -> 0..LinkedGifts.MaxInt]
  /\ Match!None = 0 /\ Match!NoTeam = <<0, 0>>
BY Instances DEF Match!TeamsAssumption, Match!None, Match!NoTeam, Match!IsFiniteSet, IsFiniteSet, Terms

LEMMA NoEntryRow == Match!NoEntry \in EntryRow(LinkedGifts) /\ Match!NoEntry.pc = "idle"
BY MatchAssumed DEF Match!NoEntry, EntryRow, Terms, Match!None

LEMMA MatchInit == Match!Init => MatchInv
<1> SUFFICES ASSUME Match!Init PROVE MatchInv
  OBVIOUS
<1>1. MatchTyped
  BY NoEntryRow, MatchAssumed DEF Match!Init, MatchTyped, LinkRow
<1>2. \A d \in LinkedGifts.Donors, p \in LinkedGifts.Partners : ~Counts(d, p)
  BY NoEntryRow DEF Match!Init, Counts
<1>3. Match!OwedIsLargest
  BY DEF Match!Init, Match!OwedIsLargest
<1> QED BY <1>1, <1>2, <1>3, NoEntryRow DEF MatchInv, Match!Init

\* A step that leaves the donors' links and the ledger alone.
LEMMA MatchRest ==
  ASSUME MatchInv, MatchTyped', UNCHANGED <<link, deleted, matched, entry, status>>
  PROVE  MatchInv'
<1>1. \A d \in LinkedGifts.Donors, p \in LinkedGifts.Partners : Counts(d, p)' <=> Counts(d, p)
  BY DEF Counts
<1> QED BY <1>1 DEF MatchInv, Match!OwedIsLargest

\* A link once made names the same employer until the account is gone.
LEMMA LinkInv ==
  ASSUME MatchInv, NEW d \in LinkedGifts.Donors, d \notin deleted, NEW l \in LinkRow(LinkedGifts),
         link' = [link EXCEPT ![d] = l], UNCHANGED <<approved, deleted, terms, matched, entry, status>>,
         link[d].partner # 0 => l.partner = link[d].partner
  PROVE  MatchInv'
<1>1. MatchTyped'
  BY DEF MatchInv, MatchTyped
<1>2. \A e \in LinkedGifts.Donors : link'[e] = IF e = d THEN l ELSE link[e]
  BY DEF MatchInv, MatchTyped
<1>3. \A e \in LinkedGifts.Donors, p \in LinkedGifts.Partners : Counts(e, p)' <=> Counts(e, p)
  BY DEF Counts
<1>4. \A e \in deleted : link'[e].partner = 0
  BY <1>2 DEF MatchInv, MatchTyped
<1>5. ASSUME NEW e \in LinkedGifts.Donors, NEW p \in LinkedGifts.Partners, Counts(e, p)
      PROVE  link'[e].partner = p \/ e \in deleted
  <2>1. link[e].partner = p \/ e \in deleted
    BY <1>5 DEF MatchInv
  <2>2. p # 0
    BY MatchAssumed
  <2> QED BY <1>2, <2>1, <2>2
<1>6. Match!OwedIsLargest'
  BY DEF MatchInv, Match!OwedIsLargest
<1> QED BY <1>1, <1>3, <1>4, <1>5, <1>6 DEF MatchInv

LEMMA MatchDonorsInv ==
  ASSUME MatchInv,
         \/ \E p \in LinkedGifts.Partners :
              Match!Approve(p) \/ \E t \in LinkedGifts.Terms : Match!SetTerms(p, t)
         \/ \E v \in LinkedGifts.Visitors :
              Match!Expire(v) \/ \E p \in LinkedGifts.Partners : Match!CaptureCompanyCode(v, p)
         \/ \E d \in LinkedGifts.Donors :
              \/ \E v \in LinkedGifts.Visitors : Match!bindCompanyCode(d, v)
              \/ \E p \in LinkedGifts.Partners : Match!Enroll(d, p)
              \/ \E n \in LinkedGifts.Names : Match!JoinTeam(d, n)
              \/ \E a \in LinkedGifts.Pledges : Match!ChangePledge(d, a)
              \/ Match!DeleteEmployeeLink(d)
         \/ \E w \in LinkedGifts.Workers : Match!Close(w) \/ Match!Crash(w)
         \/ Match!MonthEnds
  PROVE  MatchInv'
<1> USE DEF Match!ledgerVars
<1>1. ASSUME NEW p \in LinkedGifts.Partners, Match!Approve(p)
      PROVE  MatchInv'
  <2> MatchTyped'
    BY <1>1 DEF MatchInv, MatchTyped, Match!Approve
  <2> QED BY <1>1, MatchRest DEF Match!Approve
<1>2. ASSUME NEW p \in LinkedGifts.Partners, NEW t \in LinkedGifts.Terms, Match!SetTerms(p, t)
      PROVE  MatchInv'
  <2> MatchTyped'
    BY <1>2 DEF MatchInv, MatchTyped, Match!SetTerms
  <2> QED BY <1>2, MatchRest DEF Match!SetTerms
<1>3. ASSUME UNCHANGED <<approved, deleted, link, terms, matched, status, entry>>
      PROVE  MatchInv'
  <2> MatchTyped'
    BY <1>3 DEF MatchInv, MatchTyped
  <2> QED BY <1>3, MatchRest
<1>4. ASSUME NEW v \in LinkedGifts.Visitors,
             Match!Expire(v) \/ \E p \in LinkedGifts.Partners : Match!CaptureCompanyCode(v, p)
      PROVE  MatchInv'
  BY <1>3, <1>4 DEF Match!Expire, Match!CaptureCompanyCode
<1>5. ASSUME NEW w \in LinkedGifts.Workers, Match!Close(w) \/ Match!Crash(w)
      PROVE  MatchInv'
  BY <1>3, <1>5, Zenon DEF Match!Close, Match!CloseDue, Match!closeTeamMonth, Match!RecordTeamMonthStandings,
     Match!AwardTeam, Match!CommitMonth, Match!Crash, Match!donorVars
<1>6. ASSUME Match!MonthEnds
      PROVE  MatchInv'
  BY <1>3, <1>6 DEF Match!MonthEnds, Match!donorVars
<1>7. ASSUME NEW d \in LinkedGifts.Donors, NEW a \in LinkedGifts.Pledges, Match!ChangePledge(d, a)
      PROVE  MatchInv'
  BY <1>3, <1>7 DEF Match!ChangePledge
<1>8. ASSUME NEW d \in LinkedGifts.Donors, NEW p \in LinkedGifts.Partners
      PROVE  /\ Match!UpsertEmployeeLink(link[d], p) \in LinkRow(LinkedGifts)
             /\ link[d].partner # 0 => Match!UpsertEmployeeLink(link[d], p).partner = link[d].partner
  BY MatchAssumed DEF MatchInv, MatchTyped, Match!UpsertEmployeeLink, LinkRow
<1>9. ASSUME NEW d \in LinkedGifts.Donors, NEW p \in LinkedGifts.Partners, Match!Enroll(d, p)
      PROVE  MatchInv'
  <2>1. /\ link' = [link EXCEPT ![d] = Match!UpsertEmployeeLink(link[d], p)] /\ d \notin deleted
        /\ UNCHANGED <<approved, deleted, terms, matched, entry, status>>
    BY <1>9 DEF Match!Enroll
  <2> QED BY <1>8, <2>1, LinkInv, Zenon
<1>10. ASSUME NEW d \in LinkedGifts.Donors, NEW v \in LinkedGifts.Visitors, Match!bindCompanyCode(d, v)
       PROVE  MatchInv'
  <2> DEFINE l == IF Match!PartnerByCompanyCode(touch[v]) THEN Match!UpsertEmployeeLink(link[d], touch[v])
                  ELSE link[d]
  <2>1. /\ link' = [link EXCEPT ![d] = l] /\ d \notin deleted
        /\ UNCHANGED <<approved, deleted, terms, matched, entry, status>>
    BY <1>10 DEF Match!bindCompanyCode
  <2>2. l \in LinkRow(LinkedGifts) /\ (link[d].partner # 0 => l.partner = link[d].partner)
    BY <1>8 DEF Match!PartnerByCompanyCode, MatchInv, MatchTyped
  <2> HIDE DEF l
  <2> QED BY <2>1, <2>2, LinkInv, Zenon
<1>11. ASSUME NEW d \in LinkedGifts.Donors, NEW n \in LinkedGifts.Names, Match!JoinTeam(d, n)
       PROVE  MatchInv'
  <2> DEFINE l == [link[d] EXCEPT !.team = <<link[d].partner, n>>]
  <2>1. link[d] \in LinkRow(LinkedGifts) /\ link[d].partner # 0
    BY <1>11, MatchAssumed DEF MatchInv, MatchTyped, Match!JoinTeam
  <2>2. link' = [link EXCEPT ![d] = l]
    <3>1. [link EXCEPT ![d].team = <<link[d].partner, n>>] = [link EXCEPT ![d] = l]
      BY DEF MatchInv, MatchTyped
    <3> QED BY <1>11, <3>1 DEF Match!JoinTeam
  <2>3. d \notin deleted /\ UNCHANGED <<approved, deleted, terms, matched, entry, status>>
    BY <1>11 DEF Match!JoinTeam
  <2>4. l \in LinkRow(LinkedGifts) /\ l.partner = link[d].partner
    BY <2>1 DEF LinkRow
  <2> HIDE DEF l
  <2> QED BY <2>2, <2>3, <2>4, LinkInv
<1>12. ASSUME NEW d \in LinkedGifts.Donors, Match!DeleteEmployeeLink(d)
       PROVE  MatchInv'
  <2>1. /\ deleted' = deleted \cup {d}
        /\ link' = [link EXCEPT ![d] = [partner |-> 0, team |-> <<0, 0>>]]
        /\ UNCHANGED <<approved, terms, matched, entry, status>>
    BY <1>12, MatchAssumed DEF Match!DeleteEmployeeLink
  <2>2. MatchTyped'
    BY <2>1 DEF MatchInv, MatchTyped, LinkRow
  <2>3. \A e \in LinkedGifts.Donors :
          link'[e] = IF e = d THEN [partner |-> 0, team |-> <<0, 0>>] ELSE link[e]
    BY <2>1 DEF MatchInv, MatchTyped
  <2>4. \A e \in LinkedGifts.Donors, p \in LinkedGifts.Partners : Counts(e, p)' <=> Counts(e, p)
    BY <2>1 DEF Counts
  <2>5. \A e \in deleted' : link'[e].partner = 0
    BY <2>1, <2>3 DEF MatchInv, MatchTyped
  <2>6. \A e \in LinkedGifts.Donors, p \in LinkedGifts.Partners :
          Counts(e, p) => link'[e].partner = p \/ e \in deleted'
    BY <2>1, <2>3 DEF MatchInv
  <2>7. Match!OwedIsLargest'
    BY <2>1 DEF MatchInv, Match!OwedIsLargest
  <2> QED BY <2>1, <2>2, <2>4, <2>5, <2>6, <2>7 DEF MatchInv
<1> QED BY <1>1, <1>2, <1>4, <1>5, <1>6, <1>7, <1>9, <1>10, <1>11, <1>12

\* The largest whole amount within a rate in basis points.
LEMMA Share ==
  ASSUME NEW x \in Nat
  PROVE  /\ x \div 10000 \in Nat
         /\ (x \div 10000) * 10000 <= x /\ ~((x \div 10000 + 1) * 10000 <= x)
OBVIOUS

LEMMA OwedWithin ==
  ASSUME NEW gifts \in Nat, NEW t \in Terms(LinkedGifts), Match!matchOwed(gifts, t) # Match!TooLarge
  PROVE  LET within(n) == n * 10000 <= gifts * t.rate /\ (t.cap > 0 => n <= t.cap) IN
         within(Match!matchOwed(gifts, t)) /\ ~within(Match!matchOwed(gifts, t) + 1)
<1> DEFINE x == gifts * t.rate
           o == x \div 10000
<1>1. x \in Nat /\ t.cap \in Nat
  BY MatchAssumed DEF Terms
<1> HIDE DEF x
<1>2. o \in Nat /\ o * 10000 <= x /\ ~((o + 1) * 10000 <= x)
  BY <1>1, Share
<1>3. Match!matchOwed(gifts, t) = IF t.cap > 0 /\ o > t.cap THEN t.cap
                                  ELSE IF o > LinkedGifts.MaxInt THEN Match!TooLarge ELSE o
  BY DEF Match!matchOwed, x
<1> HIDE DEF o
<1>4. CASE t.cap > 0 /\ o > t.cap
  <2>1. t.cap * 10000 <= x
    BY <1>1, <1>2, <1>4
  <2> QED BY <1>1, <1>3, <1>4, <2>1 DEF x
<1>5. CASE ~(t.cap > 0 /\ o > t.cap)
  <2>1. Match!matchOwed(gifts, t) = o
    BY <1>3, <1>5
  <2>2. t.cap > 0 => o <= t.cap
    BY <1>1, <1>2, <1>5
  <2> QED BY <1>2, <2>1, <2>2 DEF x
<1> QED BY <1>4, <1>5

\* What the match reads of a partner is typed.
LEMMA GiftsTyped ==
  ASSUME NEW p
  PROVE  Match!LinkedEmployees(p) \in SUBSET LinkedGifts.Donors /\ Match!LinkedEmployeeGiftsInYear(p) \in Nat
<1> DEFINE E == Match!LinkedEmployees(p)
<1>1. E \in SUBSET LinkedGifts.Donors
  BY DEF Match!LinkedEmployees
<1>2. Match!LinkedEmployeeGiftsInYear(p) = Sum(LinkedGifts.Gifts, E)
  BY DEF Match!LinkedEmployeeGiftsInYear, Match!MapThenSumSet, Match!MapThenFoldSet, Sum, MapThenSumSet,
         MapThenFoldSet
<1> HIDE DEF E
<1>3. \A d \in E : LinkedGifts.Gifts[d] \in Nat
  BY <1>1, MatchAssumed
<1>4. IsFiniteSet(E)
  BY <1>1, MatchAssumed, FS_Subset
<1>5. Sum(LinkedGifts.Gifts, E) \in Nat
  BY <1>3, <1>4, SumCounts, Zenon
<1> QED BY <1>1, <1>2, <1>5 DEF E

\* A transaction that counts donors counts those who are linked.
LEMMA MatchGiftsInv ==
  ASSUME MatchInv, NEW s \in LinkedGifts.Staff, NEW p \in LinkedGifts.Partners, Match!MatchGifts(s, p)
  PROVE  MatchInv'
<1> DEFINE linked == Match!LinkedEmployees(p)
           gifts == Match!LinkedEmployeeGiftsInYear(p)
           no == Match!NoEntry
           e == [no EXCEPT !.pc = "owed", !.partner = p, !.terms = terms[p], !.gifts = gifts, !.counted = linked]
<1>1. linked \in SUBSET LinkedGifts.Donors /\ gifts \in Nat /\ terms[p] \in Terms(LinkedGifts)
  BY GiftsTyped, MatchAssumed DEF MatchInv, MatchTyped
<1>2. entry' = [entry EXCEPT ![s] = e] /\ UNCHANGED <<approved, deleted, link, terms, matched, status>>
  BY DEF Match!MatchGifts, Match!donorVars
<1>3. \A d \in linked : d \in LinkedGifts.Donors /\ link[d].partner = p
  BY DEF Match!LinkedEmployees
<1> HIDE DEF linked, gifts, no
<1>4. e \in EntryRow(LinkedGifts) /\ e.pc = "owed" /\ e.partner = p /\ e.counted = linked
  <2>1. no \in EntryRow(LinkedGifts)
    BY NoEntryRow DEF no
  <2> QED BY <1>1, <2>1, Zenon DEF EntryRow
<1> HIDE DEF e
<1>5. \A u \in LinkedGifts.Staff : entry'[u] = IF u = s THEN e ELSE entry[u]
  BY <1>2 DEF MatchInv, MatchTyped
<1>6. MatchTyped'
  <2>1. entry' \in [LinkedGifts.Staff -> EntryRow(LinkedGifts)]
    BY <1>2, <1>4 DEF MatchInv, MatchTyped
  <2> QED BY <1>2, <2>1 DEF MatchInv, MatchTyped
<1>7. ASSUME NEW d \in LinkedGifts.Donors, NEW q \in LinkedGifts.Partners, Counts(d, q)'
      PROVE  Counts(d, q) \/ (q = p /\ d \in linked)
  BY <1>2, <1>4, <1>5, <1>7 DEF Counts
<1>8. \A d \in LinkedGifts.Donors, q \in LinkedGifts.Partners :
        Counts(d, q) => link[d].partner = q \/ d \in deleted
  BY DEF MatchInv
<1>9. \A d \in deleted : link[d].partner = 0
  BY DEF MatchInv
<1>10. \A d \in linked : d \notin deleted
  BY <1>3, <1>9, MatchAssumed
<1>11. \A d \in LinkedGifts.Donors, q \in LinkedGifts.Partners :
         Counts(d, q)' => link[d].partner = q \/ d \in deleted
  BY <1>3, <1>7, <1>8
<1>12. ASSUME NEW d \in LinkedGifts.Donors, NEW q \in LinkedGifts.Partners, NEW r \in LinkedGifts.Partners,
              Counts(d, q)', Counts(d, r)'
       PROVE  q = r
  <2>1. CASE d \in linked
    BY <1>10, <1>11, <1>12, <2>1
  <2>2. CASE d \notin linked
    BY <1>7, <1>12, <2>2 DEF MatchInv
  <2> QED BY <2>1, <2>2
<1>13. Match!OwedIsLargest'
  BY <1>2 DEF MatchInv, Match!OwedIsLargest
<1>14. \A u \in LinkedGifts.Staff : entry'[u].pc = "owed" => entry'[u].partner \in LinkedGifts.Partners
  BY <1>4, <1>5 DEF MatchInv
<1> QED BY <1>2, <1>6, <1>9, <1>11, <1>12, <1>13, <1>14 DEF MatchInv

\* The view adds what the transaction had counted.
LEMMA MatchedInv ==
  ASSUME MatchInv, NEW s \in LinkedGifts.Staff, Match!Match(s)
  PROVE  MatchInv'
<1> DEFINE e == entry[s]
           p == e.partner
           owed == Match!matchOwed(e.gifts, e.terms)
<1>1. e \in EntryRow(LinkedGifts) /\ e.pc = "owed" /\ p \in LinkedGifts.Partners
  BY DEF MatchInv, MatchTyped, Match!Match
<1>2. /\ entry' = [entry EXCEPT ![s] = Match!NoEntry]
      /\ matched' = [d \in LinkedGifts.Donors |-> IF d \in e.counted THEN matched[d] \cup {p} ELSE matched[d]]
      /\ UNCHANGED <<approved, deleted, link, terms>>
  BY DEF Match!Match, Match!donorVars
<1>3. \A u \in LinkedGifts.Staff : entry'[u] = IF u = s THEN Match!NoEntry ELSE entry[u]
  BY <1>2 DEF MatchInv, MatchTyped
<1>4. status = [q \in LinkedGifts.Partners |-> status[q]]
  BY DEF MatchInv, MatchTyped
<1>5. \/ status' = status
      \/ /\ owed # Match!TooLarge
         /\ \E paid, outstanding :
              status' = [status EXCEPT ![p] =
                [gifts |-> e.gifts, owed |-> owed, paid |-> paid, outstanding |-> outstanding,
                 rate |-> e.terms.rate, cap |-> e.terms.cap]]
  BY Zenon DEF Match!Match
<1>6. status' = [q \in LinkedGifts.Partners |-> status'[q]]
  BY <1>4, <1>5
<1>7. MatchTyped'
  <2>1. entry' \in [LinkedGifts.Staff -> EntryRow(LinkedGifts)]
    BY <1>2, NoEntryRow DEF MatchInv, MatchTyped
  <2>2. matched' \in [LinkedGifts.Donors -> SUBSET LinkedGifts.Partners]
    BY <1>1, <1>2 DEF MatchInv, MatchTyped
  <2> QED BY <1>2, <1>6, <2>1, <2>2, Zenon DEF MatchInv, MatchTyped
<1>8. ASSUME NEW d \in LinkedGifts.Donors, NEW q \in LinkedGifts.Partners, Counts(d, q)'
      PROVE  Counts(d, q)
  BY <1>1, <1>2, <1>3, <1>8, NoEntryRow DEF Counts
<1>9. Match!OwedIsLargest'
  <2>1. CASE status' = status
    BY <2>1 DEF MatchInv, Match!OwedIsLargest
  <2>2. CASE status' # status
    <3>1. PICK paid, outstanding :
            status' = [status EXCEPT ![p] =
              [gifts |-> e.gifts, owed |-> owed, paid |-> paid, outstanding |-> outstanding,
               rate |-> e.terms.rate, cap |-> e.terms.cap]]
      BY <1>5, <2>2
    <3> DEFINE line == [gifts |-> e.gifts, owed |-> owed, paid |-> paid, outstanding |-> outstanding,
                       rate |-> e.terms.rate, cap |-> e.terms.cap]
    <3>2. owed # Match!TooLarge /\ e.gifts \in Nat /\ e.terms \in Terms(LinkedGifts)
      BY <1>1, <1>5, <2>2 DEF EntryRow
    <3>3. LET within(n) == n * 10000 <= line.gifts * line.rate /\ (line.cap > 0 => n <= line.cap) IN
          within(line.owed) /\ ~within(line.owed + 1)
      BY <3>2, OwedWithin
    <3>4. \A q \in LinkedGifts.Partners : status'[q] = IF q = p THEN line ELSE status[q]
      <4> DEFINE new == line
      <4>1. status' = [status EXCEPT ![p] = new]
        BY <3>1
      <4> HIDE DEF new
      <4>2. \A q \in LinkedGifts.Partners : status'[q] = IF q = p THEN new ELSE status[q]
        BY <1>4, <4>1
      <4> QED BY <4>2 DEF new
    <3> HIDE DEF line
    <3>5. ASSUME NEW q \in LinkedGifts.Partners, status'[q] # Match!NoStatus
          PROVE  LET r == status'[q]
                     within(n) == n * 10000 <= r.gifts * r.rate /\ (r.cap > 0 => n <= r.cap) IN
                 within(r.owed) /\ ~within(r.owed + 1)
      <4>1. CASE q = p
        <5>1. status'[q] = line
          BY <3>4, <4>1
        <5> QED BY <3>3, <5>1
      <4>2. CASE q # p
        <5>1. status'[q] = status[q]
          BY <3>4, <4>2
        <5>2. LET r == status[q]
                  within(n) == n * 10000 <= r.gifts * r.rate /\ (r.cap > 0 => n <= r.cap) IN
              within(r.owed) /\ ~within(r.owed + 1)
          BY <3>5, <5>1 DEF MatchInv, Match!OwedIsLargest
        <5> QED BY <5>1, <5>2
      <4> QED BY <4>1, <4>2
    <3> QED BY <3>5 DEF Match!OwedIsLargest, Match!NoStatus
  <2> QED BY <2>1, <2>2
<1>10. \A u \in LinkedGifts.Staff : entry'[u].pc = "owed" => entry'[u].partner \in LinkedGifts.Partners
  BY <1>3, NoEntryRow DEF MatchInv
<1> QED BY <1>2, <1>7, <1>8, <1>9, <1>10 DEF MatchInv

\* A payment's transaction counts nobody.
LEMMA MatchPaymentsInv ==
  ASSUME MatchInv, NEW s \in LinkedGifts.Staff,
         \/ \E p \in LinkedGifts.Partners, r \in LinkedGifts.Requests, a \in LinkedGifts.Amounts :
              Match!RecordMatchPayment(s, r, p, a)
         \/ Match!InsertMatchPayment(s) \/ Match!Replay(s)
  PROVE  MatchInv'
<1>1. PICK e \in EntryRow(LinkedGifts) : entry' = [entry EXCEPT ![s] = e] /\ e.pc # "owed"
  <2>1. ASSUME NEW p \in LinkedGifts.Partners, NEW r \in LinkedGifts.Requests, NEW a \in LinkedGifts.Amounts,
               Match!RecordMatchPayment(s, r, p, a)
        PROVE  \E e \in EntryRow(LinkedGifts) : entry' = [entry EXCEPT ![s] = e] /\ e.pc # "owed"
    <3> DEFINE no == Match!NoEntry
               how == IF payments[r] = Match!NoPayment THEN "paid" ELSE "compare"
               e == [no EXCEPT !.pc = how, !.request = r, !.partner = p, !.amount = a]
    <3>1. entry' = [entry EXCEPT ![s] = e]
      BY <2>1, Zenon DEF Match!RecordMatchPayment
    <3>2. no \in EntryRow(LinkedGifts) /\ how \in {"paid", "compare"}
      BY NoEntryRow
    <3> HIDE DEF no, how
    <3>3. e \in EntryRow(LinkedGifts) /\ e.pc # "owed"
      BY <3>2 DEF EntryRow
    <3> HIDE DEF e
    <3> QED BY <3>1, <3>3, Zenon
  <2>2. ASSUME Match!InsertMatchPayment(s) \/ Match!Replay(s)
        PROVE  entry' = [entry EXCEPT ![s] = Match!NoEntry]
    BY <2>2 DEF Match!InsertMatchPayment, Match!Replay
  <2> QED BY <2>1, <2>2, NoEntryRow
<1>2. UNCHANGED <<approved, deleted, link, terms, matched, status>>
  BY Zenon DEF Match!RecordMatchPayment, Match!InsertMatchPayment, Match!Replay, Match!donorVars
<1>3. \A u \in LinkedGifts.Staff : entry'[u] = IF u = s THEN e ELSE entry[u]
  BY <1>1 DEF MatchInv, MatchTyped
<1>4. MatchTyped'
  <2>1. entry' \in [LinkedGifts.Staff -> EntryRow(LinkedGifts)]
    BY <1>1 DEF MatchInv, MatchTyped
  <2> QED BY <1>2, <2>1 DEF MatchInv, MatchTyped
<1>5. \A d \in LinkedGifts.Donors, q \in LinkedGifts.Partners : Counts(d, q)' => Counts(d, q)
  BY <1>1, <1>2, <1>3 DEF Counts
<1>6. Match!OwedIsLargest'
  BY <1>2 DEF MatchInv, Match!OwedIsLargest
<1>7. \A u \in LinkedGifts.Staff : entry'[u].pc = "owed" => entry'[u].partner \in LinkedGifts.Partners
  BY <1>1, <1>3 DEF MatchInv
<1> QED BY <1>2, <1>4, <1>5, <1>6, <1>7 DEF MatchInv

LEMMA MatchStep == MatchInv /\ [Match!Next]_teamVars => MatchInv'
<1> SUFFICES ASSUME MatchInv, Match!Next \/ UNCHANGED teamVars PROVE MatchInv'
  OBVIOUS
<1>1. CASE UNCHANGED teamVars
  <2> UNCHANGED <<link, deleted, matched, entry, status>> /\ MatchTyped'
    BY <1>1 DEF teamVars, MatchInv, MatchTyped
  <2> QED BY MatchRest
<1>2. ASSUME NEW s \in LinkedGifts.Staff,
             \/ \E p \in LinkedGifts.Partners :
                  \/ Match!MatchGifts(s, p)
                  \/ \E r \in LinkedGifts.Requests, a \in LinkedGifts.Amounts :
                       Match!RecordMatchPayment(s, r, p, a)
             \/ Match!Match(s) \/ Match!InsertMatchPayment(s) \/ Match!Replay(s)
      PROVE  MatchInv'
  BY <1>2, MatchGiftsInv, MatchedInv, MatchPaymentsInv
<1> QED BY <1>1, <1>2, MatchDonorsInv DEF Match!Next

LEMMA MatchedOnce == MatchInv => Match!MatchedByOneEmployer /\ Match!OwedIsLargest
<1> SUFFICES ASSUME MatchInv, NEW d \in LinkedGifts.Donors PROVE Match!Cardinality(matched[d]) <= 1
  BY DEF MatchInv, Match!MatchedByOneEmployer
<1>1. \A p, q \in matched[d] : p = q
  BY DEF MatchInv, MatchTyped, Counts
<1>2. Match!Cardinality(matched[d]) = Cardinality(matched[d])
  BY DEF Match!Cardinality, Match!IsFiniteSet, Cardinality, IsFiniteSet
<1>3. CASE matched[d] = {}
  BY <1>2, <1>3, FS_EmptySet
<1>4. CASE matched[d] # {}
  <2>1. PICK p : matched[d] = {p}
    BY <1>1, <1>4, Zenon
  <2> QED BY <1>2, <2>1, FS_Singleton
<1> QED BY <1>3, <1>4

-----------------------------------------------------------------------------
(***************************************************************************)
(* The payments. Of the transactions that will insert a payment each has a *)
(* request of its own, which is not on the ledger.                         *)
(***************************************************************************)
PaymentsTyped ==
  /\ approved \subseteq SentPayments.Partners
  /\ entry = [s \in SentPayments.Staff |-> entry[s]]
  /\ payments \in [SentPayments.Requests -> [partner : Nat, amount : Nat]]
  /\ audits \in [SentPayments.Requests -> Nat]
  /\ \A e \in answered : e.request \in SentPayments.Requests /\ e.partner # 0

PaymentsInv ==
  /\ PaymentsTyped
  /\ \A s \in SentPayments.Staff : entry[s].pc \in {"paid", "compare"} =>
       /\ entry[s].request \in SentPayments.Requests
       /\ entry[s].partner \in SentPayments.Partners /\ entry[s].amount \in SentPayments.Amounts
  /\ \A s \in SentPayments.Staff :
       entry[s].pc = "paid" => payments[entry[s].request] = Payments!NoPayment
  /\ \A s, u \in SentPayments.Staff :
       entry[s].pc = "paid" /\ entry[u].pc = "paid" /\ s # u => entry[s].request # entry[u].request
  /\ Payments!AnsweredIsPaid

LEMMA PaymentsAssumed ==
  SentPayments.Partners \subseteq Nat \ {0} /\ SentPayments.Amounts \subseteq Nat /\ Payments!None = 0
BY Instances DEF Payments!TeamsAssumption, Payments!None

LEMMA PaymentsInit == Payments!Init => PaymentsInv
BY PaymentsAssumed
   DEF Payments!Init, PaymentsInv, PaymentsTyped, Payments!NoEntry, Payments!NoPayment,
       Payments!AnsweredIsPaid

LEMMA PaymentsRest ==
  ASSUME PaymentsInv, PaymentsTyped', UNCHANGED <<payments, audits, answered, entry>>
  PROVE  PaymentsInv'
BY DEF PaymentsInv, Payments!AnsweredIsPaid

LEMMA PaymentsDonorsInv ==
  ASSUME PaymentsInv,
         \/ \E p \in SentPayments.Partners :
              Payments!Approve(p) \/ \E t \in SentPayments.Terms : Payments!SetTerms(p, t)
         \/ \E v \in SentPayments.Visitors :
              Payments!Expire(v) \/ \E p \in SentPayments.Partners : Payments!CaptureCompanyCode(v, p)
         \/ \E d \in SentPayments.Donors :
              \/ \E v \in SentPayments.Visitors : Payments!bindCompanyCode(d, v)
              \/ \E p \in SentPayments.Partners : Payments!Enroll(d, p)
              \/ \E n \in SentPayments.Names : Payments!JoinTeam(d, n)
              \/ \E a \in SentPayments.Pledges : Payments!ChangePledge(d, a)
              \/ Payments!DeleteEmployeeLink(d)
         \/ \E w \in SentPayments.Workers : Payments!Close(w) \/ Payments!Crash(w)
         \/ Payments!MonthEnds
  PROVE  PaymentsInv'
<1> USE DEF Payments!ledgerVars
<1>1. UNCHANGED <<payments, audits, answered, entry>>
  <2>1. ASSUME NEW p \in SentPayments.Partners,
               Payments!Approve(p) \/ \E t \in SentPayments.Terms : Payments!SetTerms(p, t)
        PROVE  UNCHANGED <<payments, audits, answered, entry>>
    BY <2>1 DEF Payments!Approve, Payments!SetTerms
  <2>2. ASSUME NEW d \in SentPayments.Donors,
               \/ \E v \in SentPayments.Visitors : Payments!bindCompanyCode(d, v)
               \/ \E p \in SentPayments.Partners : Payments!Enroll(d, p)
               \/ \E n \in SentPayments.Names : Payments!JoinTeam(d, n)
               \/ \E a \in SentPayments.Pledges : Payments!ChangePledge(d, a)
               \/ Payments!DeleteEmployeeLink(d)
        PROVE  UNCHANGED <<payments, audits, answered, entry>>
    BY <2>2 DEF Payments!bindCompanyCode, Payments!Enroll, Payments!JoinTeam, Payments!ChangePledge,
       Payments!DeleteEmployeeLink
  <2>3. ASSUME NEW w \in SentPayments.Workers, Payments!Close(w) \/ Payments!Crash(w)
        PROVE  UNCHANGED <<payments, audits, answered, entry>>
    BY <2>3, Zenon DEF Payments!Close, Payments!CloseDue, Payments!closeTeamMonth,
       Payments!RecordTeamMonthStandings, Payments!AwardTeam, Payments!CommitMonth, Payments!Crash
  <2>4. ASSUME NEW v \in SentPayments.Visitors,
               Payments!Expire(v) \/ \E p \in SentPayments.Partners : Payments!CaptureCompanyCode(v, p)
        PROVE  UNCHANGED <<payments, audits, answered, entry>>
    BY <2>4 DEF Payments!Expire, Payments!CaptureCompanyCode
  <2>5. Payments!MonthEnds => UNCHANGED <<payments, audits, answered, entry>>
    BY DEF Payments!MonthEnds
  <2> QED BY <2>1, <2>2, <2>3, <2>4, <2>5
<1>2. approved' \subseteq SentPayments.Partners
  <2>1. ASSUME NEW p \in SentPayments.Partners,
               Payments!Approve(p) \/ \E t \in SentPayments.Terms : Payments!SetTerms(p, t)
        PROVE  approved' \subseteq SentPayments.Partners
    BY <2>1 DEF Payments!Approve, Payments!SetTerms, PaymentsInv, PaymentsTyped
  <2>2. approved' = approved
        \/ \E p \in SentPayments.Partners :
             Payments!Approve(p) \/ \E t \in SentPayments.Terms : Payments!SetTerms(p, t)
    BY Zenon DEF Payments!bindCompanyCode, Payments!Enroll, Payments!JoinTeam, Payments!ChangePledge,
       Payments!DeleteEmployeeLink, Payments!Close, Payments!CloseDue, Payments!closeTeamMonth,
       Payments!RecordTeamMonthStandings, Payments!AwardTeam, Payments!CommitMonth, Payments!Crash,
       Payments!Expire, Payments!CaptureCompanyCode, Payments!MonthEnds, Payments!donorVars
  <2> QED BY <2>1, <2>2 DEF PaymentsInv, PaymentsTyped
<1>3. PaymentsTyped'
  BY <1>1, <1>2 DEF PaymentsInv, PaymentsTyped
<1> QED BY <1>1, <1>3, PaymentsRest

LEMMA RecordMatchPaymentInv ==
  ASSUME PaymentsInv, NEW s \in SentPayments.Staff, NEW r \in SentPayments.Requests,
         NEW p \in SentPayments.Partners, NEW a \in SentPayments.Amounts,
         Payments!RecordMatchPayment(s, r, p, a)
  PROVE  PaymentsInv'
<1> DEFINE e == [Payments!NoEntry EXCEPT !.pc = IF payments[r] = Payments!NoPayment THEN "paid" ELSE "compare",
                                         !.request = r, !.partner = p, !.amount = a]
<1>1. entry' = [entry EXCEPT ![s] = e] /\ UNCHANGED <<approved, payments, audits, answered>>
  BY DEF Payments!RecordMatchPayment, Payments!donorVars
<1>2. /\ e.pc = IF payments[r] = Payments!NoPayment THEN "paid" ELSE "compare"
      /\ e.request = r /\ e.partner = p /\ e.amount = a
  BY DEF Payments!NoEntry
<1>3. \A u \in SentPayments.Staff : entry[u].pc = "paid" => entry[u].request # r
  BY DEF Payments!RecordMatchPayment
<1> HIDE DEF e
<1>4. \A u \in SentPayments.Staff : entry'[u] = IF u = s THEN e ELSE entry[u]
  BY <1>1 DEF PaymentsInv, PaymentsTyped
<1>5. PaymentsTyped'
  BY <1>1 DEF PaymentsInv, PaymentsTyped
<1>6. Payments!AnsweredIsPaid'
  BY <1>1 DEF PaymentsInv, Payments!AnsweredIsPaid
<1> QED BY <1>1, <1>2, <1>3, <1>4, <1>5, <1>6 DEF PaymentsInv

\* The request was not on the ledger, so nobody was answered for it.
LEMMA InsertMatchPaymentInv ==
  ASSUME PaymentsInv, NEW s \in SentPayments.Staff, Payments!InsertMatchPayment(s)
  PROVE  PaymentsInv'
<1> DEFINE e == entry[s]
           line == [partner |-> e.partner, amount |-> e.amount]
<1>1. /\ e.pc = "paid" /\ e.request \in SentPayments.Requests /\ e.partner \in SentPayments.Partners
      /\ e.amount \in SentPayments.Amounts /\ payments[e.request] = Payments!NoPayment
      /\ e.partner # 0 /\ line \in [partner : Nat, amount : Nat] /\ line # Payments!NoPayment
  BY PaymentsAssumed DEF PaymentsInv, Payments!InsertMatchPayment, Payments!NoPayment
<1>2. /\ payments' = [payments EXCEPT ![e.request] = line]
      /\ audits' = [audits EXCEPT ![e.request] = @ + 1]
      /\ answered' \subseteq answered \cup {Payments!Asked(e)}
      /\ entry' = [entry EXCEPT ![s] = Payments!NoEntry]
      /\ approved' = approved
  BY DEF Payments!InsertMatchPayment, Payments!donorVars
<1>3. /\ \A u \in SentPayments.Staff : entry'[u] = IF u = s THEN Payments!NoEntry ELSE entry[u]
      /\ Payments!NoEntry.pc = "idle"
  BY <1>2 DEF PaymentsInv, PaymentsTyped, Payments!NoEntry
<1>4. \A r \in SentPayments.Requests :
        /\ payments'[r] = IF r = e.request THEN line ELSE payments[r]
        /\ audits'[r] = IF r = e.request THEN audits[r] + 1 ELSE audits[r]
  BY <1>2 DEF PaymentsInv, PaymentsTyped
<1>5. Payments!Asked(e).request = e.request /\ Payments!Asked(e).partner = e.partner
      /\ Payments!Asked(e).amount = e.amount
  BY DEF Payments!Asked
<1> HIDE DEF e
<1>6. PaymentsTyped'
  <2>1. entry' = [u \in SentPayments.Staff |-> entry'[u]]
    BY <1>2, Zenon DEF PaymentsInv, PaymentsTyped
  <2>2. payments' \in [SentPayments.Requests -> [partner : Nat, amount : Nat]]
    BY <1>1, <1>2 DEF PaymentsInv, PaymentsTyped
  <2>3. audits' \in [SentPayments.Requests -> Nat]
    BY <1>1, <1>2 DEF PaymentsInv, PaymentsTyped
  <2>4. \A x \in answered' : x.request \in SentPayments.Requests /\ x.partner # 0
    BY <1>1, <1>2, <1>5 DEF PaymentsInv, PaymentsTyped
  <2> QED BY <1>2, <2>1, <2>2, <2>3, <2>4 DEF PaymentsInv, PaymentsTyped
<1>7. ASSUME NEW x \in answered'
      PROVE  payments'[x.request] = [partner |-> x.partner, amount |-> x.amount]
  <2>1. CASE x \in answered
    <3>1. /\ payments[x.request] = [partner |-> x.partner, amount |-> x.amount]
          /\ x.request \in SentPayments.Requests /\ x.partner # 0
      BY <2>1 DEF PaymentsInv, PaymentsTyped, Payments!AnsweredIsPaid
    <3>2. [partner |-> x.partner, amount |-> x.amount] # Payments!NoPayment
      BY <3>1, PaymentsAssumed DEF Payments!NoPayment
    <3> HIDE DEF line
    <3> QED BY <1>1, <1>4, <3>1, <3>2
  <2>2. CASE x = Payments!Asked(e)
    BY <1>1, <1>4, <1>5, <2>2
  <2> QED BY <1>2, <2>1, <2>2
<1>8. \A r \in SentPayments.Requests : audits'[r] = IF payments'[r] = Payments!NoPayment THEN 0 ELSE 1
  <2> HIDE DEF line
  <2> QED BY <1>1, <1>4 DEF PaymentsInv, Payments!AnsweredIsPaid
<1>9. ASSUME NEW u \in SentPayments.Staff, entry'[u].pc = "paid"
      PROVE  payments'[entry'[u].request] = Payments!NoPayment
  <2>1. u # s /\ entry'[u] = entry[u]
    BY <1>3, <1>9
  <2>2. entry[u].request # e.request /\ payments[entry[u].request] = Payments!NoPayment
        /\ entry[u].request \in SentPayments.Requests
    BY <1>1, <1>9, <2>1 DEF PaymentsInv, e
  <2> QED BY <1>4, <2>1, <2>2
<1>10. Payments!AnsweredIsPaid'
  BY <1>7, <1>8 DEF Payments!AnsweredIsPaid, Payments!NoPayment
<1> QED BY <1>3, <1>6, <1>9, <1>10 DEF PaymentsInv, Payments!NoPayment

\* A transaction that ends without a new payment.
LEMMA EntryEnds ==
  ASSUME PaymentsInv, NEW s \in SentPayments.Staff, NEW e, e.pc \notin {"paid", "compare"},
         entry' = [entry EXCEPT ![s] = e], UNCHANGED <<approved, payments, audits>>,
         PaymentsTyped', Payments!AnsweredIsPaid'
  PROVE  PaymentsInv'
<1>1. \A u \in SentPayments.Staff : entry'[u] = IF u = s THEN e ELSE entry[u]
  BY DEF PaymentsInv, PaymentsTyped
<1> QED BY <1>1 DEF PaymentsInv

LEMMA ReplayInv ==
  ASSUME PaymentsInv, NEW s \in SentPayments.Staff, Payments!Replay(s)
  PROVE  PaymentsInv'
<1> DEFINE e == entry[s]
<1>1. /\ e.pc = "compare" /\ e.request \in SentPayments.Requests /\ e.partner # 0
      /\ UNCHANGED <<approved, payments, audits>>
      /\ entry' = [entry EXCEPT ![s] = Payments!NoEntry]
  BY PaymentsAssumed DEF PaymentsInv, Payments!Replay, Payments!donorVars
<1>2. \A x \in answered' : x \in answered \/ (x = Payments!Asked(e) /\ Payments!MatchPaymentMatches(e))
  BY DEF Payments!Replay
<1> HIDE DEF e
<1>3. ASSUME NEW x \in answered'
      PROVE  /\ x.request \in SentPayments.Requests /\ x.partner # 0
             /\ payments[x.request] = [partner |-> x.partner, amount |-> x.amount]
  <2>1. CASE x \in answered
    BY <2>1 DEF PaymentsInv, PaymentsTyped, Payments!AnsweredIsPaid
  <2>2. CASE x = Payments!Asked(e) /\ Payments!MatchPaymentMatches(e)
    <3>1. x.request = e.request /\ x.partner = e.partner /\ x.amount = e.amount
      BY <2>2 DEF Payments!Asked
    <3> QED BY <1>1, <2>2, <3>1 DEF Payments!MatchPaymentMatches
  <2> QED BY <1>2, <2>1, <2>2
<1>4. PaymentsTyped'
  BY <1>1, <1>3, Zenon DEF PaymentsInv, PaymentsTyped
<1>5. Payments!AnsweredIsPaid'
  BY <1>1, <1>3 DEF PaymentsInv, Payments!AnsweredIsPaid
<1>6. Payments!NoEntry.pc \notin {"paid", "compare"}
  BY DEF Payments!NoEntry
<1> QED BY <1>1, <1>4, <1>5, <1>6, EntryEnds, Zenon

LEMMA PaymentsMatchInv ==
  ASSUME PaymentsInv, NEW s \in SentPayments.Staff,
         Payments!Match(s) \/ \E p \in SentPayments.Partners : Payments!MatchGifts(s, p)
  PROVE  PaymentsInv'
<1>1. PICK e : entry' = [entry EXCEPT ![s] = e] /\ e.pc \notin {"paid", "compare"}
  <2>1. CASE Payments!Match(s)
    <3>1. Payments!NoEntry.pc \notin {"paid", "compare"}
      BY DEF Payments!NoEntry
    <3> QED BY <2>1, <3>1, Zenon DEF Payments!Match
  <2>2. ASSUME NEW p \in SentPayments.Partners, Payments!MatchGifts(s, p)
        PROVE  \E e : entry' = [entry EXCEPT ![s] = e] /\ e.pc \notin {"paid", "compare"}
    <3> DEFINE gifts == Payments!LinkedEmployeeGiftsInYear(p)
               linked == Payments!LinkedEmployees(p)
               e == [Payments!NoEntry EXCEPT !.pc = "owed", !.partner = p, !.terms = terms[p],
                                             !.gifts = gifts, !.counted = linked]
    <3>1. entry' = [entry EXCEPT ![s] = e]
      BY <2>2, Zenon DEF Payments!MatchGifts
    <3> HIDE DEF gifts, linked
    <3>2. e.pc = "owed"
      BY DEF Payments!NoEntry
    <3> HIDE DEF e
    <3> QED BY <3>1, <3>2
  <2> QED BY <2>1, <2>2
<1>2. UNCHANGED <<approved, payments, audits, answered>>
  BY Zenon DEF Payments!Match, Payments!MatchGifts, Payments!donorVars
<1>3. PaymentsTyped' /\ Payments!AnsweredIsPaid'
  BY <1>1, <1>2 DEF PaymentsInv, PaymentsTyped, Payments!AnsweredIsPaid
<1> QED BY <1>1, <1>2, <1>3, EntryEnds, Zenon

LEMMA PaymentsStep == PaymentsInv /\ [Payments!Next]_teamVars => PaymentsInv'
<1> SUFFICES ASSUME PaymentsInv, Payments!Next \/ UNCHANGED teamVars PROVE PaymentsInv'
  OBVIOUS
<1>1. CASE UNCHANGED teamVars
  <2> UNCHANGED <<payments, audits, answered, entry>> /\ PaymentsTyped'
    BY <1>1 DEF teamVars, PaymentsInv, PaymentsTyped
  <2> QED BY PaymentsRest
<1>2. ASSUME NEW s \in SentPayments.Staff,
             \/ \E p \in SentPayments.Partners :
                  \/ Payments!MatchGifts(s, p)
                  \/ \E r \in SentPayments.Requests, a \in SentPayments.Amounts :
                       Payments!RecordMatchPayment(s, r, p, a)
             \/ Payments!Match(s) \/ Payments!InsertMatchPayment(s) \/ Payments!Replay(s)
      PROVE  PaymentsInv'
  BY <1>2, PaymentsMatchInv, RecordMatchPaymentInv, InsertMatchPaymentInv, ReplayInv
<1> QED BY <1>1, <1>2, PaymentsDonorsInv DEF Payments!Next

-----------------------------------------------------------------------------
\* The parts whose months are closed, and whose gifts and payments are matched.
OfWinners == part = "winners"
OfMatch == part = "match"
OfPayments == part = "payments"

\* Everyone awarded belonged to the team on record as the month's winner, the
\* head of its leaderboard, and every counted member who stayed was awarded, for
\* any companies, teams, donors and workers (CloseTeamMonth, AwardTeam).
THEOREM WinnersOnRecord == ProgrammeSpec => []OneWinningTeam
<1>1. ProgrammeInit /\ OfWinners => WinnersInv
  BY WinnersInit DEF ProgrammeInit, OfWinners
<1>2. OfWinners /\ WinnersInv /\ [ProgrammeNext]_programmeVars => OfWinners' /\ WinnersInv'
  <2> SUFFICES ASSUME OfWinners, WinnersInv, [ProgrammeNext]_programmeVars
               PROVE  OfWinners' /\ [Winners!Next]_teamVars
    BY WinnersStep
  <2> QED BY DEF OfWinners, ProgrammeNext, programmeVars
<1>3. ~OfWinners /\ [ProgrammeNext]_programmeVars => (~OfWinners)'
  BY Zenon DEF OfWinners, ProgrammeNext, programmeVars
<1>4. (OfWinners => WinnersInv) => OneWinningTeam
  BY WinnerHeads DEF OfWinners, OneWinningTeam, WinnersInv
<1> QED BY <1>1, <1>2, <1>3, <1>4, PTL DEF ProgrammeSpec

\* A donor's gifts are matched by one employer, which owes the largest amount
\* within its rate and cap, and a payment answered with success is on the ledger
\* once, for any donors, partners, staff and requests (Match,
\* RecordMatchPayment).
THEOREM MatchStaysExact == ProgrammeSpec => []MatchExact
<1>1. ProgrammeInit => (OfMatch => MatchInv) /\ (OfPayments => PaymentsInv)
  BY MatchInit, PaymentsInit, Zenon DEF ProgrammeInit, OfMatch, OfPayments
<1>2. OfMatch /\ MatchInv /\ [ProgrammeNext]_programmeVars => OfMatch' /\ MatchInv'
  <2> SUFFICES ASSUME OfMatch, MatchInv, [ProgrammeNext]_programmeVars
               PROVE  OfMatch' /\ [Match!Next]_teamVars
    BY MatchStep
  <2> QED BY DEF OfMatch, ProgrammeNext, programmeVars
<1>3. OfPayments /\ PaymentsInv /\ [ProgrammeNext]_programmeVars => OfPayments' /\ PaymentsInv'
  <2> SUFFICES ASSUME OfPayments, PaymentsInv, [ProgrammeNext]_programmeVars
               PROVE  OfPayments' /\ [Payments!Next]_teamVars
    BY PaymentsStep
  <2> QED BY DEF OfPayments, ProgrammeNext, programmeVars
<1>4. ~OfMatch /\ [ProgrammeNext]_programmeVars => (~OfMatch)'
  BY Zenon DEF OfMatch, ProgrammeNext, programmeVars
<1>5. ~OfPayments /\ [ProgrammeNext]_programmeVars => (~OfPayments)'
  BY Zenon DEF OfPayments, ProgrammeNext, programmeVars
<1>6. (OfMatch => MatchInv) /\ (OfPayments => PaymentsInv) => MatchExact
  BY MatchedOnce DEF OfMatch, OfPayments, MatchExact, PaymentsInv
<1> QED BY <1>1, <1>2, <1>3, <1>4, <1>5, <1>6, PTL DEF ProgrammeSpec
=============================================================================
