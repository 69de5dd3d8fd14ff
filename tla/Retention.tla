------------------------------ MODULE Retention ------------------------------
(***************************************************************************)
(* The purge of expired referral touches and the projection worker it      *)
(* shares:                                                                 *)
(*   store/retention.go         passes, their batches and their interval;  *)
(*   store/queries/donor.sql.go PurgeReferralTouches, oldest first, rows   *)
(*                              another pass has locked skipped;           *)
(*   cmd/worker/main.go         the step: a purge, then the due work;      *)
(*   workers/loop.go            a failed step is tried again.              *)
(* A touch is its place in capture order. Only the touches that the        *)
(* statement may delete once they are past retention are kept; those that  *)
(* led to an attributed gift are never among them. An interval is an hour  *)
(* and a step or a back-off a few minutes at the most, so an interval that *)
(* a step began in does not end before another step has begun.             *)
(***************************************************************************)
EXTENDS Integers, FiniteSets

CONSTANTS
  Workers,   \* replicas of the projection worker
  LastTouch, \* touches are 1..LastTouch
  Batch,     \* touchPurgeBatch
  MaxRestarts, \* bound on how often a process stops
  Fallible   \* the statements that may fail: "analytics", "company", "batch"

RetentionAssumption ==
  /\ LastTouch \in Nat /\ Batch \in Nat \ {0}
  /\ MaxRestarts \in Nat
  /\ Fallible \subseteq {"analytics", "company", "batch"}

VARIABLES
  touch,   \* each touch: "kept" so far, "past" retention, "gone"
  due,     \* whether work that shares the worker is due
  waits,   \* the workers whose r.next is ahead: the interval is not over
  cursor,  \* r.cursor, NoPass when nil
  locked,  \* the touches its running delete has locked
  pc,      \* "purge", "delete" (statement running), "work" (the rest of the
           \* step) or "failed" (the worker backs off)
  restarts \* how often a process stopped

vars == <<touch, due, waits, cursor, locked, pc, restarts>>

Touches == 1..LastTouch
NoPass == -1
LastOf(S) == CHOOSE t \in S : \A u \in S : u <= t

Init ==
  /\ touch = [t \in Touches |-> "kept"]
  /\ due = TRUE
  /\ waits = {}
  /\ cursor = [w \in Workers |-> NoPass]
  /\ locked = [w \in Workers |-> {}]
  /\ pc = [w \in Workers |-> "purge"]
  /\ restarts = 0

-----------------------------------------------------------------------------
\* PurgeNext, no pass due: the step goes on to the work.
NotDue(w) ==
  /\ pc[w] = "purge" /\ cursor[w] = NoPass /\ w \in waits
  /\ pc' = [pc EXCEPT ![w] = "work"]
  /\ UNCHANGED <<touch, due, waits, cursor, locked, restarts>>

\* PurgeNext starts a pass once the two statements before it succeed.
StartPass(w) ==
  /\ pc[w] = "purge" /\ cursor[w] = NoPass /\ w \notin waits
  /\ cursor' = [cursor EXCEPT ![w] = 0]
  /\ UNCHANGED <<touch, due, waits, locked, pc, restarts>>

\* PurgeAnalytics fails: PurgeNext returns as it is, and so does the step.
AnalyticsFails(w) ==
  /\ "analytics" \in Fallible
  /\ pc[w] = "purge" /\ cursor[w] = NoPass /\ w \notin waits
  /\ pc' = [pc EXCEPT ![w] = "failed"]
  /\ UNCHANGED <<touch, due, waits, cursor, locked, restarts>>

\* PurgeCompanyTouches fails: the pass is over until the next interval, and
\* the step returns its error.
PutOff(w) == waits' = waits \cup {w}

CompanyFails(w) ==
  /\ "company" \in Fallible
  /\ pc[w] = "purge" /\ cursor[w] = NoPass /\ w \notin waits
  /\ PutOff(w)
  /\ pc' = [pc EXCEPT ![w] = "failed"]
  /\ UNCHANGED <<touch, due, cursor, locked, restarts>>

-----------------------------------------------------------------------------

\* The rows of PurgeReferralTouches: the first of those after the cursor that
\* nobody has locked.
PurgeReferralTouches(w) ==
  LET free == {t \in Touches : /\ touch[t] = "past" /\ t > cursor[w]
                               /\ \A v \in Workers : t \notin locked[v]}
  IN {t \in free : Cardinality({u \in free : u < t}) < Batch}

StartDelete(w) ==
  /\ pc[w] = "purge" /\ cursor[w] # NoPass
  /\ locked' = [locked EXCEPT ![w] = PurgeReferralTouches(w)]
  /\ pc' = [pc EXCEPT ![w] = "delete"]
  /\ UNCHANGED <<touch, due, waits, cursor, restarts>>

\* The cursor after a full batch; a short one ends the pass.
Continues(rows) == IF Cardinality(rows) < Batch THEN NoPass ELSE LastOf(rows)

\* PurgeNext after a delete that committed; the step goes on to the work.
Deleted(w) ==
  /\ pc[w] = "delete"
  /\ touch' = [t \in Touches |-> IF t \in locked[w] THEN "gone" ELSE touch[t]]
  /\ cursor' = [cursor EXCEPT ![w] = Continues(locked[w])]
  /\ waits' = IF cursor'[w] = NoPass THEN waits \cup {w} ELSE waits
  /\ locked' = [locked EXCEPT ![w] = {}]
  /\ pc' = [pc EXCEPT ![w] = "work"]
  /\ UNCHANGED <<due, restarts>>

\* One that failed: nothing is deleted, the pass is over, and the step returns
\* its error.
AfterFailure(w) == NoPass

DeleteFails(w) ==
  /\ "batch" \in Fallible
  /\ pc[w] = "delete"
  /\ cursor' = [cursor EXCEPT ![w] = AfterFailure(w)]
  /\ PutOff(w)
  /\ locked' = [locked EXCEPT ![w] = {}]
  /\ pc' = [pc EXCEPT ![w] = "failed"]
  /\ UNCHANGED <<touch, due, restarts>>

\* workers.Run backs off from a failed step and begins the next.
Retry(w) ==
  /\ pc[w] = "failed"
  /\ pc' = [pc EXCEPT ![w] = "purge"]
  /\ UNCHANGED <<touch, due, waits, cursor, locked, restarts>>

\* The rest of the step: projections, rankings, alerts, reminders, reports and
\* team months that are due. The next step begins with the purge again.
Work(w) ==
  /\ pc[w] = "work"
  /\ due' = FALSE
  /\ pc' = [pc EXCEPT ![w] = "purge"]
  /\ UNCHANGED <<touch, waits, cursor, locked, restarts>>

\* The process stops: a running delete rolls back, and r.next and r.cursor are
\* lost with the process.
Restart(w) ==
  /\ restarts < MaxRestarts /\ restarts' = restarts + 1
  /\ waits' = waits \ {w}
  /\ cursor' = [cursor EXCEPT ![w] = NoPass]
  /\ locked' = [locked EXCEPT ![w] = {}]
  /\ pc' = [pc EXCEPT ![w] = "purge"]
  /\ UNCHANGED <<touch, due>>

-----------------------------------------------------------------------------
\* Work falls due.
FallsDue ==
  /\ ~due /\ due' = TRUE
  /\ UNCHANGED <<touch, waits, cursor, locked, pc, restarts>>

\* The oldest touch within retention passes out of it.
Expires ==
  /\ \E t \in Touches :
       /\ touch[t] = "kept" /\ \A u \in Touches : u < t => touch[u] # "kept"
       /\ touch' = [touch EXCEPT ![t] = "past"]
  /\ UNCHANGED <<due, waits, cursor, locked, pc, restarts>>

\* A worker's interval ends, in a step that began within it.
IntervalEnds(w) ==
  /\ w \in waits /\ pc[w] = "work"
  /\ waits' = waits \ {w}
  /\ UNCHANGED <<touch, due, cursor, locked, pc, restarts>>

Step(w) ==
  \/ NotDue(w) \/ StartPass(w) \/ AnalyticsFails(w) \/ CompanyFails(w)
  \/ StartDelete(w) \/ Deleted(w) \/ DeleteFails(w) \/ Retry(w) \/ Work(w)

Next ==
  \/ \E w \in Workers : Step(w) \/ Restart(w) \/ IntervalEnds(w)
  \/ FallsDue \/ Expires

Spec == Init /\ [][Next]_vars

-----------------------------------------------------------------------------
\* Types, and what a pass holds: a worker has rows locked only while its delete
\* runs, a whole batch at the most, all of them past its cursor.
TypeOK ==
  /\ touch \in [Touches -> {"kept", "past", "gone"}]
  /\ due \in BOOLEAN
  /\ waits \subseteq Workers
  /\ cursor \in [Workers -> {NoPass} \cup (0..LastTouch)]
  /\ pc \in [Workers -> {"purge", "delete", "work", "failed"}]
  /\ restarts \in 0..MaxRestarts
  /\ \A w \in Workers :
       /\ locked[w] \subseteq {t \in Touches : touch[t] = "past" /\ t > cursor[w]}
       /\ Cardinality(locked[w]) <= Batch
       /\ locked[w] # {} => pc[w] = "delete"

\* Within one pass a worker never meets a touch twice, so a pass ends
\* (retention.go:24, "deletes one batch per call until a batch comes up
\* short"): its cursor only moves on.
PassMovesOn ==
  [][\A w \in Workers :
       pc[w] = "delete" /\ pc'[w] = "work" /\ cursor'[w] # NoPass => cursor'[w] > cursor[w]]_vars
=============================================================================
