------------------------------ MODULE Messages ------------------------------
(***************************************************************************)
(* The queue of one donor's financial, referral and event messages: the    *)
(* facts that queue them, the workers that render and send them, and the   *)
(* copies staff ask for (internal/store/messages.go, outbox.go,            *)
(* admin_messages.go, db/email.sql, db/outbox.sql).                        *)
(*                                                                         *)
(* A worker step is three transactions with an SMTP call between the last  *)
(* two: prepare, claim, and the record of the outcome. Each is an action;  *)
(* workers, staff and the donor's facts interleave between them, and a     *)
(* worker may die in between. One step reads the clock once and ends with  *)
(* its budget. The transport may accept a message and lose the answer.     *)
(* Minutes and days share one small scale that keeps their order.          *)
(***************************************************************************)
EXTENDS Integers, FiniteSets, FiniteSetsExt

CONSTANTS
  Workers,
  Keys,         \* dedup keys of the messages that facts may queue
  Requests,     \* request ids of staff resends: their messages' keys
  Changes,      \* which of the donor's facts may change
  MaxAttempts,  \* maxDeliveryAttempts
  Budget,       \* StepBudget
  Lease,        \* deliveryLease
  RetryCap,     \* the longest delay of messageRetryAt
  ResendGap,    \* staff may queue one message of a kind in this time
  Reminder,     \* when the second recovery reminder is due
  Grace,        \* recognition.Grace
  Horizon,      \* times after it are not told apart
  MaxTime, MaxCrashes  \* bounds: the clock, and workers that die

MessagesAssumption ==
  /\ {MaxAttempts, Budget, Lease, RetryCap, ResendGap, Reminder, Grace} \subseteq Nat
  /\ {Horizon, MaxTime, MaxCrashes} \subseteq Nat
  /\ MaxAttempts > 0 /\ Budget < Lease /\ Reminder < Grace

VARIABLES
  clock,
  facts,   \* the donor's rows that messages are about
  job,     \* donor_messages, by dedup key
  wrk,     \* each worker's step
  crashes,
  bodies,  \* the bodies handed to the transport, by dedup key
  valid    \* when the message was last true, by dedup key

vars == <<clock, facts, job, wrk, crashes, bodies, valid>>

(***************************************************************************)
(* Rows.                                                                   *)
(***************************************************************************)
Jobs == Keys \cup Requests
NoBody == -1
Never == -1 - Budget
NoJob == [queued |-> FALSE, at |-> 0, created |-> 0, attempts |-> 0, done |-> FALSE,
          reason |-> "", body |-> NoBody, source |-> ""]
Idle == [pc |-> "idle", job |-> "", now |-> 0]

Kind(k) == CASE k \in {"recovery0", "recovery5"} -> "RECOVERY"
             [] k \in Requests \cup {"receipt"} -> "RECEIPT"
             [] OTHER -> k
Day(k) == IF k = "recovery5" THEN Reminder ELSE 0

At(t) == Min({t, Horizon})

InsertFinancialMessage(rows, k, at) ==
  IF rows[k].queued THEN rows
  ELSE [rows EXCEPT ![k] = [NoJob EXCEPT !.queued = TRUE, !.at = At(at), !.created = clock]]
CompleteMessage(row, reason) == [row EXCEPT !.done = TRUE, !.reason = reason]
RenderMessage(row, body) == [row EXCEPT !.body = body]
IncrementMessageAttempt(row) == [row EXCEPT !.attempts = @ + 1]
FailMessage(row, at) == IF row.done THEN row ELSE [row EXCEPT !.at = At(at)]
ClaimUncounted(row, at) == [row EXCEPT !.at = At(at)]  \* mutant
ClaimMessage(row, at) == [row EXCEPT !.attempts = @ + 1, !.at = At(at)]

messageRetryAt(now, attempts) == now + Min({RetryCap, 2 ^ attempts})
failMessage(row, now) ==
  FailMessage(IncrementMessageAttempt(row), messageRetryAt(now, row.attempts + 1))

(***************************************************************************)
(* What the facts still say of a message: "" sends it, "ErrFacts" is a     *)
(* data error, anything else the reason that suppresses it.                *)
(***************************************************************************)
Elapsed(now) == now - facts.due
terminalOrStopped == facts.stopped
failureResolved(now) ==
  CASE facts.period # "FAILED" -> "payment_recovered"
    [] facts.period = "FAILED" /\ terminalOrStopped -> "subscription_cancelled"
    [] facts.period = "FAILED" /\ ~terminalOrStopped /\ Elapsed(now) >= Grace -> "grace_ended"
    [] facts.period = "FAILED" /\ ~terminalOrStopped /\ Elapsed(now) < 0 -> "ErrFacts"
    [] OTHER -> ""
recoverySuppression(k, now) ==
  IF failureResolved(now) # "" THEN failureResolved(now)
  ELSE IF Day(k) = 0 /\ Elapsed(now) >= Reminder THEN "newer_reminder_due" ELSE ""
lapsedSuppression(now) ==
  CASE failureResolved(now) \in {"payment_recovered", "subscription_cancelled", "ErrFacts"} ->
         failureResolved(now)
    [] failureResolved(now) = "" -> "grace_not_ended"
    [] OTHER -> ""
referralLapsed == IF facts.counts THEN "" ELSE "referral_no_longer_qualifies"
referralSuppression == IF facts.optedOut THEN "opted_out" ELSE referralLapsed
reservationLapsed == IF facts.seat THEN "" ELSE "reservation_lapsed"

Reason(k, now) ==
  CASE facts.disabled -> "donor_disabled"
    [] ~facts.disabled /\ Kind(k) = "REFERRAL" -> referralSuppression
    [] ~facts.disabled /\ Kind(k) = "RECOVERY" -> recoverySuppression(k, now)
    [] ~facts.disabled /\ Kind(k) = "LAPSED" -> lapsedSuppression(now)
    [] ~facts.disabled /\ Kind(k) = "EVENT_PROMOTED" -> reservationLapsed
    [] OTHER -> ""
CheckedOnce(k, now) == IF job[k].body # NoBody THEN "" ELSE Reason(k, now)  \* mutant
messageSuppression(k, now) == Reason(k, now)

renderMessage(k) == facts.refunds

(***************************************************************************)
(* The donor's facts, written by other components under the donor's lock.  *)
(* A change refreshes the donor's projection, which queues what it calls   *)
(* for in the same transaction.                                            *)
(***************************************************************************)
Candidates(f, now) ==
  [k \in Keys |->
     CASE k = "receipt" -> [due |-> f.gift, at |-> now]
       [] k = "REFERRAL" -> [due |-> f.counts, at |-> now]
       [] k \in {"recovery0", "recovery5"} -> [due |-> f.period = "FAILED", at |-> f.due + Day(k)]
       [] k = "LAPSED" -> [due |-> f.period = "FAILED", at |-> f.due + Grace]
       [] OTHER -> [due |-> FALSE, at |-> now]]
QueueFinancialIntents(rows, f, now) ==
  [k \in Jobs |-> IF k \in Keys /\ Candidates(f, now)[k].due
                  THEN InsertFinancialMessage(rows, k, Candidates(f, now)[k].at)[k]
                  ELSE rows[k]]

Stamp == valid' = [k \in Jobs |-> IF Reason(k, clock)' = "" THEN clock' ELSE valid[k]]

Change(name, f, rows) ==
  /\ name \in Changes
  /\ facts' = f /\ job' = rows
  /\ UNCHANGED <<clock, wrk, crashes, bodies>>
  /\ Stamp
Financial(name, f) == Change(name, f, QueueFinancialIntents(job, f, clock))

RecordGift == /\ ~facts.gift /\ ~facts.disabled
              /\ Financial("gift", [facts EXCEPT !.gift = TRUE, !.counts = TRUE])
RecordRefund == /\ facts.gift /\ facts.refunds = 0
                /\ Financial("refund", [facts EXCEPT !.refunds = 1, !.counts = FALSE])
RecordFailure == /\ facts.period = "NONE" /\ ~facts.disabled
                 /\ \E late \in 0..1 :
                      Financial("failure", [facts EXCEPT !.period = "FAILED", !.due = clock + late])
Recover == facts.period = "FAILED" /\ Financial("recover", [facts EXCEPT !.period = "PAID"])
StopGift == ~facts.stopped /\ Financial("stop", [facts EXCEPT !.stopped = TRUE])
Promote == /\ "EVENT_PROMOTED" \in Keys /\ ~facts.seat /\ ~job["EVENT_PROMOTED"].queued
           /\ Change("seat", [facts EXCEPT !.seat = TRUE],
                     InsertFinancialMessage(job, "EVENT_PROMOTED", clock))
GiveUpSeat == facts.seat /\ Change("seat", [facts EXCEPT !.seat = FALSE], job)
SavePreferences == Change("optOut", [facts EXCEPT !.optedOut = ~@], job)
DeleteAccount == /\ ~facts.disabled
                 /\ Change("delete", [facts EXCEPT !.disabled = TRUE, !.seat = FALSE], job)

(***************************************************************************)
(* The worker.                                                             *)
(***************************************************************************)
DueAt(row, now) == row.queued /\ ~row.done /\ row.attempts < MaxAttempts /\ row.at <= now
NextMessage(k) == /\ DueAt(job[k], clock)
                  /\ \A o \in Jobs : DueAt(job[o], clock) => job[k].at <= job[o].at

WithinBudget(w) == clock <= wrk[w].now + Budget
Quiet == UNCHANGED <<clock, facts, crashes, valid>>

Dropped(row, why, now) == IF why = "ErrFacts" THEN failMessage(row, now)
                          ELSE CompleteMessage(row, why)

RenderOnce(row, body) == IF row.body = NoBody THEN RenderMessage(row, body) ELSE row

prepare(w) ==
  /\ wrk[w].pc = "idle"
  /\ \E k \in Jobs :
       LET why == messageSuppression(k, clock) IN
       /\ NextMessage(k)
       /\ IF why = "" THEN /\ job' = [job EXCEPT ![k] = RenderOnce(@, renderMessage(k))]
                           /\ wrk' = [wrk EXCEPT ![w] = [pc |-> "claim", job |-> k, now |-> clock]]
          ELSE /\ job' = [job EXCEPT ![k] = Dropped(@, why, clock)]
               /\ UNCHANGED wrk
  /\ Quiet /\ UNCHANGED bodies

claim(w) ==
  /\ wrk[w].pc = "claim" /\ WithinBudget(w)
  /\ LET k == wrk[w].job
         now == wrk[w].now
         why == messageSuppression(k, now) IN
     IF ~DueAt(job[k], now) \/ why # ""
     THEN /\ job' = IF DueAt(job[k], now) THEN [job EXCEPT ![k] = Dropped(@, why, now)] ELSE job
          /\ wrk' = [wrk EXCEPT ![w] = Idle]
     ELSE /\ job' = [job EXCEPT ![k] = ClaimMessage(@, now + Lease)]
          /\ wrk' = [wrk EXCEPT ![w].pc = "send"]
  /\ Quiet /\ UNCHANGED bodies

(* Transport.Send: accepted, refused, or accepted with the answer lost. *)
Send(w) ==
  /\ wrk[w].pc = "send" /\ WithinBudget(w)
  /\ \E result \in {"sent", "failed"}, accepted \in BOOLEAN :
       /\ result = "sent" => accepted
       /\ wrk' = [wrk EXCEPT ![w].pc = result]
       /\ bodies' = IF accepted THEN [bodies EXCEPT ![wrk[w].job] = @ \cup {job[wrk[w].job].body}]
                    ELSE bodies
  /\ Quiet /\ UNCHANGED job

DeliverNext(w) ==
  /\ wrk[w].pc \in {"sent", "failed"} /\ WithinBudget(w)
  /\ job' = [job EXCEPT ![wrk[w].job] =
               IF wrk[w].pc = "sent" THEN CompleteMessage(@, "")
               ELSE FailMessage(@, messageRetryAt(wrk[w].now, @.attempts))]
  /\ wrk' = [wrk EXCEPT ![w] = Idle]
  /\ Quiet /\ UNCHANGED bodies

(* workers.Run ends a step with its budget: what it had not written is lost. *)
StepExpires(w) == /\ wrk[w].pc # "idle" /\ ~WithinBudget(w)
                  /\ wrk' = [wrk EXCEPT ![w] = Idle]
                  /\ UNCHANGED <<clock, facts, job, crashes, bodies, valid>>
Crash(w) == /\ wrk[w].pc # "idle" /\ crashes < MaxCrashes
            /\ wrk' = [wrk EXCEPT ![w] = Idle] /\ crashes' = crashes + 1
            /\ UNCHANGED <<clock, facts, job, bodies, valid>>

(***************************************************************************)
(* Staff.                                                                  *)
(***************************************************************************)
RecentDonorMessage(kind) ==
  \E k \in Jobs : job[k].queued /\ Kind(k) = kind /\ job[k].created > clock - ResendGap
Resendable(row) == row.reason = "" /\ (row.done \/ row.attempts >= MaxAttempts)

ResendMessage(request, source) ==
  /\ job[source].queued /\ Kind(source) = "RECEIPT"
  /\ ~job[request].queued /\ Resendable(job[source]) /\ ~RecentDonorMessage("RECEIPT")
  /\ job' = [InsertFinancialMessage(job, request, clock) EXCEPT ![request].source = source]
  /\ UNCHANGED <<clock, facts, wrk, crashes, bodies, valid>>

(***************************************************************************)
(* Specification.                                                          *)
(***************************************************************************)
Tick == clock < MaxTime /\ clock' = clock + 1 /\ UNCHANGED <<facts, job, wrk, crashes, bodies>> /\ Stamp

Init ==
  /\ clock = 0
  /\ facts = [disabled |-> FALSE, optedOut |-> FALSE, counts |-> FALSE, gift |-> FALSE, refunds |-> 0,
              period |-> "NONE", due |-> 0, stopped |-> FALSE, seat |-> FALSE]
  /\ job = [k \in Jobs |-> NoJob]
  /\ wrk = [w \in Workers |-> Idle]
  /\ crashes = 0
  /\ bodies = [k \in Jobs |-> {}]
  /\ valid = [k \in Jobs |-> Never]

Step(w) == prepare(w) \/ claim(w) \/ Send(w) \/ DeliverNext(w) \/ StepExpires(w)

Next ==
  \/ RecordGift \/ RecordRefund \/ RecordFailure \/ Recover \/ StopGift
  \/ Promote \/ GiveUpSeat \/ SavePreferences \/ DeleteAccount
  \/ \E w \in Workers : Step(w) \/ Crash(w)
  \/ \E r \in Requests, s \in Jobs : ResendMessage(r, s)
  \/ Tick

Spec == Init /\ [][Next]_vars

(***************************************************************************)
(* Properties.                                                             *)
(***************************************************************************)
Sending(k) == {w \in Workers : wrk[w].pc = "send" /\ wrk[w].job = k /\ WithinBudget(w)}

(* A row was attempted no more often than the queue allows, a completed row *)
(* was queued, and a worker past prepare holds a rendered message.          *)
TypeOK ==
  /\ clock \in 0..MaxTime /\ crashes \in 0..MaxCrashes
  /\ \A k \in Jobs : /\ job[k].attempts \in 0..MaxAttempts
                     /\ job[k].done \/ job[k].attempts > 0 => job[k].queued
                     /\ job[k].reason # "" => job[k].done
  /\ \A w \in Workers : /\ wrk[w].pc \in {"idle", "claim", "send", "sent", "failed"}
                        /\ wrk[w].pc # "idle" => job[wrk[w].job].body # NoBody

(* The lease outlasts a step: no two workers send one message at a time,    *)
(* although each prepares it without holding it (messages.go deliveryLease).*)
OneSender == \A k \in Jobs : Cardinality(Sending(k)) <= 1

(* A message sent again after a crash or a lost answer is the same message: *)
(* its body was rendered once, whatever the facts became (DeliverNext: "a   *)
(* crash before completion resends with the same Message-ID").              *)
SameMessage == \A k \in Jobs : Cardinality(bodies[k]) <= 1

(* A message is handed over only if its facts held within the last step's   *)
(* budget: consent, a failed payment, a seat, the account itself            *)
(* (messageSuppression).                                                    *)
TrueNow ==
  \A k \in Jobs : bodies'[k] # bodies[k] => clock - valid[k] <= Budget

(* A message once completed stays so with the outcome recorded first: a late*)
(* failure or a second worker never reopens it.                             *)
CompletedIsFinal ==
  [][\A k \in Jobs : job[k].done => job'[k].done /\ job'[k].reason = job[k].reason]_vars

(* A copy staff queued is of a message that was delivered or whose attempts *)
(* are used up, never of one that was withheld or is yet to be tried again  *)
(* (ResendMessage).                                                         *)
CopiesAreSecond ==
  \A r \in Requests : job[r].queued =>
    LET s == job[r].source IN (job[s].done \/ job[s].attempts >= MaxAttempts) /\ job[s].reason = ""

(* ResendMessage "queues a copy of a delivered or parked receipt": a message *)
(* whose last attempt is under way is neither.                              *)
CopiesOfSettled ==
  [][\A r \in Requests : ~job[r].queued /\ job'[r].queued => Sending(job'[r].source) = {}]_vars

(* Every queued message is in the end sent, withheld for a reason, or       *)
(* parked for an operator (workers.Run, maxDeliveryAttempts).               *)
Unsettled == {k \in Jobs : job[k].queued /\ ~job[k].done /\ job[k].attempts < MaxAttempts}
=============================================================================
