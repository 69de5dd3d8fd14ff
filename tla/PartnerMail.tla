---------------------------- MODULE PartnerMail ----------------------------
(***************************************************************************)
(* Status mail to a partner organization (internal/store/                  *)
(* partner_messages.go): intents deduplicated by key, and workers that     *)
(* claim an intent and mail the organization's recipients in turn.         *)
(*                                                                         *)
(* A key is a kind and a number: the metric or initiative it is about, or  *)
(* the month of a report. A step of a worker reads the clock once and ends *)
(* with its budget. Organizations that are not partners are sent nothing,  *)
(* and none ceases to be one.                                              *)
(***************************************************************************)
EXTENDS Integers, FiniteSets, FiniteSetsExt, Sequences, SequencesExt

CONSTANTS
  Notices,                 \* keys of the events that are told
  MaxMonth,                \* bound: months
  People, Order,           \* users of the organization, ordered by email
  Workers,
  Horizon,                 \* bound: the clock
  Budget, Lease,           \* StepBudget, deliveryLease
  MaxAttempts

PartnerMailAssumption ==
  /\ {MaxMonth, Horizon, Budget} \subseteq Nat /\ {Lease, MaxAttempts} \subseteq Nat \ {0} /\ Budget < Lease
  /\ Order \in Seq(People) /\ \A p \in People : \E i \in 1 .. Len(Order) : Order[i] = p

VARIABLES
  clock, month,
  published,  \* the organization has a published initiative
  users,      \* accepted and not disabled
  msg,        \* donor_partner_messages
  sent,       \* who was ever mailed a message
  claims,     \* how often a message was claimed
  wrk

vars == <<clock, month, published, users, msg, sent, claims, wrk>>

Reports == {"MONTHLY_REPORT"} \X (1 .. MaxMonth)
Keys == Notices \cup Reports
NoMessage == [queued |-> FALSE, done |-> FALSE, reason |-> "none", attempts |-> 0, at |-> 0]
NoWork == [pc |-> "idle", k |-> <<"none", 0>>, now |-> 0, to |-> <<>>, all |-> {}]
Later(t) == Min({t, Horizon})  \* at the horizon everything is due
WithinBudget(w) == clock <= wrk[w].now + Budget

QueuePartnerMessage(k) == [msg EXCEPT ![k] = IF @.queued THEN @ ELSE [NoMessage EXCEPT !.queued = TRUE, !.at = clock]]
queuePartnerMessage(k) ==
  /\ ~msg[k].queued /\ msg' = QueuePartnerMessage(k)
  /\ UNCHANGED <<clock, month, published, users, sent, claims, wrk>>
PartnersDueMonthlyReport == published /\ ~msg[<<"MONTHLY_REPORT", month>>].queued
QueueDueMonthly ==
  /\ PartnersDueMonthlyReport /\ msg' = QueuePartnerMessage(<<"MONTHLY_REPORT", month>>)
  /\ UNCHANGED <<clock, month, published, users, sent, claims, wrk>>

Due(k) == msg[k].queued /\ ~msg[k].done /\ msg[k].attempts < MaxAttempts /\ msg[k].at <= clock
NextPartnerMessage(k) == Due(k) /\ \A i \in Keys : Due(i) => msg[k].at <= msg[i].at
PartnerMessageRecipients == SelectSeq(Order, LAMBDA p : p \in users)
ClaimPartnerMessage(m) == [m EXCEPT !.at = Min({clock + Lease, Horizon + 1})]
CompletePartnerMessage(m, reason) == [m EXCEPT !.done = TRUE, !.reason = reason]
messageRetryAt(now, attempts) == Later(now + Min({60, 2 ^ attempts}))
FailPartnerMessage(m, at) == [m EXCEPT !.attempts = Min({@ + 1, MaxAttempts}), !.at = at]

prepare(w, k) ==
  /\ wrk[w] = NoWork /\ NextPartnerMessage(k)
  /\ IF PartnerMessageRecipients = <<>>
     THEN msg' = [msg EXCEPT ![k] = CompletePartnerMessage(@, "no_recipients")] /\ UNCHANGED <<wrk, claims>>
     ELSE /\ msg' = [msg EXCEPT ![k] = ClaimPartnerMessage(@)]
          /\ wrk' = [wrk EXCEPT ![w] = [pc |-> "send", k |-> k, now |-> clock, to |-> PartnerMessageRecipients, all |-> users]]
          /\ claims' = [claims EXCEPT ![k] = Min({@ + 1, MaxAttempts + 1})]
  /\ UNCHANGED <<clock, month, published, users, sent>>
(* The first recipient who cannot be reached ends the attempt. *)
Sent(v, ok) == IF ok THEN [v EXCEPT !.to = Tail(@)] ELSE [v EXCEPT !.pc = "failed"]
Send(w, ok, arrives) ==
  /\ wrk[w].pc = "send" /\ wrk[w].to # <<>> /\ WithinBudget(w) /\ (ok => arrives)
  /\ wrk' = [wrk EXCEPT ![w] = Sent(@, ok)]
  /\ sent' = IF arrives THEN [sent EXCEPT ![wrk[w].k] = @ \cup {Head(wrk[w].to)}] ELSE sent
  /\ UNCHANGED <<clock, month, published, users, msg, claims>>
DeliverNext(w) ==
  /\ wrk[w].pc = "failed" \/ (wrk[w].pc = "send" /\ wrk[w].to = <<>>)
  /\ WithinBudget(w)
  /\ msg' = [msg EXCEPT ![wrk[w].k] = IF wrk[w].pc = "failed" THEN FailPartnerMessage(@, messageRetryAt(wrk[w].now, @.attempts + 1))
                                     ELSE CompletePartnerMessage(@, "none")]
  /\ wrk' = [wrk EXCEPT ![w] = NoWork]
  /\ UNCHANGED <<clock, month, published, users, sent, claims>>
(* The step's time runs out, or its process dies. *)
Abandon(w) ==
  /\ wrk[w] # NoWork /\ wrk' = [wrk EXCEPT ![w] = NoWork]
  /\ UNCHANGED <<clock, month, published, users, msg, sent, claims>>

Tick == clock < Horizon /\ clock' = clock + 1 /\ UNCHANGED <<month, published, users, msg, sent, claims, wrk>>
NextMonth == month < MaxMonth /\ month' = month + 1 /\ UNCHANGED <<clock, published, users, msg, sent, claims, wrk>>
Changes ==
  /\ \/ published' = TRUE /\ ~published /\ UNCHANGED users
     \/ \E p \in People : users' = (IF p \in users THEN users \ {p} ELSE users \cup {p}) /\ UNCHANGED published
  /\ UNCHANGED <<clock, month, msg, sent, claims, wrk>>

Init ==
  /\ clock = 0 /\ month = Min({1, MaxMonth}) /\ published = FALSE /\ users = {} /\ msg = [k \in Keys |-> NoMessage]
  /\ sent = [k \in Keys |-> {}] /\ claims = [k \in Keys |-> 0] /\ wrk = [w \in Workers |-> NoWork]

Step(w) == DeliverNext(w) \/ (\E k \in Keys : prepare(w, k)) \/ \E ok, arrives \in BOOLEAN : Send(w, ok, arrives)
Queueing == QueueDueMonthly \/ NextMonth \/ \E k \in Notices : queuePartnerMessage(k)
Next == Queueing \/ Changes \/ Tick \/ \E w \in Workers : Step(w) \/ Abandon(w)
Spec == Init /\ [][Next]_vars

(***************************************************************************)
(* Properties.                                                             *)
(***************************************************************************)

(* The records have their types; a report is queued only for a partner     *)
(* with a published initiative, and a message that was never claimed       *)
(* reached nobody (QueueDueMonthly, prepare).                              *)
TypeOK ==
  /\ \A k \in Keys : msg[k].attempts \in 0 .. MaxAttempts /\ sent[k] \subseteq People
  /\ \A k \in Reports : msg[k].queued => published
  /\ \A k \in Keys : msg[k].attempts <= claims[k] /\ (claims[k] = 0 => sent[k] = {})

(* A message that is completed was mailed to everybody it was claimed for  *)
(* (DeliverNext).                                                          *)
ReachedAll ==
  \A w \in Workers : wrk[w].pc # "idle" /\ wrk'[w] = NoWork /\ ~msg[wrk[w].k].done /\ msg'[wrk[w].k].done =>
    wrk[w].all \subseteq sent[wrk[w].k]

(* A message is in the hands of one worker: a claim outlasts every step    *)
(* that began with it (ClaimPartnerMessage, StepBudget).                   *)
OneWorkerPerMessage == \A v, w \in Workers : wrk[v] # NoWork /\ wrk[w] # NoWork /\ WithinBudget(v) /\ WithinBudget(w) /\ wrk[v].k = wrk[w].k => v = w

(* A message is tried at most MaxAttempts times (PartnerMessageWorker).    *)
RetriesBounded == \A k \in Keys : claims[k] <= MaxAttempts
=============================================================================
