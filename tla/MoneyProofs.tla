---------------------------- MODULE MoneyProofs ----------------------------
(***************************************************************************)
(* The ledger of gifts is what the processor took, and what a deleted      *)
(* account gets back is what was taken after the deletion: theorems about  *)
(* Gifts for any number of periods, changes, copies of events, workers and *)
(* attempts. At the end, what is proved of refunds and of card updates on  *)
(* their own (RefundsProofs, PaymentMethodsProofs) is proved of the whole. *)
(***************************************************************************)
EXTENDS Money, TLAPS

(***************************************************************************)
(* The inductive invariant.                                                *)
(***************************************************************************)

Change == [effective : 2 .. MaxPeriod + 1, confirmed : BOOLEAN]
NoTask == [kind |-> "none", target |-> 0]
Hold   == [job : Jobs \cup {NoTask}, attempt : 0 .. ReversalAttempts,
           result : {"none", "ok", "failed"}]

\* The state has its shape; in particular no worker was refused.
Shape == TypeOK /\ changes \in Seq(Change) /\ hold \in [Workers -> Hold]

\* Periods are billed in turn, beginning with the subscription.
PeriodsBegun ==
  /\ stripe.status = "none" <=> stripe.period = 0
  /\ stripe.status = "none" => changes = <<>> /\ stripe.price = 0
  /\ \A p \in Periods : invoice[p].status # "none" => p =< stripe.period

\* Before the checkout was paid there is nothing to report and nothing to reverse.
NothingBefore ==
  stripe.status = "none" => /\ \A e \in Events : events[e].status = "none"
                            /\ \A j \in Jobs : job[j].status = "none"

\* An event reports what has happened to its invoice.
Reported ==
  /\ \A p \in Periods : invoice[p].status = "paid" => invoice[p].paid =< now
  /\ \A e \in Events : events[e].status # "none" /\ e.kind # "sub"
       => invoice[e.of].status # "none" /\ (e.kind = "paid" => invoice[e.of].status = "paid")

PaidLate(p) == gift[p].amount # -1 /\ gift[p].paid > donor.deleted
Refund(p) == [kind |-> "REFUND", target |-> p]

\* Only what was taken after the deletion is to be refunded.
OnlyLate ==
  /\ \A j \in Jobs : job[j].status = "none" => job[j] = NoJob
  /\ \A p \in Periods : /\ job[Refund(p)].status # "none" => PaidLate(p)
                        /\ refunded[p] \in {0, 1}

Made(j) == IF j.kind = "REFUND" THEN refunded[j.target] # 0 ELSE Terminal(stripe.status)

\* What a worker holds was queued, and what it was told is so.
WorkersKnow ==
  \A w \in Workers :
    /\ hold[w].result # "none" => Busy(w)
    /\ Busy(w) => hold[w].job \in Jobs /\ job[hold[w].job].status # "none"
    /\ hold[w].result = "ok" => Made(hold[w].job)

\* The changes that ran at the processor and are in force in period p.
InForce(p) == {0} \cup {n \in 1 .. stripe.price : changes[n].effective =< p}

\* Changes are made one after the other, the last one may not have run or not be
\* confirmed, and a period is billed the change in force in it.
Billed ==
  /\ \A n \in 1 .. Len(changes) : /\ n < Len(changes) => changes[n].confirmed
                                  /\ changes[n].effective =< stripe.period + 1
                                  /\ changes[n].confirmed => n =< stripe.price
  /\ stripe.price = Len(changes) \/ stripe.price = Len(changes) - 1
  /\ \A p \in Periods : invoice[p].status # "none" => invoice[p].amount = Max(InForce(p))

LedgerInv == GiftsMatchCharges /\ HistoryComplete

GiftsInv ==
  /\ Shape /\ PeriodsBegun /\ Reported /\ Billed
  /\ LedgerInv /\ OnlyLate /\ LateGiftsReversed /\ WorkersKnow /\ CompletedWasMade

(***************************************************************************)
(* Types.                                                                  *)
(***************************************************************************)

Invoice == [status : {"none", "open", "paid"}, amount : Amounts, paid : 1 .. Never]
Report  == [status : {"none", "sent", "done"}, attempts : 0 .. EventAttempts]
Stripe  == [status : {"none", "active", "past_due", "canceled"}, stops : BOOLEAN,
            period : 0 .. MaxPeriod, price : Amounts]
Task    == [status : {"none", "queued", "done"}, attempts : 0 .. ReversalAttempts, due : BOOLEAN]
Gift    == [amount : {-1} \cup Amounts, paid : 1 .. Never, referred : BOOLEAN]

LEMMA Bounds ==
  ASSUME GiftsAssumption
  PROVE  /\ MaxPeriod \in Nat /\ MaxChanges \in Nat /\ EventAttempts \in Nat
         /\ ReversalAttempts \in Nat /\ MaxFaults \in Nat /\ ReferralEnds \in Nat
         /\ Horizon \in Nat /\ MaxPeriod > 0 /\ EventAttempts > 0 /\ ReversalAttempts > 0
         /\ Horizon > 0 /\ Never = Horizon + 1 /\ Never \in Nat
BY DEF GiftsAssumption, Never

\* The initial state has its shape.
LEMMA InitShape == ASSUME GiftsAssumption, Init PROVE Shape
<1> USE Bounds
<1>0. /\ now \in 1 .. Horizon /\ faults \in 0 .. MaxFaults
      /\ row \in {"none", "active", "stopping", "ended"}
  BY DEF Init
<1>b. bound \in BOOLEAN
  BY Zenon DEF Init
<1>1. /\ stripe \in Stripe
      /\ donor \in [claimed : BOOLEAN, deleted : 0 .. Never, mails : 0 .. 2]
  BY DEF Init, Stripe, Amounts
<1>r. /\ refunded \in [Periods -> Nat]
      /\ period \in [Periods -> {"none", "FAILED", "PAID"}]
      /\ observed \in [Events -> {"none", "FAILED", "PAID"}]
  BY DEF Init
<1>2. NoInvoice \in Invoice /\ NoGift \in Gift /\ NoJob \in Task
      /\ [status |-> "none", attempts |-> 0] \in Report
  BY DEF NoInvoice, Invoice, NoGift, Gift, NoJob, Task, Report, Amounts
<1>3. /\ invoice \in [Periods -> Invoice] /\ gift \in [Periods -> Gift]
      /\ job \in [Jobs -> Task] /\ events \in [Events -> Report]
  BY <1>2 DEF Init
<1>4. changes \in Seq(Change) /\ Len(changes) = 0 /\ DOMAIN changes = {}
  BY DEF Init
<1>5. Idle \in Hold /\ Idle.attempt = 0
  BY DEF Idle, Hold, NoTask
<1>6. hold \in [Workers -> Hold] /\ \A w \in Workers : ~Busy(w)
  BY <1>5 DEF Init, Busy
<1>7. /\ Len(changes) <= MaxChanges
      /\ \A n \in DOMAIN changes : changes[n] \in [effective : 2 .. MaxPeriod + 1,
           confirmed : BOOLEAN]
      /\ \A w \in Workers : Busy(w) => hold[w].attempt <= job[hold[w].job].attempts
  BY <1>4, <1>6
<1>8. TypeOK
  BY <1>0, <1>b, <1>1, <1>r, <1>3, <1>7, Zenon DEF TypeOK, Stripe, Invoice, Gift, Task, Report
<1> QED BY <1>4, <1>6, <1>8 DEF Shape

\* Sending events keeps their types, and changes only what was not sent.
LEMMA SentIs ==
  ASSUME events \in [Events -> Report], NEW E
  PROVE  /\ Sent(E) \in [Events -> Report]
         /\ \A e \in Events : /\ Sent(E)[e].attempts = events[e].attempts
                              /\ \/ Sent(E)[e].status = events[e].status
                                 \/ e \in E /\ Sent(E)[e].status = "sent"
                              /\ Sent(E)[e].status = "done" <=> events[e].status = "done"
<1>1. ASSUME NEW e \in Events
      PROVE  [events[e] EXCEPT !.status = "sent"] \in Report
  BY DEF Report
<1> QED BY <1>1 DEF Sent, Report

\* What each part of the shape says.
LEMMA Typed ==
  ASSUME Shape
  PROVE  /\ now \in 1 .. Horizon /\ faults \in 0 .. MaxFaults
         /\ stripe \in Stripe /\ invoice \in [Periods -> Invoice]
         /\ refunded \in [Periods -> Nat] /\ events \in [Events -> Report]
         /\ donor \in [claimed : BOOLEAN, deleted : 0 .. Never, mails : 0 .. 2]
         /\ row \in {"none", "active", "stopping", "ended"}
         /\ changes \in Seq(Change) /\ Len(changes) =< MaxChanges
         /\ period \in [Periods -> {"none", "FAILED", "PAID"}]
         /\ observed \in [Events -> {"none", "FAILED", "PAID"}]
         /\ gift \in [Periods -> Gift] /\ job \in [Jobs -> Task] /\ hold \in [Workers -> Hold]
BY DEF Shape, TypeOK, Stripe, Invoice, Report, Gift, Task

\* The steps of the processor and of the donor, which leave the ledger alone.
LEMMA OutsideShape ==
  ASSUME GiftsAssumption, Shape, PeriodsBegun,
         UNCHANGED <<faults, refunded, row, period, observed, gift, job, hold>>,
         bound' = bound,
         now' \in 1 .. Horizon, stripe' \in Stripe, invoice' \in [Periods -> Invoice],
         events' \in [Events -> Report],
         donor' \in [claimed : BOOLEAN, deleted : 0 .. Never, mails : 0 .. 2],
         changes' \in Seq(Change), Len(changes') =< MaxChanges
  PROVE  Shape'
<1>1. \A n \in DOMAIN changes' : changes'[n] \in Change
  OBVIOUS
<1>2. bound' \in BOOLEAN
  BY Zenon DEF Shape, TypeOK
<1>3. \A w \in Workers : Busy(w)' => hold'[w].attempt <= job'[hold'[w].job].attempts
  BY DEF Shape, TypeOK, Busy
<1> QED BY <1>1, <1>2, <1>3 DEF Shape, TypeOK, Stripe, Invoice, Report, Change

(***************************************************************************)
(* Steps of the processor and of the donor.                                *)
(***************************************************************************)

Outside ==
  \/ Subscribe \/ Renew \/ insertAmountChange \/ ChangeMonthlyAmount
  \/ ClaimAccount \/ DeleteAccount \/ Tick
  \/ \E p \in Periods : CollectFails(p) \/ Collect(p)

\* What has happened at the processor stays so.
Lasting ==
  /\ \A p \in Periods : /\ invoice[p].status = "paid" => invoice'[p] = invoice[p]
                        /\ invoice[p].status # "none" => /\ invoice'[p].status # "none"
                                                         /\ invoice'[p].amount = invoice[p].amount
  /\ Terminal(stripe.status) => Terminal(stripe'.status)
  /\ now =< now'

Basic == Shape /\ PeriodsBegun /\ Reported

LEMMA OutsideBasic ==
  ASSUME GiftsAssumption, Basic, Outside
  PROVE  Basic' /\ Lasting /\ \A e \in Events : events'[e].status = "done" <=>
           events[e].status = "done"
<1> DEFINE Goal == Basic' /\ Lasting
                   /\ \A e \in Events : events'[e].status = "done" <=> events[e].status = "done"
<1> USE Bounds DEF Basic
<1>t. /\ now \in 1 .. Horizon /\ stripe \in Stripe /\ invoice \in [Periods -> Invoice]
      /\ events \in [Events -> Report] /\ changes \in Seq(Change) /\ Len(changes) =< MaxChanges
      /\ donor \in [claimed : BOOLEAN, deleted : 0 .. Never, mails : 0 .. 2]
      /\ now \in Int /\ stripe.period \in 0 .. MaxPeriod /\ stripe.price \in Amounts
  BY Typed DEF Stripe
<1>s. ASSUME NEW E, events' = Sent(E)
      PROVE  /\ events' \in [Events -> Report]
             /\ \A e \in Events : /\ events'[e].status = "done" <=> events[e].status = "done"
                                  /\ \/ events'[e].status = events[e].status
                                     \/ e \in E /\ events'[e].status = "sent"
  BY <1>s, <1>t, SentIs
<1>u. ASSUME UNCHANGED <<stripe, invoice, events, changes>>,
             UNCHANGED <<faults, refunded, hold, ledger>>,
             now' \in 1 .. Horizon, now =< now',
             donor' \in [claimed : BOOLEAN, deleted : 0 .. Never, mails : 0 .. 2]
      PROVE  Goal
  <2>1. Shape'
    BY <1>u, <1>t, OutsideShape DEF ledger
  <2>2. PeriodsBegun'
    BY <1>u DEF PeriodsBegun
  <2>3. \A p \in Periods : invoice[p].paid \in 1 .. Never
    BY <1>t DEF Invoice
  <2>4. Reported'
    BY <1>u, <1>t, <2>3 DEF Reported
  <2> QED BY <1>u, <2>1, <2>2, <2>4 DEF Lasting
<1>1. CASE Subscribe
  <2>1. /\ stripe.status = "none" /\ stripe' = [stripe EXCEPT !.status = "active", !.period = 1]
        /\ invoice' = [invoice EXCEPT ![1] = [status |-> "open", amount |-> 0, paid |-> Never]]
        /\ events' = Sent(SubEvent)
        /\ UNCHANGED <<now, faults, refunded, donor, ledger, changes, hold>>
    BY <1>1 DEF Subscribe
  <2>2. stripe' \in Stripe /\ stripe'.status = "active" /\ stripe'.period = 1 /\ stripe'.price = 0
        /\ changes = <<>> /\ stripe.period = 0
    <3>1. changes = <<>> /\ stripe.period = 0 /\ stripe.price = 0
      BY <2>1 DEF PeriodsBegun
    <3>4. 1 \in 0 .. MaxPeriod
      OBVIOUS
    <3>2. stripe' \in Stripe
      BY <2>1, <3>4, <1>t DEF Stripe
    <3>3. stripe'.status = "active" /\ stripe'.period = 1 /\ stripe'.price = stripe.price
      BY <2>1, <1>t DEF Stripe
    <3> QED BY <3>1, <3>2, <3>3
  <2>3. \A p \in Periods : invoice[p].status = "none"
    BY <2>2, <1>t DEF PeriodsBegun, Periods, Invoice
  <2>4. invoice' \in [Periods -> Invoice] /\ \A p \in Periods : invoice'[p].status # "none" => p = 1
    <3>1. [status |-> "open", amount |-> 0, paid |-> Never] \in Invoice
      BY DEF Invoice, Amounts
    <3> QED BY <2>1, <2>3, <3>1, <1>t
  <2>5. Shape'
    BY <2>1, <2>2, <2>4, <1>t, <1>s, OutsideShape DEF ledger
  <2>6. PeriodsBegun'
    BY <2>1, <2>2, <2>4 DEF PeriodsBegun
  <2>7. \A e \in SubEvent : e.kind = "sub"
    BY DEF SubEvent
  <2>8. \A e \in Events : events'[e].status # "none" /\ e.kind # "sub" => FALSE
    <3> SUFFICES ASSUME NEW e \in Events, events'[e].status # "none", e.kind # "sub" PROVE FALSE
      OBVIOUS
    <3>1. events[e].status # "none"
      BY <2>1, <2>7, <1>s
    <3>2. e.of \in Periods
      BY DEF Events
    <3> QED BY <3>1, <3>2, <2>3 DEF Reported
  <2>9. Reported'
    BY <2>1, <2>3, <2>8, <1>t DEF Reported
  <2> QED BY <2>1, <2>2, <2>3, <2>5, <2>6, <2>9, <1>s, <1>t DEF Lasting, Terminal
<1>2. CASE Renew /\ stripe.stops
  <2>1. /\ stripe.status \in {"active", "past_due"}
             /\ stripe' = [stripe EXCEPT !.status = "canceled"]
        /\ events' = Sent(EndEvent)
        /\ UNCHANGED <<now, faults, refunded, donor, ledger, changes, hold, invoice>>
    BY <1>2 DEF Renew
  <2>2. stripe' \in Stripe /\ stripe'.status = "canceled" /\ stripe'.period = stripe.period
    BY <2>1, <1>t DEF Stripe
  <2>3. Shape'
    BY <2>1, <2>2, <1>t, <1>s, OutsideShape DEF ledger
  <2>4. PeriodsBegun'
    BY <2>1, <2>2 DEF PeriodsBegun
  <2>5. Reported'
    <3>1. \A e \in EndEvent : e.kind = "sub"
      BY DEF EndEvent
    <3> QED BY <2>1, <3>1, <1>s DEF Reported
  <2> QED BY <2>1, <2>2, <2>3, <2>4, <2>5, <1>s, <1>t DEF Lasting, Terminal
<1>3. CASE Renew /\ ~stripe.stops
  <2> DEFINE q == stripe.period + 1
  <2>1. /\ stripe.status \in {"active", "past_due"} /\ stripe.period < MaxPeriod
        /\ stripe' = [stripe EXCEPT !.period = @ + 1] /\ events' = Sent(SubEvent)
        /\ invoice' = [invoice EXCEPT ![q] = [status |-> "open", amount |-> stripe.price,
             paid |-> Never]]
        /\ UNCHANGED <<now, faults, refunded, donor, ledger, changes, hold>>
    BY <1>3 DEF Renew
  <2>2. stripe' \in Stripe /\ stripe'.status = stripe.status /\ stripe'.period = q /\ q \in Periods
    <3>1. q \in Periods /\ stripe.period + 1 \in 0 .. MaxPeriod
      BY <2>1, <1>t DEF Periods
    <3>2. stripe' \in Stripe
      BY <2>1, <3>1, <1>t DEF Stripe
    <3>3. stripe'.status = stripe.status /\ stripe'.period = stripe.period + 1
      BY <2>1, <1>t DEF Stripe
    <3> QED BY <3>1, <3>2, <3>3
  <2>3. invoice[q].status = "none"
    BY <2>2, <1>t DEF PeriodsBegun
  <2>4. /\ invoice' \in [Periods -> Invoice] /\ invoice'[q].status = "open"
        /\ \A p \in Periods \ {q} : invoice'[p] = invoice[p]
    <3>1. [status |-> "open", amount |-> stripe.price, paid |-> Never] \in Invoice
      BY <1>t DEF Invoice
    <3> QED BY <2>1, <2>2, <3>1, <1>t
  <2>5. Shape'
    BY <2>1, <2>2, <2>4, <1>t, <1>s, OutsideShape DEF ledger
  <2>6. PeriodsBegun'
    <3>1. \A p \in Periods : p =< stripe.period => p =< q
      BY <1>t DEF Periods
    <3>2. q # 0
      BY <1>t
    <3>3. stripe'.status # "none" /\ stripe'.period # 0
      BY <2>1, <2>2, <3>2
    <3>4. \A p \in Periods : invoice'[p].status # "none" => p =< stripe'.period
      <4> SUFFICES ASSUME NEW p \in Periods, invoice'[p].status # "none" PROVE p =< q
        BY <2>2
      <4>1. CASE p = q
        BY <4>1, <1>t
      <4>2. CASE p # q
        BY <4>2, <2>4, <3>1 DEF PeriodsBegun
      <4> QED BY <4>1, <4>2
    <3> QED BY <3>3, <3>4 DEF PeriodsBegun
  <2>7. Reported'
    <3>1. \A e \in SubEvent : e.kind = "sub"
      BY DEF SubEvent
    <3>2. \A e \in Events : e.kind # "sub" => e.of \in Periods
      BY DEF Events
    <3> HIDE DEF q
    <3> QED BY <2>1, <2>3, <2>4, <3>1, <3>2, <1>s DEF Reported
  <2> QED BY <2>1, <2>2, <2>3, <2>4, <2>5, <2>6, <2>7, <1>s, <1>t DEF Lasting, Terminal
<1>4. CASE insertAmountChange
  <2> DEFINE c == [effective |-> stripe.period + 1, confirmed |-> FALSE]
  <2>1. /\ Len(changes) < MaxChanges /\ stripe.status = "active" /\ changes' = Append(changes, c)
        /\ UNCHANGED <<now, faults, stripe, invoice, refunded, events, donor, ledger, hold>>
    BY <1>4 DEF insertAmountChange
  <2>2. c \in Change
    <3>1. stripe.period # 0
      BY <2>1 DEF PeriodsBegun
    <3>2. stripe.period \in 0 .. MaxPeriod
      BY <1>t
    <3>3. \A x \in 0 .. MaxPeriod : x # 0 => x + 1 \in 2 .. MaxPeriod + 1
      OBVIOUS
    <3>4. stripe.period + 1 \in 2 .. MaxPeriod + 1
      BY <3>1, <3>2, <3>3
    <3> QED BY <3>4 DEF Change
  <2>3. changes' \in Seq(Change) /\ Len(changes') =< MaxChanges
    <3> HIDE DEF c
    <3> QED BY <2>1, <2>2, <1>t
  <2> HIDE DEF c
  <2>4. Shape'
    BY <2>1, <2>3, <1>t, OutsideShape DEF ledger
  <2>5. PeriodsBegun' /\ Reported'
    BY <2>1 DEF PeriodsBegun, Reported
  <2> QED BY <2>1, <2>4, <2>5, <1>t DEF Lasting
<1>5. CASE ChangeMonthlyAmount
  <2>1. /\ stripe.status = "active" /\ stripe' = [stripe EXCEPT !.price = Len(changes)]
        /\ events' = Sent(SubEvent)
        /\ UNCHANGED <<now, faults, invoice, refunded, donor, ledger, changes, hold>>
    BY <1>5 DEF ChangeMonthlyAmount
  <2>2. stripe' \in Stripe /\ stripe'.status = stripe.status /\ stripe'.period = stripe.period
    <3>1. Len(changes) \in Amounts
      BY <1>t DEF Amounts
    <3> QED BY <2>1, <3>1, <1>t DEF Stripe
  <2>3. Shape'
    BY <2>1, <2>2, <1>t, <1>s, OutsideShape DEF ledger
  <2>4. PeriodsBegun'
    BY <2>1, <2>2 DEF PeriodsBegun
  <2>5. Reported'
    <3>1. \A e \in SubEvent : e.kind = "sub"
      BY DEF SubEvent
    <3> QED BY <2>1, <3>1, <1>s DEF Reported
  <2> QED BY <2>1, <2>2, <2>3, <2>4, <2>5, <1>s, <1>t DEF Lasting, Terminal
<1>6. CASE ClaimAccount
  <2>1. donor' \in [claimed : BOOLEAN, deleted : 0 .. Never, mails : 0 .. 2]
    BY <1>6, <1>t DEF ClaimAccount
  <2> QED BY <1>6, <2>1, <1>t, <1>u DEF ClaimAccount
<1>7. CASE DeleteAccount
  <2>1. donor' \in [claimed : BOOLEAN, deleted : 0 .. Never, mails : 0 .. 2]
    BY <1>7, <1>t DEF DeleteAccount, ClockUnderLock
  <2> QED BY <1>7, <2>1, <1>t, <1>u DEF DeleteAccount
<1>8. CASE Tick
  BY <1>8, <1>t, <1>u DEF Tick
<1>9. ASSUME NEW p \in Periods, CollectFails(p) PROVE Goal
  <2>1. /\ invoice[p].status = "open" /\ ~Terminal(stripe.status)
        /\ stripe' = [stripe EXCEPT !.status = "past_due"]
        /\ UNCHANGED <<now, faults, invoice, refunded, donor, ledger, changes, hold>>
    BY <1>9 DEF CollectFails
  <2>2. PICK c \in Copies : events' = Sent({[kind |-> "failed", of |-> p, copy |-> c]})
    BY <1>9 DEF CollectFails
  <2>3. stripe' \in Stripe /\ stripe'.status = "past_due" /\ stripe'.period = stripe.period
        /\ stripe.period # 0
    <3>1. p =< stripe.period /\ p > 0
      BY <2>1 DEF PeriodsBegun, Periods
    <3>2. stripe.period # 0
      BY <3>1, <1>t DEF Periods
    <3>3. stripe' \in Stripe
      BY <2>1, <1>t DEF Stripe
    <3>4. stripe'.status = "past_due" /\ stripe'.period = stripe.period
      BY <2>1, <1>t DEF Stripe
    <3> QED BY <3>2, <3>3, <3>4
  <2>4. Shape'
    BY <2>1, <2>2, <2>3, <1>t, <1>s, OutsideShape DEF ledger
  <2>5. PeriodsBegun'
    BY <2>1, <2>3 DEF PeriodsBegun
  <2>6. /\ events' \in [Events -> Report]
        /\ \A e \in Events : /\ events'[e].status = "done" <=> events[e].status = "done"
                             /\ events'[e].status # events[e].status => e.kind = "failed"
                                  /\ e.of = p
    <3> DEFINE E == {[kind |-> "failed", of |-> p, copy |-> c]}
    <3>1. \A e \in E : e.kind = "failed" /\ e.of = p
      OBVIOUS
    <3>2. events' = Sent(E)
      BY <2>2
    <3> HIDE DEF E
    <3> QED BY <3>1, <3>2, <1>s
  <2>7. Reported'
    BY <2>1, <2>6 DEF Reported
  <2> QED BY <2>1, <2>4, <2>5, <2>6, <2>7, <1>t DEF Lasting
<1>10. ASSUME NEW p \in Periods, Collect(p) PROVE Goal
  <2>1. /\ invoice[p].status = "open" /\ ~Terminal(stripe.status)
        /\ stripe' = [stripe EXCEPT !.status = "active"]
        /\ invoice' = [invoice EXCEPT ![p].status = "paid", ![p].paid = now]
        /\ UNCHANGED <<now, faults, refunded, donor, ledger, changes, hold>>
    BY <1>10 DEF Collect
  <2>2. PICK C \in SUBSET Copies : events' = Sent({[kind |-> "paid", of |-> p,
               copy |-> c] : c \in C})
    BY <1>10 DEF Collect
  <2>3. stripe' \in Stripe /\ stripe'.status = "active" /\ stripe'.period = stripe.period
        /\ stripe.period # 0
    <3>1. p =< stripe.period /\ p > 0
      BY <2>1 DEF PeriodsBegun, Periods
    <3>2. stripe.period # 0
      BY <3>1, <1>t DEF Periods
    <3>3. stripe' \in Stripe
      BY <2>1, <1>t DEF Stripe
    <3>4. stripe'.status = "active" /\ stripe'.period = stripe.period
      BY <2>1, <1>t DEF Stripe
    <3> QED BY <3>2, <3>3, <3>4
  <2>4. /\ invoice' \in [Periods -> Invoice]
        /\ invoice'[p].status = "paid" /\ invoice'[p].paid = now
             /\ invoice'[p].amount = invoice[p].amount
        /\ \A q \in Periods \ {p} : invoice'[q] = invoice[q]
    <3>1. now \in 1 .. Never
      BY <1>t
    <3>2. [invoice[p] EXCEPT !.status = "paid", !.paid = now] \in Invoice
      BY <3>1, <1>t DEF Invoice
    <3>3. invoice' = [invoice EXCEPT ![p] = [invoice[p] EXCEPT !.status = "paid", !.paid = now]]
      BY <2>1, <1>t DEF Invoice
    <3>4. /\ [invoice[p] EXCEPT !.status = "paid", !.paid = now].status = "paid"
          /\ [invoice[p] EXCEPT !.status = "paid", !.paid = now].paid = now
          /\ [invoice[p] EXCEPT !.status = "paid", !.paid = now].amount = invoice[p].amount
      BY <1>t DEF Invoice
    <3> QED BY <3>2, <3>3, <3>4, <1>t
  <2>5. Shape'
    BY <2>1, <2>2, <2>3, <2>4, <1>t, <1>s, OutsideShape DEF ledger
  <2>6. PeriodsBegun'
    BY <2>1, <2>3, <2>4 DEF PeriodsBegun
  <2>7. Reported'
    <3>1. ASSUME NEW e \in Events, events'[e].status # "none", e.kind # "sub"
          PROVE  invoice'[e.of].status # "none"
                   /\ (e.kind = "paid" => invoice'[e.of].status = "paid")
      <4>1. e.of \in Periods
        BY <3>1 DEF Events
      <4>2. events[e].status # "none" \/ e.of = p
        BY <2>2, <3>1, <1>s
      <4> QED BY <2>4, <3>1, <4>1, <4>2 DEF Reported
    <3>2. \A q \in Periods : invoice'[q].status = "paid" => invoice'[q].paid =< now'
      BY <2>1, <2>4, <1>t DEF Reported
    <3> QED BY <3>1, <3>2 DEF Reported
  <2> QED BY <2>1, <2>2, <2>3, <2>4, <2>5, <2>6, <2>7, <1>s, <1>t DEF Lasting
<1> QED BY <1>1, <1>2, <1>3, <1>4, <1>5, <1>6, <1>7, <1>8, <1>9, <1>10 DEF Outside

\* The greatest element of a set is the one that is at least every other.
LEMMA MaxIs ==
  ASSUME NEW S, S \subseteq Int, NEW m \in S, \A y \in S : y =< m
  PROVE  Max(S) = m
<1>1. \A y \in S : m >= y
  OBVIOUS
<1>2. Max(S) \in S /\ \A y \in S : Max(S) >= y
  BY <1>1 DEF Max
<1> DEFINE x == Max(S)
<1>3. x \in Int /\ m \in Int /\ x >= m /\ x =< m
  BY <1>2
<1> HIDE DEF x
<1>4. x = m
  BY <1>3
<1> QED BY <1>4 DEF x

\* The amounts stay right while neither price nor changes move.
LEMMA BilledFrame ==
  ASSUME Billed, UNCHANGED changes, stripe'.price = stripe.price, stripe'.period = stripe.period,
         \A p \in Periods : invoice'[p].status # "none" => /\ invoice[p].status # "none"
                                                           /\ invoice'[p].amount = invoice[p].amount
  PROVE  Billed'
<1>1. \A p : InForce(p)' = InForce(p)
  BY DEF InForce
<1> QED BY <1>1 DEF Billed

\* The steps of the processor and of the donor bill each period the change in
\* force in it.
LEMMA OutsideBilled ==
  ASSUME GiftsAssumption, Basic, Billed, Outside
  PROVE  Billed'
<1> USE Bounds DEF Basic
<1>t. /\ stripe \in Stripe /\ invoice \in [Periods -> Invoice]
      /\ changes \in Seq(Change) /\ Len(changes) \in Nat
      /\ stripe.period \in Nat /\ stripe.price \in Nat
      /\ \A n \in 1 .. Len(changes) : changes[n] \in Change /\ changes[n].effective \in Nat
  <2>1. /\ stripe \in Stripe /\ invoice \in [Periods -> Invoice] /\ changes \in Seq(Change)
    BY Typed
  <2>2. \A n \in 1 .. Len(changes) : changes[n] \in Change
    BY <2>1
  <2>3. \A c \in Change : c.effective \in Nat
    BY DEF Change
  <2>4. stripe.period \in Nat /\ stripe.price \in Nat
    BY <2>1 DEF Stripe, Amounts
  <2> QED BY <2>1, <2>2, <2>3, <2>4
<1>l. Lasting
  BY OutsideBasic
<1>1. CASE Subscribe
  <2>1. /\ stripe.status = "none" /\ stripe' = [stripe EXCEPT !.status = "active", !.period = 1]
        /\ invoice' = [invoice EXCEPT ![1] = [status |-> "open", amount |-> 0, paid |-> Never]]
        /\ UNCHANGED changes
    BY <1>1 DEF Subscribe
  <2>2. changes = <<>> /\ stripe.price = 0 /\ stripe.period = 0
    BY <2>1 DEF PeriodsBegun
  <2>3. stripe'.price = 0
    BY <2>1, <2>2, <1>t DEF Stripe
  <2>4. \A p \in Periods : p > 0
    BY DEF Periods
  <2>5. \A p \in Periods : invoice'[p].status # "none" => invoice'[p].amount = 0
    <3>1. \A p \in Periods : invoice[p].status = "none"
      BY <2>2, <2>4 DEF PeriodsBegun, Periods
    <3> QED BY <2>1, <3>1, <1>t
  <2>6. \A p \in Periods : Max(InForce(p)') = 0
    <3>1. \A p \in Periods : InForce(p)' = {0}
      BY <2>3 DEF InForce
    <3>2. Max({0}) = 0
      BY MaxIs
    <3> QED BY <3>1, <3>2
  <2>7. Len(changes') = 0
    BY <2>1, <2>2
  <2> QED BY <2>3, <2>5, <2>6, <2>7 DEF Billed
<1>2. CASE Renew /\ stripe.stops
  <2>1. stripe' = [stripe EXCEPT !.status = "canceled"] /\ UNCHANGED <<changes, invoice>>
    BY <1>2 DEF Renew
  <2>2. stripe'.price = stripe.price /\ stripe'.period = stripe.period
    BY <2>1, <1>t DEF Stripe
  <2> QED BY <2>1, <2>2, BilledFrame
<1>3. CASE Renew /\ ~stripe.stops
  <2> DEFINE q == stripe.period + 1
  <2>1. /\ stripe' = [stripe EXCEPT !.period = @ + 1] /\ UNCHANGED changes
        /\ invoice' = [invoice EXCEPT ![q] = [status |-> "open", amount |-> stripe.price,
             paid |-> Never]]
    BY <1>3 DEF Renew
  <2>2. stripe'.price = stripe.price /\ stripe'.period = q
    BY <2>1, <1>t DEF Stripe
  <2>3. \A p : InForce(p)' = InForce(p)
    BY <2>1, <2>2 DEF InForce
  <2>4. stripe.price =< Len(changes)
    BY <1>t DEF Billed
  <2>5. Max(InForce(q)) = stripe.price
    <3>1. \A n \in 1 .. stripe.price : n \in 1 .. Len(changes)
      BY <2>4, <1>t
    <3>2. \A n \in 1 .. stripe.price : changes[n].effective =< q
      BY <3>1 DEF Billed
    <3>3. InForce(q) = {0} \cup (1 .. stripe.price)
      BY <3>2 DEF InForce
    <3>4. stripe.price \in {0} \cup (1 .. stripe.price)
      BY <1>t
    <3>5. \A y \in {0} \cup (1 .. stripe.price) : y \in Int /\ y =< stripe.price
      BY <1>t
    <3> QED BY <3>3, <3>4, <3>5, MaxIs
  <2>6. ASSUME NEW p \in Periods, invoice'[p].status # "none"
        PROVE  invoice'[p].amount = Max(InForce(p)')
    <3>1. CASE p = q
      <4>1. invoice'[p].amount = stripe.price
        BY <2>1, <3>1, <2>6, <1>t
      <4> QED BY <4>1, <3>1, <2>3, <2>5
    <3>2. CASE p # q
      <4>1. invoice'[p] = invoice[p]
        BY <2>1, <3>2, <1>t
      <4> QED BY <4>1, <2>3, <2>6 DEF Billed
    <3> QED BY <3>1, <3>2
  <2>7. \A n \in 1 .. Len(changes) : changes[n].effective =< q + 1
    <3>1. \A n \in 1 .. Len(changes) : changes[n].effective =< stripe.period + 1
      BY DEF Billed
    <3>2. \A x \in Nat : x =< stripe.period + 1 => x =< q + 1
      BY <1>t
    <3> QED BY <3>1, <3>2, <1>t
  <2> QED BY <2>1, <2>2, <2>6, <2>7 DEF Billed
<1>4. CASE insertAmountChange
  <2> DEFINE c == [effective |-> stripe.period + 1, confirmed |-> FALSE]
             k == Len(changes) + 1
  <2>1. /\ changes' = Append(changes, c) /\ UNCHANGED <<stripe, invoice>> /\ ~LatestPending
    BY <1>4 DEF insertAmountChange
  <2>2. /\ Len(changes') = k /\ changes'[k] = c
        /\ \A n \in 1 .. Len(changes) : changes'[n] = changes[n]
    <3> HIDE DEF c
    <3> QED BY <2>1, <1>t
  <2>3. \A n \in 1 .. Len(changes) : changes[n].confirmed
    <3>1. changes # <<>> => changes[Len(changes)].confirmed
      BY <2>1 DEF LatestPending
    <3>2. ASSUME NEW n \in 1 .. Len(changes) PROVE n < Len(changes) \/ n = Len(changes)
      BY <1>t
    <3>3. ASSUME NEW n \in 1 .. Len(changes) PROVE changes # <<>>
      BY <1>t
    <3> QED BY <3>1, <3>2, <3>3 DEF Billed
  <2>4. stripe.price = Len(changes)
    <3>1. CASE Len(changes) = 0
      BY <3>1, <1>t DEF Billed
    <3>2. CASE Len(changes) # 0
      <4>1. Len(changes) \in 1 .. Len(changes)
        BY <3>2, <1>t
      <4>2. Len(changes) =< stripe.price
        BY <2>3, <4>1 DEF Billed
      <4> QED BY <4>2, <1>t DEF Billed
    <3> QED BY <3>1, <3>2
  <2>5. \A p \in Periods : InForce(p)' = InForce(p)
    BY <2>1, <2>2, <2>4 DEF InForce
  <2>6. c.effective = stripe.period + 1 /\ ~c.confirmed
    OBVIOUS
  <2>7. ASSUME NEW n \in 1 .. k
        PROVE  /\ n < k => changes'[n].confirmed
               /\ changes'[n].effective =< stripe.period + 1
               /\ changes'[n].confirmed => n =< stripe.price
    <3>1. CASE n = k
      BY <3>1, <2>2, <2>6, <1>t
    <3>2. CASE n # k
      <4>1. n \in 1 .. Len(changes)
        BY <3>2, <1>t
      <4> QED BY <4>1, <2>2, <2>3 DEF Billed
    <3> QED BY <3>1, <3>2
  <2>8. stripe'.price = Len(changes') - 1
    BY <2>1, <2>2, <2>4, <1>t
  <2> HIDE DEF c
  <2> QED BY <2>1, <2>2, <2>5, <2>7, <2>8 DEF Billed
<1>5. CASE ChangeMonthlyAmount
  <2> DEFINE k == Len(changes)
  <2>1. /\ changes # <<>> /\ stripe.price # k /\ stripe.period + 1 = changes[k].effective
        /\ stripe' = [stripe EXCEPT !.price = k] /\ UNCHANGED <<changes, invoice>>
    BY <1>5 DEF ChangeMonthlyAmount, LatestPending
  <2>2. stripe'.price = k /\ stripe'.period = stripe.period
    BY <2>1, <1>t DEF Stripe
  <2>3. stripe.price = k - 1 /\ k > 0
    BY <2>1, <1>t DEF Billed
  <2>4. ASSUME NEW p \in Periods, invoice[p].status # "none" PROVE InForce(p)' = InForce(p)
    <3>1. p =< stripe.period /\ p \in Nat
      BY <2>4 DEF PeriodsBegun, Periods
    <3>2. ~(changes[k].effective =< p)
      BY <3>1, <2>1, <1>t
    <3>3. \A n : n \in 1 .. k <=> n \in 1 .. stripe.price \/ n = k
      BY <2>3, <1>t
    <3> QED BY <2>1, <2>2, <3>2, <3>3 DEF InForce
  <2>5. \A n \in 1 .. k : n =< k
    BY <1>t
  <2> QED BY <2>1, <2>2, <2>4, <2>5 DEF Billed
<1>6. ASSUME \/ ClaimAccount \/ DeleteAccount \/ Tick
             \/ \E p \in Periods : CollectFails(p) \/ Collect(p)
      PROVE  Billed'
  <2>1. UNCHANGED changes
    BY <1>6 DEF ClaimAccount, DeleteAccount, Tick, CollectFails, Collect
  <2>2. stripe'.price = stripe.price /\ stripe'.period = stripe.period
    <3>1. stripe' = stripe \/ \E s : stripe' = [stripe EXCEPT !.status = s]
      BY <1>6 DEF ClaimAccount, DeleteAccount, Tick, CollectFails, Collect
    <3> QED BY <3>1, <1>t DEF Stripe
  <2>3. \A p \in Periods : invoice'[p].status # "none" => invoice[p].status # "none"
    <3>1. \/ invoice' = invoice
          \/ \E p \in Periods : /\ invoice[p].status = "open"
                                /\ invoice' = [invoice EXCEPT ![p].status = "paid", ![p].paid = now]
      BY <1>6 DEF ClaimAccount, DeleteAccount, Tick, CollectFails, Collect
    <3> QED BY <3>1, <1>t DEF Invoice
  <2> QED BY <2>1, <2>2, <2>3, <1>l, BilledFrame DEF Lasting
<1> QED BY <1>1, <1>2, <1>3, <1>4, <1>5, <1>6 DEF Outside

(***************************************************************************)
(* Applying events and syncing the subscription.                           *)
(***************************************************************************)

\* Confirming a change leaves the order of the changes alone.
LEMMA SyncChanges ==
  ASSUME GiftsAssumption, Basic, Billed, changes' = changes \/ changes' = Confirmed,
         stripe'.price = stripe.price, stripe'.period = stripe.period, UNCHANGED invoice
  PROVE  /\ changes' \in Seq(Change) /\ Len(changes') = Len(changes)
         /\ changes = <<>> => changes' = <<>>
         /\ Billed'
<1> USE Bounds DEF Basic
<1>t. changes \in Seq(Change) /\ Len(changes) \in Nat /\ stripe.price \in Nat
  BY Typed DEF Stripe, Amounts
<1>1. CASE changes' = changes
  BY <1>1, <1>t, BilledFrame
<1>2. CASE changes' # changes
  <2> DEFINE k == Len(changes)
  <2>1. /\ changes # <<>> /\ stripe.price = k
        /\ changes' = [changes EXCEPT ![k].confirmed = TRUE]
    BY <1>2 DEF Confirmed
  <2>2. k \in 1 .. k
    BY <2>1, <1>t
  <2> DEFINE c == [changes[k] EXCEPT !.confirmed = TRUE]
  <2>3. changes[k] \in Change
    BY <2>2, <1>t
  <2>4. c \in Change /\ c.effective = changes[k].effective
    BY <2>3 DEF Change
  <2>5. changes' = [changes EXCEPT ![k] = c]
    BY <2>1, <2>2, <2>3, <1>t DEF Change
  <2> HIDE DEF c
  <2>6. /\ changes' \in Seq(Change) /\ Len(changes') = Len(changes) /\ changes'[k] = c
        /\ \A n \in 1 .. k : n # k => changes'[n] = changes[n]
    BY <2>2, <2>4, <2>5, <1>t
  <2>7. \A n \in 1 .. k : changes'[n].effective = changes[n].effective
    BY <2>4, <2>6
  <2>8. \A p : InForce(p)' = InForce(p)
    BY <2>1, <2>7 DEF InForce
  <2>9. \A n \in 1 .. k : /\ n =< stripe.price
                          /\ n < k => changes'[n].confirmed
    BY <2>1, <2>6, <1>t DEF Billed
  <2> QED BY <2>1, <2>6, <2>7, <2>8, <2>9 DEF Billed
<1> QED BY <1>1, <1>2

\* What applying an event changes.
Applies(e) ==
  /\ changes' = changes \/ changes' = Confirmed
  /\ row' \in {"none", "active", "stopping", "ended"}
  /\ \/ /\ e.kind = "sub" /\ UNCHANGED <<donor, period, observed, gift>>
     \/ /\ e.kind = "failed" /\ UNCHANGED <<donor, gift>>
        /\ period' = InsertBillingPeriod(e.of) /\ observed' = [observed EXCEPT ![e] = "FAILED"]
     \/ /\ e.kind = "paid" /\ recordGift(e.of)
        /\ period' = MarkPeriodPaid(e.of) /\ observed' = [observed EXCEPT ![e] = "PAID"]
  /\ queueDeletedAccountReversals
  /\ events[e].status = "sent" /\ events' = [events EXCEPT ![e].status = "done"]
  /\ UNCHANGED <<now, faults, stripe, invoice, refunded, hold>>

LEMMA ProcessNextIs ==
  ASSUME Shape, NEW e \in Events, ProcessNext(e)
  PROVE  Applies(e) /\ bound' = TRUE
<1>r. row \in {"none", "active", "stopping", "ended"}
        /\ Synced \in {"none", "active", "stopping", "ended"}
  BY Typed DEF Synced
<1>0. /\ events[e].status = "sent" /\ queueDeletedAccountReversals
      /\ events' = [events EXCEPT ![e].status = "done"]
      /\ UNCHANGED <<now, faults, stripe, invoice, refunded, hold>>
  BY DEF ProcessNext, Claimable
<1>1. CASE e.kind = "sub"
  <2>1. applySubscriptionEvent
    BY <1>1 DEF ProcessNext
  <2>2. bound' = TRUE /\ row' = Synced /\ changes' = Confirmed
          /\ UNCHANGED <<donor, period, observed, gift>>
    BY <2>1 DEF applySubscriptionEvent, reconcileSubscription
  <2> QED BY <1>0, <1>1, <1>r, <2>2 DEF Applies
<1>2. CASE e.kind = "failed"
  <2>1. applyFailedInvoice(e)
    BY <1>2 DEF ProcessNext
  <2>2. /\ bound' = TRUE /\ row' \in {row, Synced} /\ (changes' = changes \/ changes' = Confirmed)
    BY <2>1 DEF applyFailedInvoice, invoiceAmount, reconcileSubscription
  <2>3. /\ UNCHANGED <<donor, gift>> /\ period' = InsertBillingPeriod(e.of)
        /\ observed' = [observed EXCEPT ![e] = "FAILED"]
    BY <2>1 DEF applyFailedInvoice, recordPeriod, InsertBillingObservation
  <2> QED BY <1>0, <1>2, <1>r, <2>2, <2>3 DEF Applies
<1>3. CASE e.kind = "paid"
  <2>1. applyPaidInvoice(e)
    BY <1>3 DEF ProcessNext
  <2>2. /\ bound' = TRUE /\ row' \in {row, Synced} /\ (changes' = changes \/ changes' = Confirmed)
    BY <2>1 DEF applyPaidInvoice, invoiceAmount, reconcileSubscription
  <2>3. /\ recordGift(e.of) /\ period' = MarkPeriodPaid(e.of)
        /\ observed' = [observed EXCEPT ![e] = "PAID"]
    BY <2>1 DEF applyPaidInvoice, recordPeriod, InsertBillingObservation
  <2> QED BY <1>0, <1>3, <1>r, <2>2, <2>3 DEF Applies
<1>4. e.kind \in {"sub", "failed", "paid"}
  BY DEF Events
<1> QED BY <1>1, <1>2, <1>3, <1>4

\* Queueing keeps what was queued.
LEMMA QueueIs ==
  ASSUME GiftsAssumption, job \in [Jobs -> Task], queueDeletedAccountReversals
  PROVE  /\ job' \in [Jobs -> Task]
         /\ \A j \in Jobs : /\ job[j] # NoJob => job'[j] = job[j]
                            /\ job[j] = NoJob => \/ job'[j] = NoJob
                                                 \/ /\ job'[j] = [status |-> "queued",
                                                         attempts |-> 0, due |-> TRUE]
                                                    /\ j.kind = "REFUND" => j.target \in LateGifts
         /\ \A p \in LateGifts : job'[Refund(p)] # NoJob \/ job[Refund(p)] # NoJob
<1> DEFINE new == [status |-> "queued", attempts |-> 0, due |-> TRUE]
           Q == QueueDeletedAccountRefunds \cup QueueDeletedAccountCancellation
<1>0. new \in Task /\ new # NoJob
  BY Bounds DEF Task, NoJob
<1>1. job' = [j \in Jobs |-> IF job[j] = NoJob /\ j \in Q THEN new ELSE job[j]]
  BY DEF queueDeletedAccountReversals
<1>2. \A j \in Q : j.kind = "REFUND" => j.target \in LateGifts
  BY DEF QueueDeletedAccountRefunds, QueueDeletedAccountCancellation
<1>3. \A p \in LateGifts : Refund(p) \in Jobs /\ Refund(p) \in Q
  BY DEF LateGifts, Jobs, Refund, QueueDeletedAccountRefunds
<1> HIDE DEF new, Q
<1>4. job' \in [Jobs -> Task]
  BY <1>0, <1>1
<1>5. \A j \in Jobs : /\ job[j] # NoJob => job'[j] = job[j]
                      /\ job[j] = NoJob => job'[j] = NoJob \/ (job'[j] = new /\ j \in Q)
  BY <1>1
<1>6. \A p \in LateGifts : job'[Refund(p)] # NoJob \/ job[Refund(p)] # NoJob
  BY <1>0, <1>1, <1>3
<1> QED BY <1>2, <1>4, <1>5, <1>6 DEF new

\* Applying an event keeps the shape.
LEMMA AppliesShape ==
  ASSUME GiftsAssumption, Basic, Billed, WorkersKnow, NEW e \in Events, ProcessNext(e)
  PROVE  Shape'
<1> USE Bounds DEF Basic
<1>a. Applies(e) /\ bound' = TRUE
  BY ProcessNextIs
<1>t. /\ now \in 1 .. Horizon /\ faults \in 0 .. MaxFaults
      /\ stripe \in Stripe /\ invoice \in [Periods -> Invoice]
      /\ refunded \in [Periods -> Nat] /\ events \in [Events -> Report]
      /\ donor \in [claimed : BOOLEAN, deleted : 0 .. Never, mails : 0 .. 2]
      /\ Len(changes) =< MaxChanges
      /\ period \in [Periods -> {"none", "FAILED", "PAID"}]
      /\ observed \in [Events -> {"none", "FAILED", "PAID"}]
      /\ gift \in [Periods -> Gift] /\ job \in [Jobs -> Task] /\ hold \in [Workers -> Hold]
  BY Typed
<1>1. changes' \in Seq(Change) /\ Len(changes') =< MaxChanges
  BY <1>a, <1>t, SyncChanges DEF Applies
<1>2. period' \in [Periods -> {"none", "FAILED", "PAID"}]
      /\ observed' \in [Events -> {"none", "FAILED", "PAID"}]
  BY <1>a, <1>t DEF Applies, InsertBillingPeriod, MarkPeriodPaid
<1>3. gift' \in [Periods -> Gift]
        /\ donor' \in [claimed : BOOLEAN, deleted : 0 .. Never, mails : 0 .. 2]
  <2>1. CASE UNCHANGED <<donor, gift>>
    BY <2>1, <1>t
  <2>2. CASE e.kind = "paid" /\ recordGift(e.of)
    <3> DEFINE p == e.of
               g == [amount |-> invoice[p].amount, paid |-> invoice[p].paid,
                     referred |-> invoice[p].paid < ReferralEnds]
    <3>1. p \in Periods
      BY <2>2 DEF Events
    <3>2. g \in Gift
      BY <3>1, <1>t DEF Gift, Invoice
    <3>3. gift' = gift \/ gift' = [gift EXCEPT ![p] = g]
      BY <2>2 DEF recordGift
    <3>4. donor' = donor \/ donor' = [donor EXCEPT !.mails = Min({@ + 1, 2})]
      BY <2>2 DEF recordGift
    <3>5. Min({donor.mails + 1, 2}) \in 0 .. 2
      <4>1. \A x \in 0 .. 2 : Min({x + 1, 2}) \in {x + 1, 2}
        <5> SUFFICES ASSUME NEW x \in 0 .. 2 PROVE Min({x + 1, 2}) \in {x + 1, 2}
          OBVIOUS
        <5>1. \E m \in {x + 1, 2} : \A y \in {x + 1, 2} : m =< y
          OBVIOUS
        <5> QED BY <5>1 DEF Min
      <4>2. \A x \in 0 .. 2 : Min({x + 1, 2}) =< 2
        <5> SUFFICES ASSUME NEW x \in 0 .. 2 PROVE Min({x + 1, 2}) =< 2
          OBVIOUS
        <5>1. \E m \in {x + 1, 2} : \A y \in {x + 1, 2} : m =< y
          OBVIOUS
        <5> QED BY <5>1 DEF Min
      <4>3. donor.mails \in 0 .. 2
        BY <1>t
      <4>4. \A x \in 0 .. 2 : Min({x + 1, 2}) \in 0 .. 2
        BY <4>1, <4>2
      <4> QED BY <4>3, <4>4
    <3>6. \A m \in 0 .. 2 : [donor EXCEPT !.mails = m] \in
                              [claimed : BOOLEAN, deleted : 0 .. Never, mails : 0 .. 2]
      BY <1>t
    <3>7. donor' \in [claimed : BOOLEAN, deleted : 0 .. Never, mails : 0 .. 2]
      BY <3>4, <3>5, <3>6, <1>t
    <3> HIDE DEF g, p
    <3>8. gift' \in [Periods -> Gift]
      BY <3>1, <3>2, <3>3, <1>t
    <3> QED BY <3>7, <3>8
  <2> QED BY <2>1, <2>2, <1>a DEF Applies
<1>4. events' \in [Events -> Report]
  <2>1. events' = [events EXCEPT ![e].status = "done"]
    BY <1>a DEF Applies
  <2> QED BY <2>1, <1>t DEF Report
<1>5. /\ job' \in [Jobs -> Task] /\ \A j \in Jobs : job[j].attempts =< job'[j].attempts
  <2>1. job' \in [Jobs -> Task] /\ \A j \in Jobs : job'[j] = job[j] \/ job[j] = NoJob
    BY <1>a, <1>t, QueueIs DEF Applies
  <2>2. \A j \in Jobs : job[j].attempts \in Nat /\ job'[j].attempts \in Nat
    BY <2>1, <1>t DEF Task
  <2>3. NoJob.attempts = 0
    BY DEF NoJob
  <2> QED BY <2>1, <2>2, <2>3
<1>6. \A w \in Workers : Busy(w)' => hold'[w].attempt <= job'[hold'[w].job].attempts
  <2> SUFFICES ASSUME NEW w \in Workers, Busy(w) PROVE hold[w].attempt <= job'[hold[w].job].attempts
    BY <1>a DEF Applies, Busy
  <2>1. hold[w].attempt <= job[hold[w].job].attempts
    BY DEF Shape, TypeOK
  <2>2. hold[w].job \in Jobs
    BY DEF WorkersKnow
  <2>3. hold[w].attempt \in Nat /\ job[hold[w].job].attempts \in Nat
          /\ job'[hold[w].job].attempts \in Nat
    BY <2>2, <1>5, <1>t DEF Hold, Task
  <2> QED BY <2>1, <2>2, <2>3, <1>5
<1>7. bound' \in BOOLEAN
  BY <1>a, Zenon
<1>8. \A n \in DOMAIN changes' : changes'[n] \in Change
  BY <1>1
<1>9. hold' \in [Workers -> Hold] /\ row' \in {"none", "active", "stopping", "ended"}
  BY <1>a, <1>t DEF Applies
<1> QED BY <1>1, <1>2, <1>3, <1>4, <1>5, <1>6, <1>7, <1>8, <1>9, <1>t, <1>a
        DEF Shape, TypeOK, Applies, Stripe, Invoice, Report, Change, Gift, Task

\* What was recorded of a gift and of the deletion lasts.
LEMMA GiftsLast ==
  ASSUME Shape, LedgerInv, NEW e \in Events, Applies(e)
  PROVE  /\ donor'.deleted = donor.deleted
         /\ \A p \in Periods : /\ gift[p].amount # -1 => gift'[p] = gift[p]
                               /\ gift'[p] # gift[p] => /\ e.kind = "paid" /\ p = e.of
                                                        /\ gift'[p].amount = invoice[p].amount
                                                        /\ gift'[p].paid = invoice[p].paid
         /\ e.kind = "paid" => gift'[e.of].amount # -1
<1>t. /\ donor \in [claimed : BOOLEAN, deleted : 0 .. Never, mails : 0 .. 2]
      /\ gift \in [Periods -> Gift] /\ invoice \in [Periods -> Invoice]
  BY Typed
<1>1. CASE UNCHANGED <<donor, gift>> /\ e.kind # "paid"
  BY <1>1
<1>2. CASE e.kind = "paid" /\ recordGift(e.of)
  <2> DEFINE p == e.of
             g == [amount |-> invoice[p].amount, paid |-> invoice[p].paid,
                   referred |-> invoice[p].paid < ReferralEnds]
  <2>1. p \in Periods
    BY <1>2 DEF Events
  <2>2. gift' = IF gift[p].amount # -1 THEN gift ELSE [gift EXCEPT ![p] = g]
    BY <1>2 DEF recordGift, HasGiftOf
  <2>3. g.amount = invoice[p].amount /\ g.paid = invoice[p].paid
    OBVIOUS
  <2>4. invoice[p].amount \in Amounts /\ invoice[p].amount # -1
    BY <2>1, <1>t DEF Invoice, Amounts
  <2>5. donor' = donor \/ \E m : donor' = [donor EXCEPT !.mails = m]
    BY <1>2 DEF recordGift
  <2>6. donor'.deleted = donor.deleted
    BY <2>5, <1>t
  <2> HIDE DEF g, p
  <2>7. /\ gift'[p].amount # -1
        /\ \A q \in Periods : /\ gift[q].amount # -1 => gift'[q] = gift[q]
                              /\ gift'[q] # gift[q] => q = p /\ gift'[q] = g
    BY <2>1, <2>2, <2>3, <2>4, <1>t
  <2> QED BY <1>2, <2>3, <2>6, <2>7 DEF p
<1> QED BY <1>1, <1>2 DEF Applies

\* Applying an event, once or again, early or late, keeps the ledger right.
LEMMA AppliesLedger ==
  ASSUME GiftsAssumption, Basic, LedgerInv, NEW e \in Events, Applies(e)
  PROVE  Reported' /\ LedgerInv'
<1> USE DEF Basic
<1>t. /\ period \in [Periods -> {"none", "FAILED", "PAID"}]
      /\ observed \in [Events -> {"none", "FAILED", "PAID"}]
      /\ events \in [Events -> Report]
  BY Typed
<1>1. /\ events[e].status = "sent" /\ events'[e].status = "done"
      /\ \A f \in Events : f # e => events'[f] = events[f]
      /\ UNCHANGED <<now, invoice>>
  BY <1>t DEF Applies, Report
<1>2. Reported'
  BY <1>1 DEF Reported
<1>3. HistoryComplete'
  <2> SUFFICES ASSUME NEW f \in Events, events'[f].status = "done", f.kind # "sub"
               PROVE  observed'[f] = IF f.kind = "paid" THEN "PAID" ELSE "FAILED"
    BY DEF HistoryComplete
  <2>1. CASE f = e
    BY <2>1, <1>t DEF Applies
  <2>2. CASE f # e
    <3>1. observed'[f] = observed[f]
      BY <2>2, <1>t DEF Applies
    <3> QED BY <2>2, <3>1, <1>1 DEF LedgerInv, HistoryComplete
  <2> QED BY <2>1, <2>2
<1>4. GiftsMatchCharges'
  <2> SUFFICES ASSUME NEW p \in Periods
               PROVE  /\ period'[p] = "PAID" <=> gift'[p].amount # -1
                      /\ gift'[p].amount # -1 => /\ invoice[p].status = "paid"
                                                 /\ gift'[p].amount = invoice[p].amount
                                                 /\ gift'[p].paid = invoice[p].paid
    BY <1>1 DEF GiftsMatchCharges
  <2>o. /\ period[p] = "PAID" <=> gift[p].amount # -1
        /\ gift[p].amount # -1 => /\ invoice[p].status = "paid"
                                  /\ gift[p].amount = invoice[p].amount
                                  /\ gift[p].paid = invoice[p].paid
    BY DEF LedgerInv, GiftsMatchCharges
  <2>1. CASE e.kind = "paid" /\ p = e.of
    <3>1. period'[p] = "PAID"
      BY <2>1, <1>t DEF Applies, MarkPeriodPaid
    <3>2. gift'[p].amount # -1
      BY <2>1, GiftsLast
    <3>3. invoice[p].status = "paid"
      BY <2>1, <1>1 DEF Reported
    <3> QED BY <2>o, <3>1, <3>2, <3>3, GiftsLast
  <2>2. CASE ~(e.kind = "paid" /\ p = e.of)
    <3>1. gift'[p] = gift[p]
      BY <2>2, GiftsLast
    <3>2. period'[p] = "PAID" <=> period[p] = "PAID"
      BY <2>2, <1>t DEF Applies, MarkPeriodPaid, InsertBillingPeriod
    <3> QED BY <2>o, <3>1, <3>2
  <2> QED BY <2>1, <2>2
<1> QED BY <1>2, <1>3, <1>4 DEF LedgerInv

\* What is queued with the event is what was taken after the deletion.
LEMMA AppliesReversals ==
  ASSUME GiftsAssumption, Basic, LedgerInv, OnlyLate, LateGiftsReversed, NEW e \in Events,
         Applies(e)
  PROVE  OnlyLate' /\ LateGiftsReversed' /\ \A j \in Jobs : job[j].status # "none" =>
           job'[j] = job[j]
<1> USE DEF Basic
<1>t. job \in [Jobs -> Task] /\ UNCHANGED refunded /\ queueDeletedAccountReversals
  BY Typed DEF Applies
<1>n. NoJob.status = "none" /\ [status |-> "queued", attempts |-> 0, due |-> TRUE].status = "queued"
  BY DEF NoJob
<1>l. \A p : p \in LateGifts <=> p \in Periods /\ PaidLate(p)'
  <2>1. donor'.deleted = donor.deleted
    BY GiftsLast
  <2> QED BY <2>1 DEF LateGifts, PaidLate, HasGiftOf
<1>k. \A p \in Periods : PaidLate(p) => PaidLate(p)'
  BY GiftsLast DEF PaidLate
<1>j. \A p \in Periods : Refund(p) \in Jobs /\ Refund(p).kind = "REFUND" /\ Refund(p).target = p
  BY DEF Refund, Jobs
<1>q. /\ \A j \in Jobs : /\ job[j] # NoJob => job'[j] = job[j]
                         /\ job[j] = NoJob => \/ job'[j] = NoJob
                                              \/ /\ job'[j].status = "queued"
                                                 /\ j.kind = "REFUND" => j.target \in LateGifts
      /\ \A p \in LateGifts : job'[Refund(p)] # NoJob \/ job[Refund(p)] # NoJob
  BY <1>t, <1>n, QueueIs
<1>1. \A j \in Jobs : job[j].status # "none" => job'[j] = job[j]
  BY <1>n, <1>q
<1>2. \A j \in Jobs : job'[j].status = "none" => job'[j] = NoJob
  BY <1>q DEF OnlyLate
<1>3. \A p \in Periods : job'[Refund(p)].status # "none" => PaidLate(p)'
  <2> SUFFICES ASSUME NEW p \in Periods, job'[Refund(p)].status # "none" PROVE PaidLate(p)'
    OBVIOUS
  <2>1. CASE job[Refund(p)] # NoJob
    BY <2>1, <1>j, <1>k DEF OnlyLate
  <2>2. CASE job[Refund(p)] = NoJob
    BY <2>2, <1>j, <1>q, <1>n, <1>l
  <2> QED BY <2>1, <2>2
<1>4. \A p \in Periods : PaidLate(p)' => job'[Refund(p)].status # "none"
  <2> SUFFICES ASSUME NEW p \in Periods, PaidLate(p)' PROVE job'[Refund(p)].status # "none"
    OBVIOUS
  <2>1. job'[Refund(p)] # NoJob
    BY <1>l, <1>q, <1>j
  <2> QED BY <2>1, <1>2, <1>j
<1>5. \A p \in Periods : refunded[p] # 0 => PaidLate(p)
  BY DEF LateGiftsReversed, PaidLate
<1>6. OnlyLate'
  BY <1>2, <1>3, <1>t DEF OnlyLate
<1>7. LateGiftsReversed'
  BY <1>4, <1>5, <1>k, <1>t DEF LateGiftsReversed, PaidLate, Refund
<1> QED BY <1>1, <1>6, <1>7

(***************************************************************************)
(* What a step that does not touch it leaves of each part.                 *)
(***************************************************************************)

LEMMA LedgerFrame ==
  ASSUME LedgerInv, Lasting, UNCHANGED <<period, observed, gift>>,
         \A e \in Events : events'[e].status = "done" => events[e].status = "done"
  PROVE  LedgerInv'
BY DEF LedgerInv, GiftsMatchCharges, HistoryComplete, Lasting

LEMMA ReversalFrame ==
  ASSUME OnlyLate, LateGiftsReversed, UNCHANGED <<gift, job, refunded>>,
         donor'.deleted = donor.deleted
  PROVE  OnlyLate' /\ LateGiftsReversed'
BY DEF OnlyLate, LateGiftsReversed, PaidLate

LEMMA WorkersFrame ==
  ASSUME WorkersKnow, CompletedWasMade, UNCHANGED <<hold, refunded>>,
         Terminal(stripe.status) => Terminal(stripe'.status),
         \A j \in Jobs : /\ job[j].status # "none" => job'[j].status # "none"
                         /\ job'[j].status = "done" => job[j].status = "done"
  PROVE  WorkersKnow' /\ CompletedWasMade'
<1>1. \A j : Made(j) => Made(j)'
  BY DEF Made
<1>2. WorkersKnow'
  BY <1>1 DEF WorkersKnow, Busy
<1>3. CompletedWasMade'
  BY DEF CompletedWasMade
<1> QED BY <1>2, <1>3

\* Before the deletion nothing is late, and what was taken until then is not.
LEMMA DeleteReversals ==
  ASSUME GiftsAssumption, Basic, LedgerInv, OnlyLate, LateGiftsReversed, DeleteAccount
  PROVE  OnlyLate' /\ LateGiftsReversed'
<1> USE Bounds DEF Basic
<1>t. /\ now \in 1 .. Horizon /\ now \in Int
      /\ donor \in [claimed : BOOLEAN, deleted : 0 .. Never, mails : 0 .. 2]
      /\ gift \in [Periods -> Gift] /\ \A p \in Periods : gift[p].paid \in Int
  <2>1. /\ now \in 1 .. Horizon /\ gift \in [Periods -> Gift]
        /\ donor \in [claimed : BOOLEAN, deleted : 0 .. Never, mails : 0 .. 2]
    BY Typed
  <2>2. \A p \in Periods : gift[p].paid \in Int
    BY <2>1 DEF Gift
  <2> QED BY <2>1, <2>2
<1>1. /\ donor.deleted = Never /\ donor' = [donor EXCEPT !.deleted = now]
      /\ UNCHANGED <<gift, job, refunded>>
  BY DEF DeleteAccount, ClockUnderLock, ledger
<1>2. donor'.deleted = now
  BY <1>1, <1>t
<1>3. \A p \in Periods : gift[p].amount # -1 => gift[p].paid =< now
  BY DEF LedgerInv, GiftsMatchCharges, Reported
<1>4. \A p \in Periods : ~PaidLate(p) /\ ~PaidLate(p)'
  BY <1>1, <1>2, <1>3, <1>t DEF PaidLate
<1>5. \A p \in Periods : refunded[p] = 0 /\ job[Refund(p)].status = "none"
  BY <1>4 DEF OnlyLate, LateGiftsReversed, PaidLate
<1>6. OnlyLate'
  BY <1>1, <1>5 DEF OnlyLate
<1>7. LateGiftsReversed'
  BY <1>1, <1>4, <1>5 DEF LateGiftsReversed, PaidLate
<1> QED BY <1>6, <1>7

\* Every step of the processor and of the donor keeps the invariant.
LEMMA OutsideInv ==
  ASSUME GiftsAssumption, GiftsInv, Outside
  PROVE  GiftsInv'
<1> USE DEF GiftsInv
<1>0. Basic
  BY DEF Basic
<1>1. Basic' /\ Lasting /\ \A e \in Events : events'[e].status = "done" <=>
        events[e].status = "done"
  BY <1>0, OutsideBasic
<1>2. Billed'
  BY <1>0, OutsideBilled
<1>3. UNCHANGED <<period, observed, gift, job, refunded, hold>>
  BY DEF Outside, Subscribe, Renew, insertAmountChange, ChangeMonthlyAmount, ClaimAccount,
         DeleteAccount, Tick, CollectFails, Collect, ledger
<1>4. LedgerInv'
  BY <1>1, <1>3, LedgerFrame
<1>5. OnlyLate' /\ LateGiftsReversed'
  <2>1. CASE DeleteAccount
    BY <2>1, <1>0, DeleteReversals
  <2>2. CASE ~DeleteAccount
    <3>1. donor' = donor \/ donor' = [donor EXCEPT !.claimed = TRUE]
      BY <2>2 DEF Outside, Subscribe, Renew, insertAmountChange, ChangeMonthlyAmount, ClaimAccount,
                  Tick, CollectFails, Collect
    <3>2. donor'.deleted = donor.deleted
      BY <3>1, Typed
    <3> QED BY <3>2, <1>3, ReversalFrame
  <2> QED BY <2>1, <2>2
<1>6. WorkersKnow' /\ CompletedWasMade'
  BY <1>1, <1>3, WorkersFrame DEF Lasting
<1> QED BY <1>1, <1>2, <1>4, <1>5, <1>6 DEF Basic

\* Applying an event keeps the invariant.
LEMMA AppliesInv ==
  ASSUME GiftsAssumption, GiftsInv, NEW e \in Events, ProcessNext(e)
  PROVE  GiftsInv'
<1> USE DEF GiftsInv
<1>0. Basic
  BY DEF Basic
<1>a. Applies(e) /\ UNCHANGED <<now, stripe, invoice, refunded, hold>>
  BY ProcessNextIs DEF Applies
<1>1. Shape'
  BY <1>0, AppliesShape
<1>2. Billed' /\ (changes = <<>> => changes' = <<>>)
  BY <1>0, <1>a, SyncChanges DEF Applies
<1>3. PeriodsBegun'
  BY <1>a, <1>2 DEF PeriodsBegun
<1>4. Reported' /\ LedgerInv'
  BY <1>0, <1>a, AppliesLedger
<1>5. OnlyLate' /\ LateGiftsReversed' /\ \A j \in Jobs : job[j].status # "none" => job'[j] = job[j]
  BY <1>0, <1>a, AppliesReversals
<1>6. \A j \in Jobs : job'[j].status = "done" => job[j].status = "done"
  <2>1. \A j \in Jobs : \/ job'[j] = job[j] \/ job'[j] = NoJob
                        \/ job'[j] = [status |-> "queued", attempts |-> 0, due |-> TRUE]
    BY <1>a, Typed, QueueIs DEF Applies
  <2>2. NoJob.status # "done" /\ [status |-> "queued", attempts |-> 0, due |-> TRUE].status # "done"
    BY DEF NoJob
  <2> QED BY <2>1, <2>2
<1>7. WorkersKnow' /\ CompletedWasMade'
  BY <1>a, <1>5, <1>6, WorkersFrame
<1> QED BY <1>1, <1>2, <1>3, <1>4, <1>5, <1>7

(***************************************************************************)
(* The other steps.                                                        *)
(***************************************************************************)

\* Steps of the donor's commands and of the events that apply nothing.
Aside ==
  \/ Cancel \/ CompleteChange
  \/ \E e \in Events : Fail(e) \/ RetryStripeEvent(e)

\* A step that only moves events, the sync of the row or the changes.
LEMMA AsideInv ==
  ASSUME GiftsAssumption, GiftsInv, Aside
  PROVE  GiftsInv'
<1> USE Bounds DEF GiftsInv
<1>0. Basic
  BY DEF Basic
<1>t. /\ now \in 1 .. Horizon /\ faults \in 0 .. MaxFaults /\ stripe \in Stripe
      /\ events \in [Events -> Report] /\ Len(changes) =< MaxChanges
      /\ row \in {"none", "active", "stopping", "ended"}
  BY Typed
<1>1. /\ UNCHANGED <<now, invoice, refunded, donor, period, observed, gift, job, hold>>
      /\ changes' = changes \/ changes' = Confirmed
  BY DEF Aside, Cancel, CompleteChange, Fail, RetryStripeEvent, reconcileSubscription, ledger
<1>2. /\ stripe' \in Stripe /\ stripe'.status = stripe.status
      /\ stripe'.price = stripe.price /\ stripe'.period = stripe.period
  <2>1. stripe' = stripe \/ stripe' = [stripe EXCEPT !.stops = TRUE]
    BY DEF Aside, Cancel, CompleteChange, Fail, RetryStripeEvent
  <2> QED BY <2>1, <1>t DEF Stripe
<1>3. /\ events' \in [Events -> Report]
      /\ \A e \in Events : events'[e].status = events[e].status
  <2>1. CASE UNCHANGED events
    BY <2>1, <1>t
  <2>2. ASSUME NEW e \in Events, Fail(e)
        PROVE  /\ events' \in [Events -> Report]
               /\ \A f \in Events : events'[f].status = events[f].status
    <3>1. events[e].attempts < EventAttempts /\ events' = [events EXCEPT ![e].attempts = @ + 1]
      BY <2>2 DEF Fail, Claimable, FailStripeEvent
    <3>2. events[e].attempts + 1 \in 0 .. EventAttempts
      BY <3>1, <1>t DEF Report
    <3> QED BY <3>1, <3>2, <1>t DEF Report
  <2>3. ASSUME NEW e \in Events, RetryStripeEvent(e)
        PROVE  /\ events' \in [Events -> Report]
               /\ \A f \in Events : events'[f].status = events[f].status
    <3>1. events' = [events EXCEPT ![e].attempts = 0] /\ 0 \in 0 .. EventAttempts
      BY <2>3 DEF RetryStripeEvent
    <3> QED BY <3>1, <1>t DEF Report
  <2> QED BY <2>1, <2>2, <2>3 DEF Aside, Cancel, CompleteChange
<1>4. faults' \in 0 .. MaxFaults /\ row' \in {"none", "active", "stopping", "ended"}
  BY <1>t DEF Aside, Cancel, CompleteChange, Fail, RetryStripeEvent, reconcileSubscription, Synced,
              ledger
<1>5. bound' \in BOOLEAN
  <2>1. bound' = bound \/ bound' = TRUE
    BY Zenon DEF Aside, Cancel, CompleteChange, Fail, RetryStripeEvent, reconcileSubscription,
         ledger
  <2>2. bound \in BOOLEAN
    BY Zenon DEF Shape, TypeOK
  <2> QED BY <2>1, <2>2, Zenon
<1>6. /\ changes' \in Seq(Change) /\ Len(changes') = Len(changes)
      /\ (changes = <<>> => changes' = <<>>) /\ Billed'
  BY <1>0, <1>1, <1>2, SyncChanges
<1>7. Shape'
  <2>1. \A n \in DOMAIN changes' : changes'[n] \in Change
    BY <1>6
  <2>2. \A w \in Workers : Busy(w)' => hold'[w].attempt <= job'[hold'[w].job].attempts
    BY <1>1 DEF Shape, TypeOK, Busy
  <2> QED BY <1>1, <1>2, <1>3, <1>4, <1>5, <1>6, <1>t, <2>1, <2>2
          DEF Shape, TypeOK, Stripe, Report, Change
<1>8. Lasting
  BY <1>1, <1>2, <1>t DEF Lasting
<1>9. PeriodsBegun' /\ Reported'
  BY <1>1, <1>2, <1>3, <1>6 DEF PeriodsBegun, Reported
<1>10. LedgerInv' /\ OnlyLate' /\ LateGiftsReversed'
  BY <1>1, <1>3, <1>8, LedgerFrame, ReversalFrame
<1>11. WorkersKnow' /\ CompletedWasMade'
  BY <1>1, <1>8, WorkersFrame DEF Lasting
<1> QED BY <1>6, <1>7, <1>9, <1>10, <1>11

\* Claiming, giving back and settling reversals: what is recorded of a reversal
\* and what each worker holds.
Tasks(w) ==
  \/ \E j \in Jobs : ClaimDeletedAccountReversal(w, j)
  \/ Settle(w) \/ Crash(w)

\* Steps on the queue of reversals leave all but the queue alone.
LEMMA QueueInv ==
  ASSUME GiftsAssumption, GiftsInv,
         UNCHANGED <<now, faults, stripe, invoice, refunded, events, donor, row, period, observed,
                     gift, changes>>, bound' = bound,
         job' \in [Jobs -> Task], hold' \in [Workers -> Hold],
         \A w \in Workers :
           /\ Busy(w)' => hold'[w].attempt <= job'[hold'[w].job].attempts
           /\ hold'[w].result # "none" => Busy(w)'
           /\ Busy(w)' => hold'[w].job \in Jobs /\ job'[hold'[w].job].status # "none"
           /\ hold'[w].result = "ok" => Made(hold'[w].job),
         \A j \in Jobs : /\ job'[j].status = "none" <=> job[j].status = "none"
                         /\ job'[j].status = "none" => job'[j] = job[j]
                         /\ job'[j].status = "done" => job[j].status = "done" \/ Made(j)
  PROVE  GiftsInv'
<1> USE DEF GiftsInv
<1>1. Shape'
  <2>1. bound' \in BOOLEAN
    BY Zenon DEF Shape, TypeOK
  <2> QED BY <2>1 DEF Shape, TypeOK, Task
<1>2. PeriodsBegun' /\ Reported'
  BY DEF PeriodsBegun, Reported
<1>3. Billed'
  BY DEF Billed, InForce
<1>4. LedgerInv'
  BY DEF LedgerInv, GiftsMatchCharges, HistoryComplete
<1>5. \A p \in Periods : Refund(p) \in Jobs
  BY DEF Refund, Jobs
<1>6. OnlyLate'
  BY <1>5 DEF OnlyLate, PaidLate
<1>7. LateGiftsReversed'
  BY <1>5 DEF LateGiftsReversed, Refund
<1>8. \A j : Made(j)' <=> Made(j)
  BY DEF Made
<1>9. WorkersKnow'
  BY <1>8 DEF WorkersKnow
<1>10. CompletedWasMade'
  <2>1. \A j \in Jobs : job[j].status = "done" => Made(j)
    BY DEF CompletedWasMade, Made
  <2>2. \A j \in Jobs : job'[j].status = "done" => Made(j)'
    BY <2>1, <1>8
  <2> QED BY <2>2 DEF CompletedWasMade, Made
<1> QED BY <1>1, <1>2, <1>3, <1>4, <1>6, <1>7, <1>9, <1>10

\* Only the step of one reversal: what each of the queue's updates makes of it.
LEMMA TaskUpdates ==
  ASSUME Shape, NEW j \in Jobs
  PROVE  /\ [job EXCEPT ![j].due = TRUE] \in [Jobs -> Task]
         /\ [job EXCEPT ![j].due = FALSE] \in [Jobs -> Task]
         /\ [job EXCEPT ![j].status = "done"] \in [Jobs -> Task]
         /\ \A i \in Jobs :
              /\ i # j => /\ [job EXCEPT ![j].due = TRUE][i] = job[i]
                          /\ [job EXCEPT ![j].due = FALSE][i] = job[i]
                          /\ [job EXCEPT ![j].status = "done"][i] = job[i]
              /\ [job EXCEPT ![j].due = TRUE][i].status = job[i].status
              /\ [job EXCEPT ![j].due = TRUE][i].attempts = job[i].attempts
              /\ [job EXCEPT ![j].due = FALSE][i].status = job[i].status
              /\ [job EXCEPT ![j].due = FALSE][i].attempts = job[i].attempts
              /\ [job EXCEPT ![j].status = "done"][i].attempts = job[i].attempts
         /\ [job EXCEPT ![j].status = "done"][j].status = "done"
<1>t. job \in [Jobs -> Task]
  BY Typed
<1> QED BY <1>t DEF Task

\* The lease or the backoff of a reversal passes.
LEMMA DueInv ==
  ASSUME GiftsAssumption, GiftsInv, NEW j \in Jobs, Due(j)
  PROVE  GiftsInv'
<1> USE DEF GiftsInv
<1>t. hold \in [Workers -> Hold]
  BY Typed
<1>1. /\ job[j].status = "queued" /\ job' = [job EXCEPT ![j].due = TRUE]
      /\ UNCHANGED <<now, faults, stripe, invoice, refunded, events, donor, row, period, observed,
                     gift, changes, hold>>
  BY DEF Due
<1>b. bound' = bound
  BY Zenon DEF Due
<1>2. /\ job' \in [Jobs -> Task]
      /\ \A i \in Jobs : /\ i # j => job'[i] = job[i]
                         /\ job'[i].status = job[i].status /\ job'[i].attempts = job[i].attempts
  BY <1>1, TaskUpdates
<1>3. \A w \in Workers :
        /\ Busy(w)' => hold'[w].attempt <= job'[hold'[w].job].attempts
        /\ hold'[w].result # "none" => Busy(w)'
        /\ Busy(w)' => hold'[w].job \in Jobs /\ job'[hold'[w].job].status # "none"
        /\ hold'[w].result = "ok" => Made(hold'[w].job)
  BY <1>1, <1>2 DEF WorkersKnow, Busy, Shape, TypeOK
<1>4. \A i \in Jobs : /\ job'[i].status = "none" <=> job[i].status = "none"
                      /\ job'[i].status = "none" => job'[i] = job[i]
                      /\ job'[i].status = "done" => job[i].status = "done" \/ Made(i)
  BY <1>1, <1>2
<1>5. hold' \in [Workers -> Hold]
  BY <1>1, <1>t
<1> HIDE DEF GiftsInv
<1> QED BY <1>1, <1>b, <1>2, <1>3, <1>4, <1>5, QueueInv

\* A worker that claims a reversal, gives up or settles what it was told.
LEMMA TasksInv ==
  ASSUME GiftsAssumption, GiftsInv, NEW w \in Workers, Tasks(w)
  PROVE  GiftsInv'
<1> USE DEF GiftsInv
<1>t. hold \in [Workers -> Hold] /\ job \in [Jobs -> Task]
  BY Typed
<1>i. Idle \in Hold /\ Idle.attempt = 0 /\ Idle.result = "none"
  BY Bounds DEF Idle, Hold, NoTask
<1>k. \A v \in Workers :
        /\ hold[v].result # "none" => Busy(v)
        /\ Busy(v) => /\ hold[v].job \in Jobs /\ job[hold[v].job].status # "none"
                      /\ hold[v].attempt <= job[hold[v].job].attempts
        /\ hold[v].result = "ok" => Made(hold[v].job)
  BY DEF WorkersKnow, Busy, Shape, TypeOK
<1>u. /\ UNCHANGED <<now, faults, stripe, invoice, refunded, events, donor, row, period, observed,
                     gift, changes>>
  BY DEF Tasks, ClaimDeletedAccountReversal, Settle, Crash, ledger
<1>b. bound' = bound
  BY Zenon DEF Tasks, ClaimDeletedAccountReversal, Settle, Crash, ledger
<1>1. ASSUME NEW j \in Jobs, ClaimDeletedAccountReversal(w, j)
      PROVE  GiftsInv'
  <2> DEFINE h == [job |-> j, attempt |-> job[j].attempts + 1, result |-> "none"]
  <2>1. /\ job[j].status = "queued" /\ job[j].attempts < ReversalAttempts
        /\ job' = [job EXCEPT ![j].attempts = @ + 1, ![j].due = FALSE]
        /\ hold' = [hold EXCEPT ![w] = h]
    BY <1>1 DEF ClaimDeletedAccountReversal, MayClaim, Leased
  <2>2. job[j].attempts + 1 \in 0 .. ReversalAttempts /\ job[j].attempts \in Nat
    BY <2>1, <1>t, Bounds DEF Task
  <2>3. h \in Hold /\ h.job = j /\ h.attempt = job[j].attempts + 1 /\ h.result = "none"
    BY <2>2 DEF Hold
  <2>4. /\ job' \in [Jobs -> Task]
        /\ job'[j].status = job[j].status /\ job'[j].attempts = job[j].attempts + 1
        /\ \A i \in Jobs : i # j => job'[i] = job[i]
    <3>1. job' = [job EXCEPT ![j] = [job[j] EXCEPT !.attempts = job[j].attempts + 1, !.due = FALSE]]
      BY <2>1, <1>t DEF Task
    <3>2. /\ [job[j] EXCEPT !.attempts = job[j].attempts + 1, !.due = FALSE] \in Task
          /\ [job[j] EXCEPT !.attempts = job[j].attempts + 1, !.due = FALSE].status = job[j].status
          /\ [job[j] EXCEPT !.attempts = job[j].attempts + 1,
               !.due = FALSE].attempts = job[j].attempts + 1
      BY <2>2, <1>t DEF Task
    <3> QED BY <3>1, <3>2, <1>t
  <2> HIDE DEF h
  <2>5. hold' \in [Workers -> Hold] /\ hold'[w] = h /\ \A v \in Workers : v # w =>
          hold'[v] = hold[v]
    BY <2>1, <2>3, <1>t
  <2>6. \A i \in Jobs : /\ job'[i].status = job[i].status
                        /\ job'[i].attempts >= job[i].attempts
                        /\ job[i].attempts \in Nat /\ job'[i].attempts \in Nat
    BY <2>2, <2>4, <1>t, Bounds DEF Task
  <2>7. ASSUME NEW v \in Workers
        PROVE  /\ Busy(v)' => hold'[v].attempt <= job'[hold'[v].job].attempts
               /\ hold'[v].result # "none" => Busy(v)'
               /\ Busy(v)' => hold'[v].job \in Jobs /\ job'[hold'[v].job].status # "none"
               /\ hold'[v].result = "ok" => Made(hold'[v].job)
    <3>1. CASE v = w
      BY <3>1, <2>1, <2>2, <2>3, <2>4, <2>5
    <3>2. CASE v # w
      <4>1. hold'[v] = hold[v] /\ (Busy(v)' <=> Busy(v)) /\ hold[v].attempt \in Nat
        BY <3>2, <2>5, <1>t, Bounds DEF Busy, Hold
      <4> QED BY <4>1, <2>6, <1>k
    <3> QED BY <3>1, <3>2
  <2>8. \A i \in Jobs : /\ job'[i].status = "none" <=> job[i].status = "none"
                        /\ job'[i].status = "none" => job'[i] = job[i]
                        /\ job'[i].status = "done" => job[i].status = "done" \/ Made(i)
    BY <2>1, <2>4
  <2> HIDE DEF GiftsInv
  <2> QED BY <1>u, <1>b, <2>4, <2>5, <2>7, <2>8, QueueInv
<1>2. CASE Settle(w)
  <2> DEFINE j == hold[w].job
  <2>1. /\ hold[w].result # "none" /\ hold' = [hold EXCEPT ![w] = Idle]
        /\ job' = IF hold[w].result = "ok" THEN [job EXCEPT ![j].status = "done"]
                  ELSE [job EXCEPT ![j].due = FALSE]
    BY <1>2 DEF Settle, CompleteDeletedAccountReversal, FailDeletedAccountReversal
  <2>2. j \in Jobs /\ job[j].status # "none" /\ (hold[w].result = "ok" => Made(j))
    BY <2>1, <1>k
  <2> HIDE DEF j
  <2>3. /\ job' \in [Jobs -> Task]
        /\ \A i \in Jobs : /\ i # j => job'[i] = job[i]
                           /\ job'[i].attempts = job[i].attempts
        /\ job'[j].status = job[j].status \/ (job'[j].status = "done" /\ Made(j))
    BY <2>1, <2>2, TaskUpdates
  <2>4. hold' \in [Workers -> Hold] /\ hold'[w] = Idle /\ \A v \in Workers : v # w =>
          hold'[v] = hold[v]
    BY <2>1, <1>i, <1>t
  <2>5. ASSUME NEW v \in Workers
        PROVE  /\ Busy(v)' => hold'[v].attempt <= job'[hold'[v].job].attempts
               /\ hold'[v].result # "none" => Busy(v)'
               /\ Busy(v)' => hold'[v].job \in Jobs /\ job'[hold'[v].job].status # "none"
               /\ hold'[v].result = "ok" => Made(hold'[v].job)
    <3>1. CASE v = w
      BY <3>1, <2>4, <1>i DEF Busy
    <3>2. CASE v # w
      <4>1. hold'[v] = hold[v] /\ (Busy(v)' <=> Busy(v))
        BY <3>2, <2>4 DEF Busy
      <4> QED BY <4>1, <2>2, <2>3, <1>k
    <3> QED BY <3>1, <3>2
  <2>6. \A i \in Jobs : /\ job'[i].status = "none" <=> job[i].status = "none"
                        /\ job'[i].status = "none" => job'[i] = job[i]
                        /\ job'[i].status = "done" => job[i].status = "done" \/ Made(i)
    BY <2>2, <2>3
  <2> HIDE DEF GiftsInv
  <2> QED BY <1>u, <1>b, <2>3, <2>4, <2>5, <2>6, QueueInv
<1>3. CASE Crash(w)
  <2>1. hold' = [hold EXCEPT ![w] = Idle] /\ job' = job
    BY <1>3 DEF Crash, ledger
  <2>4. hold' \in [Workers -> Hold] /\ hold'[w] = Idle /\ \A v \in Workers : v # w =>
          hold'[v] = hold[v]
    BY <2>1, <1>i, <1>t
  <2>5. ASSUME NEW v \in Workers
        PROVE  /\ Busy(v)' => hold'[v].attempt <= job'[hold'[v].job].attempts
               /\ hold'[v].result # "none" => Busy(v)'
               /\ Busy(v)' => hold'[v].job \in Jobs /\ job'[hold'[v].job].status # "none"
               /\ hold'[v].result = "ok" => Made(hold'[v].job)
    <3>1. CASE v = w
      BY <3>1, <2>4, <1>i DEF Busy
    <3>2. CASE v # w
      <4>1. hold'[v] = hold[v] /\ (Busy(v)' <=> Busy(v))
        BY <3>2, <2>4 DEF Busy
      <4> QED BY <4>1, <2>1, <1>k
    <3> QED BY <3>1, <3>2
  <2>6. \A i \in Jobs : /\ job'[i].status = "none" <=> job[i].status = "none"
                        /\ job'[i].status = "none" => job'[i] = job[i]
                        /\ job'[i].status = "done" => job[i].status = "done" \/ Made(i)
    BY <2>1
  <2> HIDE DEF GiftsInv
  <2> QED BY <1>u, <1>b, <1>t, <2>1, <2>4, <2>5, <2>6, QueueInv
<1> QED BY <1>1, <1>2, <1>3 DEF Tasks

\* What a call of the processor changes: at most its own payment or the
\* subscription, and only what the answer says.
Calls(w) ==
  /\ refunded' \in [Periods -> {0, 1}]
  /\ \A p \in Periods : refunded'[p] = refunded[p] \/ (refunded'[p] = 1 /\ hold[w].job = Refund(p))
  /\ \/ UNCHANGED <<stripe, events>>
     \/ /\ stripe.status # "none"
        /\ stripe' = [stripe EXCEPT !.status = "canceled"]
        /\ events' = Sent(EndEvent)
  /\ \E r \in {"ok", "failed"} : /\ hold' = [hold EXCEPT ![w].result = r]
                                 /\ r = "ok" => Made(hold[w].job)'
  /\ UNCHANGED <<now, faults, invoice, donor, row, period, observed, gift, job, changes>>

\* A call is one of the two: a repeated refund is never refused, because every
\* attempt sends the same key, and a cancellation is answered with what it did.
LEMMA ReverseIs ==
  ASSUME GiftsAssumption, GiftsInv, NEW w \in Workers, reverse(w), stripe.status # "none"
  PROVE  Calls(w)
<1> USE DEF GiftsInv
<1>t. /\ refunded \in [Periods -> {0, 1}] /\ stripe \in Stripe /\ hold \in [Workers -> Hold]
  BY Typed DEF OnlyLate
<1>j. hold[w].job \in Jobs
  BY DEF reverse, WorkersKnow
<1>u. UNCHANGED <<now, faults, invoice, donor, row, period, observed, gift, job, changes>>
  BY DEF reverse, ledger
<1>1. CASE RefundAfterDeletion(w)
  <2> DEFINE p == hold[w].job.target
  <2>1. hold[w].job.kind = "REFUND" /\ UNCHANGED <<stripe, events>>
    BY <1>1 DEF RefundAfterDeletion
  <2>2. p \in Periods /\ hold[w].job = Refund(p)
    BY <1>j, <2>1 DEF Jobs, Refund
  <2>3. \/ hold' = [hold EXCEPT ![w].result = "failed"] /\ UNCHANGED refunded
        \/ /\ refunded' = [refunded EXCEPT ![p] = 1]
           /\ \E r \in {"ok", "failed"} : hold' = [hold EXCEPT ![w].result = r]
    BY <1>1, <1>t, <2>2 DEF RefundAfterDeletion, RefundKey, Answered
  <2>m. Made(hold[w].job)' <=> refunded'[p] # 0
    <3>1. hold'[w].job = hold[w].job
      BY <2>3, <1>t DEF Hold
    <3> QED BY <2>1, <3>1 DEF Made
  <2> HIDE DEF p
  <2>4. CASE hold' = [hold EXCEPT ![w].result = "failed"] /\ UNCHANGED refunded
    BY <2>4, <2>1, <1>t, <1>u DEF Calls
  <2>5. CASE /\ refunded' = [refunded EXCEPT ![p] = 1]
             /\ \E r \in {"ok", "failed"} : hold' = [hold EXCEPT ![w].result = r]
    <3>1. /\ refunded' \in [Periods -> {0, 1}] /\ refunded'[p] = 1
          /\ \A q \in Periods : refunded'[q] = refunded[q] \/ (refunded'[q] = 1 /\ q = p)
      BY <2>5, <2>2, <1>t
    <3>2. Made(hold[w].job)'
      BY <2>m, <3>1
    <3>3. \E r \in {"ok", "failed"} : /\ hold' = [hold EXCEPT ![w].result = r]
                                      /\ r = "ok" => Made(hold[w].job)'
      BY <2>5, <3>2
    <3>4. \A q \in Periods : refunded'[q] = refunded[q]
            \/ (refunded'[q] = 1 /\ hold[w].job = Refund(q))
      BY <2>2, <3>1
    <3> QED BY <2>1, <3>1, <3>3, <3>4, <1>u DEF Calls
  <2> QED BY <2>3, <2>4, <2>5
<1>2. CASE CancelSubscriptionNow(w)
  <2>1. /\ hold[w].job.kind = "CANCEL" /\ UNCHANGED refunded
        /\ \/ UNCHANGED <<stripe, events>>
           \/ stripe' = [stripe EXCEPT !.status = "canceled"] /\ events' = Sent(EndEvent)
        /\ \/ stripe' # stripe /\ hold' = [hold EXCEPT ![w].result = "ok"]
           \/ Terminal(stripe'.status) /\ hold' = [hold EXCEPT ![w].result = "ok"]
           \/ hold' = [hold EXCEPT ![w].result = "failed"]
    BY <1>2 DEF CancelSubscriptionNow, Answered, EndedAtProcessor
  <2>2. stripe' # stripe => Terminal(stripe'.status)
    BY <2>1, <1>t DEF Terminal, Stripe
  <2>m. Made(hold[w].job)' <=> Terminal(stripe'.status)
    <3>1. hold'[w].job = hold[w].job
      BY <2>1, <1>t DEF Hold
    <3> QED BY <2>1, <3>1 DEF Made
  <2> QED BY <2>1, <2>2, <2>m, <1>t, <1>u DEF Calls
<1> QED BY <1>1, <1>2 DEF reverse

\* A call leaves the records it does not make as they are.
LEMMA CallsInv ==
  ASSUME GiftsAssumption, GiftsInv, NEW w \in Workers, Busy(w), Calls(w), bound' = bound
  PROVE  GiftsInv'
<1> USE Bounds DEF GiftsInv
<1>t. /\ now \in 1 .. Horizon /\ stripe \in Stripe /\ events \in [Events -> Report]
      /\ hold \in [Workers -> Hold] /\ refunded \in [Periods -> Nat] /\ now \in Int
  BY Typed
<1>u. UNCHANGED <<now, faults, invoice, donor, row, period, observed, gift, job, changes>>
  BY DEF Calls
<1>1. /\ stripe' \in Stripe /\ stripe'.period = stripe.period /\ stripe'.price = stripe.price
      /\ stripe'.status = "none" <=> stripe.status = "none"
      /\ Terminal(stripe.status) => Terminal(stripe'.status)
  <2>1. CASE stripe' = stripe
    BY <2>1, <1>t
  <2>2. CASE stripe.status # "none" /\ stripe' = [stripe EXCEPT !.status = "canceled"]
    <3>1. /\ stripe' \in Stripe /\ stripe'.period = stripe.period /\ stripe'.price = stripe.price
          /\ stripe'.status = "canceled"
      BY <2>2, <1>t DEF Stripe
    <3> QED BY <2>2, <3>1 DEF Terminal
  <2> QED BY <2>1, <2>2 DEF Calls
<1>2. /\ events' \in [Events -> Report]
      /\ \A e \in Events : /\ events'[e].status = "done" <=> events[e].status = "done"
                           /\ e.kind # "sub" => events'[e].status = events[e].status
  <2>1. CASE events' = events
    BY <2>1, <1>t
  <2>2. CASE events' = Sent(EndEvent)
    <3>1. \A e \in EndEvent : e.kind = "sub"
      BY DEF EndEvent
    <3>2. /\ Sent(EndEvent) \in [Events -> Report]
          /\ \A e \in Events : /\ \/ Sent(EndEvent)[e].status = events[e].status
                                  \/ e \in EndEvent /\ Sent(EndEvent)[e].status = "sent"
                               /\ Sent(EndEvent)[e].status = "done" <=> events[e].status = "done"
      BY <1>t, SentIs
    <3> QED BY <2>2, <3>1, <3>2
  <2> QED BY <2>1, <2>2 DEF Calls
<1>3. PICK r \in {"ok", "failed"} : /\ hold' = [hold EXCEPT ![w].result = r]
                                    /\ r = "ok" => Made(hold[w].job)'
  BY DEF Calls
<1>4. /\ hold' \in [Workers -> Hold] /\ hold'[w].result = r
      /\ \A v \in Workers : /\ v # w => hold'[v] = hold[v]
                            /\ hold'[v].job = hold[v].job /\ hold'[v].attempt = hold[v].attempt
  BY <1>3, <1>t DEF Hold
<1>5. \A v \in Workers : Busy(v)' <=> Busy(v)
  BY <1>4 DEF Busy
<1>6. refunded' \in [Periods -> Nat] /\ \A p \in Periods : refunded'[p] \in {0, 1}
  BY DEF Calls
<1>7. Shape'
  <2>1. bound' \in BOOLEAN
    BY Zenon DEF Shape, TypeOK
  <2>2. \A v \in Workers : Busy(v)' => hold'[v].attempt <= job'[hold'[v].job].attempts
    BY <1>4, <1>5, <1>u DEF Shape, TypeOK
  <2> QED BY <1>u, <1>1, <1>2, <1>4, <1>6, <2>1, <2>2 DEF Shape, TypeOK, Stripe, Report
<1>8. Lasting
  BY <1>u, <1>1, <1>t DEF Lasting
<1>9. PeriodsBegun' /\ Reported'
  <2>1. PeriodsBegun'
    BY <1>u, <1>1 DEF PeriodsBegun
  <2>2. Reported'
    BY <1>u, <1>2 DEF Reported
  <2> QED BY <2>1, <2>2
<1>10. Billed'
  BY <1>u, <1>1, BilledFrame
<1>11. LedgerInv'
  BY <1>u, <1>2, <1>8, LedgerFrame
<1>12. OnlyLate' /\ LateGiftsReversed'
  <2>1. OnlyLate'
    BY <1>u, <1>6 DEF OnlyLate, PaidLate
  <2>2. \A p \in Periods : refunded'[p] # 0 => PaidLate(p)
    <3> SUFFICES ASSUME NEW p \in Periods, refunded'[p] # 0 PROVE PaidLate(p)
      OBVIOUS
    <3>1. CASE refunded[p] # 0
      BY <3>1 DEF LateGiftsReversed, PaidLate
    <3>2. CASE hold[w].job = Refund(p)
      BY <3>2 DEF WorkersKnow, OnlyLate
    <3> QED BY <3>1, <3>2 DEF Calls
  <2>3. LateGiftsReversed'
    BY <1>u, <2>2 DEF LateGiftsReversed, PaidLate
  <2> QED BY <2>1, <2>3
<1>13. \A j \in Jobs : Made(j) => Made(j)'
  <2>1. \A p \in Periods : refunded[p] # 0 => refunded'[p] # 0
    BY DEF Calls
  <2>2. \A j \in Jobs : j.kind = "REFUND" => j.target \in Periods
    BY DEF Jobs
  <2> QED BY <1>1, <2>1, <2>2 DEF Made
<1>14. CompletedWasMade'
  <2>1. \A j \in Jobs : job[j].status = "done" => Made(j)
    BY DEF CompletedWasMade, Made
  <2>2. \A j \in Jobs : job'[j].status = "done" => Made(j)'
    BY <2>1, <1>13, <1>u
  <2> QED BY <2>2 DEF CompletedWasMade, Made
<1>15. WorkersKnow'
  <2> SUFFICES ASSUME NEW v \in Workers
               PROVE  /\ hold'[v].result # "none" => Busy(v)'
                      /\ Busy(v)' => hold'[v].job \in Jobs /\ job'[hold'[v].job].status # "none"
                      /\ hold'[v].result = "ok" => Made(hold[v].job)'
    BY DEF WorkersKnow
  <2>1. CASE v = w
    BY <2>1, <1>3, <1>4, <1>5, <1>u DEF WorkersKnow
  <2>2. CASE v # w
    BY <2>2, <1>4, <1>5, <1>13, <1>u DEF WorkersKnow
  <2> QED BY <2>1, <2>2
<1> QED BY <1>7, <1>9, <1>10, <1>11, <1>12, <1>14, <1>15

\* The steps, by what they move.
LEMMA NextIs ==
  ASSUME [Next]_vars
  PROVE  \/ Outside \/ Aside \/ UNCHANGED vars
         \/ \E e \in Events : ProcessNext(e)
         \/ \E j \in Jobs : Due(j)
         \/ \E w \in Workers : Tasks(w) \/ reverse(w)
BY DEF Next, Outside, Aside, Tasks

\* Events are sent, and reversals queued, only once the checkout was paid.
LEMMA NothingStep ==
  ASSUME GiftsAssumption, GiftsInv, NothingBefore, [Next]_vars
  PROVE  NothingBefore'
<1> USE DEF GiftsInv
<1>t. stripe \in Stripe /\ events \in [Events -> Report] /\ hold \in [Workers -> Hold]
  BY Typed
<1>s. \/ stripe' = stripe
      \/ \E st \in {"active", "past_due", "canceled"} : stripe' = [stripe EXCEPT !.status = st]
      \/ stripe' = [stripe EXCEPT !.status = "active", !.period = 1]
      \/ stripe' = [stripe EXCEPT !.period = @ + 1]
      \/ stripe' = [stripe EXCEPT !.price = Len(changes)]
      \/ stripe' = [stripe EXCEPT !.stops = TRUE]
  <2>1. CASE UNCHANGED vars
    BY <2>1 DEF vars
  <2>2. CASE Outside
    BY <2>2 DEF Outside, Subscribe, Renew, insertAmountChange, ChangeMonthlyAmount, ClaimAccount,
                DeleteAccount, Tick, CollectFails, Collect
  <2>3. CASE Aside
    BY <2>3 DEF Aside, Cancel, CompleteChange, Fail, RetryStripeEvent
  <2>4. ASSUME NEW w \in Workers, Tasks(w) \/ reverse(w)
        PROVE  stripe' = stripe \/ stripe' = [stripe EXCEPT !.status = "canceled"]
    BY <2>4 DEF Tasks, ClaimDeletedAccountReversal, Settle, Crash, reverse, RefundAfterDeletion,
                CancelSubscriptionNow
  <2>5. ASSUME (\E e \in Events : ProcessNext(e)) \/ (\E j \in Jobs : Due(j))
        PROVE  stripe' = stripe
    BY <2>5 DEF ProcessNext, Due
  <2> QED BY <2>1, <2>2, <2>3, <2>4, <2>5, NextIs
<1>1. stripe'.status = "none" => stripe.status = "none"
  BY <1>s, <1>t DEF Stripe
<1> SUFFICES ASSUME stripe.status = "none", stripe'.status = "none"
             PROVE  UNCHANGED <<events, job>>
  BY <1>1 DEF NothingBefore
<1>2. /\ \A e \in Events : events[e].status = "none"
      /\ \A j \in Jobs : job[j].status = "none"
  BY DEF NothingBefore
<1>3. \A p \in Periods : invoice[p].status = "none"
  <2>1. stripe.period = 0
    BY DEF PeriodsBegun
  <2> QED BY <2>1, Bounds DEF PeriodsBegun, Periods
<1>4. \A w \in Workers : ~Busy(w) /\ hold[w].result = "none"
  BY <1>2 DEF WorkersKnow
<1>5. ~Subscribe
  <2> SUFFICES ASSUME stripe' = [stripe EXCEPT !.status = "active", !.period = 1] PROVE FALSE
    BY DEF Subscribe
  <2> QED BY <1>t DEF Stripe
<1>6. changes = <<>>
  BY DEF PeriodsBegun
<1>7. CASE UNCHANGED vars
  BY <1>7 DEF vars, ledger
<1>8. CASE Outside
  BY <1>3, <1>5, <1>6, <1>8 DEF Outside, Renew, insertAmountChange, ChangeMonthlyAmount,
       LatestPending,
     ClaimAccount, DeleteAccount, Tick, CollectFails, Collect, ledger
<1>9. CASE Aside
  BY <1>2, <1>9 DEF Aside, Cancel, CompleteChange, Fail, Claimable, RetryStripeEvent
<1>10. ~\E w \in Workers : Tasks(w) \/ reverse(w)
  BY <1>2, <1>4 DEF Tasks, ClaimDeletedAccountReversal, MayClaim, Settle, Crash, reverse
<1>11. ~(\E e \in Events : ProcessNext(e)) /\ ~(\E j \in Jobs : Due(j))
  BY <1>2 DEF ProcessNext, Claimable, Due
<1> QED BY <1>7, <1>8, <1>9, <1>10, <1>11, NextIs

(***************************************************************************)
(* The invariant holds from the initial state on.                          *)
(***************************************************************************)

\* Before the first step there is nothing to reconcile.
LEMMA InitInv == ASSUME GiftsAssumption, Init PROVE GiftsInv /\ NothingBefore
<1>1. Shape
  BY InitShape
<1>2. /\ stripe.status = "none" /\ stripe.period = 0 /\ stripe.price = 0 /\ changes = <<>>
      /\ \A p \in Periods : /\ invoice[p].status = "none" /\ gift[p].amount = -1
                            /\ period[p] = "none" /\ refunded[p] = 0
      /\ \A e \in Events : events[e].status = "none"
      /\ \A j \in Jobs : job[j] = NoJob /\ job[j].status = "none"
      /\ \A w \in Workers : hold[w].attempt = 0 /\ hold[w].result = "none"
  BY DEF Init, NoInvoice, NoGift, NoJob, Idle
<1>3. PeriodsBegun /\ Reported /\ LedgerInv /\ NothingBefore
  BY <1>2 DEF PeriodsBegun, Reported, LedgerInv, GiftsMatchCharges, HistoryComplete, NothingBefore
<1>4. Billed
  <2>1. Len(changes) = 0
    BY <1>2
  <2> QED BY <1>2, <2>1 DEF Billed
<1>5. \A p \in Periods : Refund(p) \in Jobs
  BY DEF Refund, Jobs
<1>6. OnlyLate /\ LateGiftsReversed
  BY <1>2, <1>5 DEF OnlyLate, LateGiftsReversed
<1>7. WorkersKnow /\ CompletedWasMade
  BY <1>2 DEF WorkersKnow, Busy, CompletedWasMade
<1> QED BY <1>1, <1>3, <1>4, <1>6, <1>7 DEF GiftsInv

\* Nothing changes when nothing happens.
LEMMA StutterInv == ASSUME GiftsInv, UNCHANGED vars PROVE GiftsInv'
<1> USE DEF GiftsInv
<1>1. /\ UNCHANGED <<now, faults, stripe, invoice, refunded, events, donor, row, changes, period,
                     observed, gift, job, hold>>
  BY DEF vars, ledger
<1>2. bound' = bound
  BY Zenon DEF vars, ledger
<1>3. Shape'
  <2>1. bound' \in BOOLEAN
    BY <1>2, Zenon DEF Shape, TypeOK
  <2> QED BY <1>1, <2>1 DEF Shape, TypeOK, Busy
<1>4. PeriodsBegun' /\ Reported' /\ LedgerInv'
  BY <1>1 DEF PeriodsBegun, Reported, LedgerInv, GiftsMatchCharges, HistoryComplete
<1>5. Billed'
  BY <1>1 DEF Billed, InForce
<1>6. OnlyLate' /\ LateGiftsReversed'
  BY <1>1, ReversalFrame
<1>7. WorkersKnow' /\ CompletedWasMade'
  BY <1>1, WorkersFrame
<1> QED BY <1>3, <1>4, <1>5, <1>6, <1>7

\* Every step keeps the invariant.
LEMMA GiftsStep ==
  ASSUME GiftsAssumption, GiftsInv, NothingBefore, [Next]_vars
  PROVE  GiftsInv' /\ NothingBefore'
<1>1. CASE Outside
  BY <1>1, OutsideInv, NothingStep
<1>2. CASE Aside
  BY <1>2, AsideInv, NothingStep
<1>3. ASSUME NEW e \in Events, ProcessNext(e) PROVE GiftsInv'
  BY <1>3, AppliesInv
<1>4. ASSUME NEW j \in Jobs, Due(j) PROVE GiftsInv'
  BY <1>4, DueInv
<1>5. ASSUME NEW w \in Workers, Tasks(w) PROVE GiftsInv'
  BY <1>5, TasksInv
<1>6. ASSUME NEW w \in Workers, reverse(w) PROVE GiftsInv'
  <2>1. Busy(w)
    BY <1>6 DEF reverse
  <2>2. stripe.status # "none"
    BY <2>1 DEF NothingBefore, GiftsInv, WorkersKnow
  <2>3. bound' = bound
    BY <1>6, Zenon DEF reverse, ledger
  <2> QED BY <1>6, <2>1, <2>2, <2>3, ReverseIs, CallsInv
<1>7. CASE UNCHANGED vars
  BY <1>7, StutterInv, NothingStep
<1>8. GiftsInv'
  BY <1>1, <1>2, <1>3, <1>4, <1>5, <1>6, <1>7, NextIs
<1> QED BY <1>8, NothingStep

\* The shape of the state and the facts the properties follow from hold in
\* every state.
THEOREM GiftsInvariant == ASSUME GiftsAssumption PROVE Spec => []GiftsInv
<1> DEFINE I == GiftsInv /\ NothingBefore
<1>1. Init => I
  BY InitInv
<1>2. I /\ [Next]_vars => I'
  BY GiftsStep
<1>3. I => GiftsInv
  OBVIOUS
<1> HIDE DEF I
<1> QED BY <1>1, <1>2, <1>3, PTL DEF Spec

\* Gifts keeps its shape: no counter of attempts, faults or mails leaves its
\* range, whatever the events and the workers do.
THEOREM GiftsTypeCorrect == ASSUME GiftsAssumption PROVE Spec => []TypeOK
<1>1. GiftsInv => TypeOK
  BY DEF GiftsInv, Shape
<1> QED BY <1>1, GiftsInvariant, PTL

\* The ledger has a gift for a period exactly when it has the period as paid,
\* and then it is what the processor collected, and when (recordPeriod,
\* recordGift), however late, repeated and out of order the events came.
THEOREM GiftsMatch == ASSUME GiftsAssumption PROVE Spec => []GiftsMatchCharges
<1>1. GiftsInv => GiftsMatchCharges
  BY DEF GiftsInv, LedgerInv
<1> QED BY <1>1, GiftsInvariant, PTL

\* Every applied invoice event has its own line in the billing history
\* (InsertBillingObservation).
THEOREM HistoryKept == ASSUME GiftsAssumption PROVE Spec => []HistoryComplete
<1>1. GiftsInv => HistoryComplete
  BY DEF GiftsInv, LedgerInv
<1> QED BY <1>1, GiftsInvariant, PTL

\* What a deleted account gets back is what was taken after the deletion:
\* every such payment is queued for refund with its gift and no other is
\* refunded, no retry of a refund is refused, and a reversal recorded as
\* completed was made (deleted_account_reversals.go).
THEOREM ReversalsTrue == ASSUME GiftsAssumption PROVE Spec => []ReversalsExact
<1>1. GiftsInv => ReversalsExact
  <2> SUFFICES ASSUME GiftsInv PROVE ReversalsExact
    OBVIOUS
  <2>1. hold \in [Workers -> Hold]
    BY Typed DEF GiftsInv
  <2>2. RetryIsSameRequest
    BY <2>1 DEF RetryIsSameRequest, Hold
  <2> QED BY <2>2 DEF GiftsInv, ReversalsExact
<1> QED BY <1>1, GiftsInvariant, PTL

\* The changes that are confirmed once the processor was asked are the ones in
\* force there.
LEMMA AcceptedAmount ==
  ASSUME GiftsInv, NEW p \in Periods, invoice[p].status # "none"
  PROVE  invoice[p].amount = InvoiceAmountChange(IF LatestPending THEN Confirmed ELSE changes, p)
<1> USE DEF GiftsInv
<1> DEFINE n == Len(changes)
           made == IF LatestPending THEN Confirmed ELSE changes
<1>t. /\ changes \in Seq(Change) /\ n \in Nat /\ stripe.price \in Nat
      /\ \A i \in 1 .. n : changes[i] \in Change
  <2>1. changes \in Seq(Change) /\ stripe \in Stripe
    BY Typed
  <2>2. stripe.price \in Nat
    BY <2>1 DEF Stripe, Amounts
  <2> QED BY <2>1, <2>2
<1>b. /\ \A i \in 1 .. n : /\ i < n => changes[i].confirmed
                           /\ changes[i].confirmed => i =< stripe.price
      /\ stripe.price = n \/ stripe.price = n - 1
  BY DEF Billed
<1>e. changes = <<>> <=> n = 0
  BY <1>t
<1>1. /\ DOMAIN made = 1 .. n
      /\ \A i \in 1 .. n : /\ made[i].effective = changes[i].effective
                           /\ made[i].confirmed <=> i =< stripe.price
  <2>1. CASE LatestPending /\ stripe.price = n
    <3>1. changes # <<>> /\ n \in 1 .. n
      BY <2>1, <1>e, <1>t DEF LatestPending
    <3>2. made = [changes EXCEPT ![n].confirmed = TRUE]
      BY <2>1, <3>1 DEF Confirmed
    <3> DEFINE c == [changes[n] EXCEPT !.confirmed = TRUE]
    <3>3. c \in Change /\ c.effective = changes[n].effective /\ c.confirmed
      BY <3>1, <1>t DEF Change
    <3>4. made = [changes EXCEPT ![n] = c]
      BY <3>1, <3>2, <1>t DEF Change
    <3> HIDE DEF made, c
    <3>5. /\ made \in Seq(Change) /\ Len(made) = n /\ made[n] = c
          /\ \A i \in 1 .. n : i # n => made[i] = changes[i]
      BY <3>1, <3>3, <3>4, <1>t
    <3>6. \A i \in 1 .. n : (i < n \/ i = n) /\ i =< stripe.price
      BY <2>1, <1>t
    <3>7. \A i \in 1 .. n : made[i].confirmed /\ made[i].effective = changes[i].effective
      <4> SUFFICES ASSUME NEW i \in 1 .. n
                   PROVE  made[i].confirmed /\ made[i].effective = changes[i].effective
        OBVIOUS
      <4>1. CASE i = n
        BY <4>1, <3>3, <3>5
      <4>2. CASE i # n
        BY <4>2, <3>5, <3>6, <1>b
      <4> QED BY <4>1, <4>2
    <3>8. DOMAIN made = 1 .. n
      BY <3>5
    <3> QED BY <3>6, <3>7, <3>8
  <2>2. CASE LatestPending /\ stripe.price # n
    <3>1. made = changes /\ ~changes[n].confirmed
      BY <2>2 DEF Confirmed, LatestPending
    <3>2. stripe.price = n - 1
      BY <2>2, <1>b
    <3> HIDE DEF made
    <3>3. \A i \in 1 .. n : /\ i < n <=> i =< stripe.price
                            /\ i < n \/ i = n
      BY <3>2, <1>t
    <3> QED BY <3>1, <3>3, <1>b, <1>t
  <2>3. CASE ~LatestPending
    <3>1. made = changes
      BY <2>3
    <3>2. n = 0 \/ changes[n].confirmed
      BY <2>3, <1>e DEF LatestPending
    <3> HIDE DEF made
    <3>3. stripe.price = n
      <4>1. CASE n = 0
        BY <4>1, <1>b, <1>t
      <4>2. CASE n # 0 /\ changes[n].confirmed
        <5>1. n \in 1 .. n
          BY <4>2, <1>t
        <5>2. n =< stripe.price
          BY <4>2, <5>1, <1>b
        <5> QED BY <5>2, <1>b, <1>t
      <4> QED BY <3>2, <4>1, <4>2
    <3>4. \A i \in 1 .. n : (i < n \/ i = n) /\ i =< stripe.price
      BY <3>3, <1>t
    <3>5. \A i \in 1 .. n : changes[i].confirmed
      <4> SUFFICES ASSUME NEW i \in 1 .. n PROVE changes[i].confirmed
        OBVIOUS
      <4>1. n # 0
        BY <1>t
      <4> QED BY <4>1, <3>2, <3>4, <1>b
    <3>6. DOMAIN changes = 1 .. n
      BY <1>t
    <3> QED BY <3>1, <3>4, <3>5, <3>6
  <2> QED BY <2>1, <2>2, <2>3
<1> HIDE DEF made
<1>2. stripe.price =< n
  BY <1>b, <1>t
<1>3. {i \in DOMAIN made : made[i].confirmed /\ made[i].effective <= p}
        = {i \in 1 .. stripe.price : changes[i].effective =< p}
  <2>1. \A i : i \in 1 .. stripe.price <=> i \in 1 .. n /\ i =< stripe.price
    BY <1>2, <1>t
  <2> QED BY <1>1, <2>1
<1>4. InvoiceAmountChange(made, p) = Max(InForce(p))
  BY <1>3 DEF InvoiceAmountChange, InForce
<1> QED BY <1>4 DEF Billed, made

\* No event is refused for its amount: an invoice's event finds the change that
\* was in force when its period began (invoiceAmount), and the subscription's
\* price can be reconciled, unless a change that ran missed its renewal.
THEOREM ChargesFound == ASSUME GiftsAssumption PROVE Spec => []ChargesAccepted
<1>1. GiftsInv => ChargesAccepted
  <2> SUFFICES ASSUME GiftsInv, NEW e \in Events, events[e].status = "sent", ~MissedRenewal
               PROVE  Accepted(e)
    BY DEF ChargesAccepted
  <2> USE DEF GiftsInv
  <2> DEFINE n == Len(changes)
  <2>t. /\ changes \in Seq(Change) /\ n \in Nat /\ stripe.price \in Nat /\ stripe.period \in Nat
        /\ \A i \in 1 .. n : changes[i].effective \in Nat
    <3>1. changes \in Seq(Change) /\ stripe \in Stripe
      BY Typed
    <3>2. stripe.price \in Nat /\ stripe.period \in Nat
      BY <3>1 DEF Stripe, Amounts
    <3>3. \A c \in Change : c.effective \in Nat
      BY DEF Change
    <3> QED BY <3>1, <3>2, <3>3
  <2>1. Reconcilable
    <3>1. CASE changes = <<>>
      <4>1. n = 0
        BY <3>1
      <4>2. stripe.price = 0
        BY <4>1, <2>t DEF Billed
      <4> QED BY <3>1, <4>2 DEF Reconcilable
    <3>2. CASE changes # <<>>
      <4>1. n \in 1 .. n
        BY <3>2, <2>t
      <4>2. /\ stripe.price = n \/ stripe.price = n - 1
            /\ changes[n].effective =< stripe.period + 1
            /\ changes[n].confirmed => n =< stripe.price
        BY <4>1 DEF Billed
      <4>3. ASSUME stripe.price = n, ~changes[n].confirmed PROVE changes[n].effective = stripe.period + 1
        <5>1. ~(stripe.period >= changes[n].effective)
          BY <3>2, <4>3 DEF MissedRenewal, LatestPending
        <5> QED BY <4>1, <4>2, <5>1, <2>t
      <4>4. stripe.price = n - 1 => ~changes[n].confirmed
        BY <4>2, <2>t
      <4> QED BY <3>2, <4>2, <4>3, <4>4 DEF Reconcilable
    <3> QED BY <3>1, <3>2
  <2>2. ASSUME e.kind # "sub"
        PROVE  invoice[e.of].amount = InvoiceAmountChange(IF LatestPending THEN Confirmed ELSE changes, e.of)
    <3>1. e.of \in Periods
      BY <2>2 DEF Events
    <3>2. invoice[e.of].status # "none"
      BY <2>2 DEF Reported
    <3> HIDE DEF GiftsInv
    <3> QED BY <3>1, <3>2, AcceptedAmount
  <2> QED BY <2>1, <2>2 DEF Accepted
<1> QED BY <1>1, GiftsInvariant, PTL

\* The three together: the ledger has exactly what the processor collected, its
\* history is complete, and no event is refused for its amount (worker.go).
THEOREM LedgerTrue == ASSUME GiftsAssumption PROVE Spec => []LedgerMatchesCharges
<1>1. GiftsMatchCharges /\ HistoryComplete /\ ChargesAccepted => LedgerMatchesCharges
  BY DEF LedgerMatchesCharges
<1> QED BY <1>1, GiftsMatch, HistoryKept, ChargesFound, PTL

-----------------------------------------------------------------------------
(***************************************************************************)
(* The whole. A behaviour of it is a behaviour of each component, whose    *)
(* proofs are instantiated with the constants the component has here.      *)
(***************************************************************************)
StaffProved == INSTANCE RefundsProofs WITH
  Commands <- StaffRefunds.Commands, Dashboard <- StaffRefunds.Dashboard,
  Amount <- StaffRefunds.Amount, GiftAmount <- StaffRefunds.GiftAmount,
  Requests <- StaffRefunds.Requests, Workers <- StaffRefunds.Workers,
  MaxAttempts <- StaffRefunds.MaxAttempts, RetryCap <- StaffRefunds.RetryCap,
  Window <- StaffRefunds.Window, RequestTime <- StaffRefunds.RequestTime,
  KeyLife <- StaffRefunds.KeyLife, Horizon <- StaffRefunds.Horizon, Late <- StaffRefunds.Late,
  MaxTime <- StaffRefunds.MaxTime, MaxEvents <- StaffRefunds.MaxEvents,
  MaxDeaths <- StaffRefunds.MaxDeaths, MaxRecords <- StaffRefunds.MaxRecords,
  clock <- refundClock, deaths <- refundDeaths, ev <- refundEv, gift <- refundGift,
  observed <- refundObserved, lock <- refundLock

ReportsProved == INSTANCE RefundsProofs WITH
  Commands <- DashboardRefunds.Commands, Dashboard <- DashboardRefunds.Dashboard,
  Amount <- DashboardRefunds.Amount, GiftAmount <- DashboardRefunds.GiftAmount,
  Requests <- DashboardRefunds.Requests, Workers <- DashboardRefunds.Workers,
  MaxAttempts <- DashboardRefunds.MaxAttempts, RetryCap <- DashboardRefunds.RetryCap,
  Window <- DashboardRefunds.Window, RequestTime <- DashboardRefunds.RequestTime,
  KeyLife <- DashboardRefunds.KeyLife, Horizon <- DashboardRefunds.Horizon,
  Late <- DashboardRefunds.Late, MaxTime <- DashboardRefunds.MaxTime,
  MaxEvents <- DashboardRefunds.MaxEvents, MaxDeaths <- DashboardRefunds.MaxDeaths,
  MaxRecords <- DashboardRefunds.MaxRecords,
  clock <- refundClock, deaths <- refundDeaths, ev <- refundEv, gift <- refundGift,
  observed <- refundObserved, lock <- refundLock

CardProved == INSTANCE PaymentMethodsProofs WITH
  Updates <- CardUpdates.Updates, Requests <- CardUpdates.Requests,
  Workers <- CardUpdates.Workers, Life <- CardUpdates.Life, Margin <- CardUpdates.Margin,
  Window <- CardUpdates.Window, MaxAttempts <- CardUpdates.MaxAttempts,
  MaxTime <- CardUpdates.MaxTime, MaxDeaths <- CardUpdates.MaxDeaths, clock <- cardClock,
  deaths <- cardDeaths, ev <- cardEv, lock <- cardLock

\* The proofs are of the modules that Money composes: both instances of each have
\* the same definitions.
LEMMA StaffAssumed == Staff!RefundsAssumption => StaffProved!RefundsAssumption
BY DEF Staff!RefundsAssumption, StaffProved!RefundsAssumption

LEMMA StaffStepsProved == Staff!Spec => StaffProved!Spec
BY PTL
   DEF Staff!vars, Staff!Refunds, Staff!NoRefund, Staff!Sum, Staff!remaining, Staff!NewEvent,
       Staff!Change, Staff!CreateRefund, Staff!Made, Staff!At, Staff!InsertStripeEvent,
       Staff!NextStripeEvent, Staff!CompleteStripeEvent, Staff!FailStripeEvent,
       Staff!RetryStripeEvent, Staff!SucceededRefundAmounts, Staff!UpdateRefund, Staff!Refused,
       Staff!recordRefund, Staff!GiftRefundObservations, Staff!PendingStaffRefund,
       Staff!InsertStaffAction, Staff!SaveStaffAction, Staff!NoReq, Staff!Facts, Staff!Quiet,
       Staff!InHand, Staff!WithinRetryWindow, Staff!stage, Staff!StaffGiftSnapshot,
       Staff!MayCreate, Staff!ListPaymentRefunds, Staff!createRefund, Staff!currentRefunds,
       Staff!lockStaffDonor, Staff!submitRefund, Staff!auditFailure, Staff!NoWork, Staff!Fail,
       Staff!ProcessNext, Staff!RefundOf, Staff!retrieveRefund, Staff!applyRefundEvent,
       Staff!Unavailable, Staff!GiftByPayment, Staff!LockDonor, Staff!applyEvent, Staff!Die,
       Staff!Outside, Staff!DashboardRefund, Staff!Succeed, Staff!Fails,
       Staff!SaveVerifiedEvent, Staff!Retry, Staff!recordGift, Staff!Tick, Staff!Init,
       Staff!RequestStep, Staff!WorkerStep, Staff!Next, Staff!Spec, Staff!MapThenSumSet,
       Staff!MapThenFoldSet, Staff!Min, StaffProved!vars, StaffProved!Refunds,
       StaffProved!NoRefund, StaffProved!Sum, StaffProved!remaining, StaffProved!NewEvent,
       StaffProved!Change, StaffProved!CreateRefund, StaffProved!Made, StaffProved!At,
       StaffProved!InsertStripeEvent, StaffProved!NextStripeEvent,
       StaffProved!CompleteStripeEvent, StaffProved!FailStripeEvent,
       StaffProved!RetryStripeEvent, StaffProved!SucceededRefundAmounts,
       StaffProved!UpdateRefund, StaffProved!Refused, StaffProved!recordRefund,
       StaffProved!GiftRefundObservations, StaffProved!PendingStaffRefund,
       StaffProved!InsertStaffAction, StaffProved!SaveStaffAction, StaffProved!NoReq,
       StaffProved!Facts, StaffProved!Quiet, StaffProved!InHand, StaffProved!WithinRetryWindow,
       StaffProved!stage, StaffProved!StaffGiftSnapshot, StaffProved!MayCreate,
       StaffProved!ListPaymentRefunds, StaffProved!createRefund, StaffProved!currentRefunds,
       StaffProved!lockStaffDonor, StaffProved!submitRefund, StaffProved!auditFailure,
       StaffProved!NoWork, StaffProved!Fail, StaffProved!ProcessNext, StaffProved!RefundOf,
       StaffProved!retrieveRefund, StaffProved!applyRefundEvent, StaffProved!Unavailable,
       StaffProved!GiftByPayment, StaffProved!LockDonor, StaffProved!applyEvent,
       StaffProved!Die, StaffProved!Outside, StaffProved!DashboardRefund, StaffProved!Succeed,
       StaffProved!Fails, StaffProved!SaveVerifiedEvent, StaffProved!Retry,
       StaffProved!recordGift, StaffProved!Tick, StaffProved!Init, StaffProved!RequestStep,
       StaffProved!WorkerStep, StaffProved!Next, StaffProved!Spec, StaffProved!MapThenSumSet,
       StaffProved!MapThenFoldSet, StaffProved!Min

LEMMA StaffSaysProved == StaffProved!RefundsExact => Staff!RefundsExact
BY DEF Staff!Refunds, Staff!Sum, Staff!SucceededRefundAmounts, Staff!CaughtUp,
       Staff!RefundedOnce, Staff!OneAtATime, Staff!WithinGift, Staff!RefundsExact,
       Staff!Cardinality, Staff!MapThenSumSet, Staff!MapThenFoldSet, StaffProved!Refunds,
       StaffProved!Sum, StaffProved!SucceededRefundAmounts, StaffProved!CaughtUp,
       StaffProved!RefundedOnce, StaffProved!OneAtATime, StaffProved!WithinGift,
       StaffProved!RefundsExact, StaffProved!Cardinality, StaffProved!MapThenSumSet,
       StaffProved!MapThenFoldSet

LEMMA ReportsAssumed == Reports!RefundsAssumption => ReportsProved!RefundsAssumption
BY DEF Reports!RefundsAssumption, ReportsProved!RefundsAssumption

LEMMA ReportsStepsProved == Reports!Spec => ReportsProved!Spec
BY PTL
   DEF Reports!vars, Reports!Refunds, Reports!NoRefund, Reports!Sum, Reports!remaining,
       Reports!NewEvent, Reports!Change, Reports!CreateRefund, Reports!Made, Reports!At,
       Reports!InsertStripeEvent, Reports!NextStripeEvent, Reports!CompleteStripeEvent,
       Reports!FailStripeEvent, Reports!RetryStripeEvent, Reports!SucceededRefundAmounts,
       Reports!UpdateRefund, Reports!Refused, Reports!recordRefund,
       Reports!GiftRefundObservations, Reports!PendingStaffRefund, Reports!InsertStaffAction,
       Reports!SaveStaffAction, Reports!NoReq, Reports!Facts, Reports!Quiet, Reports!InHand,
       Reports!WithinRetryWindow, Reports!stage, Reports!StaffGiftSnapshot, Reports!MayCreate,
       Reports!ListPaymentRefunds, Reports!createRefund, Reports!currentRefunds,
       Reports!lockStaffDonor, Reports!submitRefund, Reports!auditFailure, Reports!NoWork,
       Reports!Fail, Reports!ProcessNext, Reports!RefundOf, Reports!retrieveRefund,
       Reports!applyRefundEvent, Reports!Unavailable, Reports!GiftByPayment, Reports!LockDonor,
       Reports!applyEvent, Reports!Die, Reports!Outside, Reports!DashboardRefund,
       Reports!Succeed, Reports!Fails, Reports!SaveVerifiedEvent, Reports!Retry,
       Reports!recordGift, Reports!Tick, Reports!Init, Reports!RequestStep, Reports!WorkerStep,
       Reports!Next, Reports!Spec, Reports!MapThenSumSet, Reports!MapThenFoldSet, Reports!Min,
       ReportsProved!vars, ReportsProved!Refunds, ReportsProved!NoRefund, ReportsProved!Sum,
       ReportsProved!remaining, ReportsProved!NewEvent, ReportsProved!Change,
       ReportsProved!CreateRefund, ReportsProved!Made, ReportsProved!At,
       ReportsProved!InsertStripeEvent, ReportsProved!NextStripeEvent,
       ReportsProved!CompleteStripeEvent, ReportsProved!FailStripeEvent,
       ReportsProved!RetryStripeEvent, ReportsProved!SucceededRefundAmounts,
       ReportsProved!UpdateRefund, ReportsProved!Refused, ReportsProved!recordRefund,
       ReportsProved!GiftRefundObservations, ReportsProved!PendingStaffRefund,
       ReportsProved!InsertStaffAction, ReportsProved!SaveStaffAction, ReportsProved!NoReq,
       ReportsProved!Facts, ReportsProved!Quiet, ReportsProved!InHand,
       ReportsProved!WithinRetryWindow, ReportsProved!stage, ReportsProved!StaffGiftSnapshot,
       ReportsProved!MayCreate, ReportsProved!ListPaymentRefunds, ReportsProved!createRefund,
       ReportsProved!currentRefunds, ReportsProved!lockStaffDonor, ReportsProved!submitRefund,
       ReportsProved!auditFailure, ReportsProved!NoWork, ReportsProved!Fail,
       ReportsProved!ProcessNext, ReportsProved!RefundOf, ReportsProved!retrieveRefund,
       ReportsProved!applyRefundEvent, ReportsProved!Unavailable, ReportsProved!GiftByPayment,
       ReportsProved!LockDonor, ReportsProved!applyEvent, ReportsProved!Die,
       ReportsProved!Outside, ReportsProved!DashboardRefund, ReportsProved!Succeed,
       ReportsProved!Fails, ReportsProved!SaveVerifiedEvent, ReportsProved!Retry,
       ReportsProved!recordGift, ReportsProved!Tick, ReportsProved!Init,
       ReportsProved!RequestStep, ReportsProved!WorkerStep, ReportsProved!Next,
       ReportsProved!Spec, ReportsProved!MapThenSumSet, ReportsProved!MapThenFoldSet,
       ReportsProved!Min

LEMMA ReportsSaysProved == ReportsProved!RefundsExact => Reports!RefundsExact
BY DEF Reports!Refunds, Reports!Sum, Reports!SucceededRefundAmounts, Reports!CaughtUp,
       Reports!RefundedOnce, Reports!OneAtATime, Reports!WithinGift, Reports!RefundsExact,
       Reports!Cardinality, Reports!MapThenSumSet, Reports!MapThenFoldSet,
       ReportsProved!Refunds, ReportsProved!Sum, ReportsProved!SucceededRefundAmounts,
       ReportsProved!CaughtUp, ReportsProved!RefundedOnce, ReportsProved!OneAtATime,
       ReportsProved!WithinGift, ReportsProved!RefundsExact, ReportsProved!Cardinality,
       ReportsProved!MapThenSumSet, ReportsProved!MapThenFoldSet

LEMMA CardAssumed == Card!PaymentMethodsAssumption => CardProved!PaymentMethodsAssumption
BY DEF Card!PaymentMethodsAssumption, Card!IsFiniteSet, CardProved!PaymentMethodsAssumption,
       CardProved!IsFiniteSet

LEMMA CardStepsProved == Card!Spec => CardProved!Spec
BY PTL
   DEF Card!vars, Card!Actors, Card!NoRow, Card!Idle, Card!terminalPaymentUpdate,
       Card!PaymentUpdateByID, Card!UnfinishedPaymentUpdate, Card!InsertPaymentUpdate,
       Card!SavePaymentUpdate, Card!Free, Card!To, Card!Pc, Card!End, Card!Time, Card!Processor,
       Card!renews, Card!terminalSubscription, Card!Return, Card!fetchPaymentUpdate,
       Card!verifiedSetup, Card!TooOld, Card!applyDefaultMethod, Card!FirstUnderKey,
       Card!UpdateSubscriptionPaymentMethod, Card!Confirm, Card!applyPaymentUpdate,
       Card!prefetchPaymentSetup, Card!Renewing, Card!insertPaymentUpdate, Card!Settled,
       Card!stagePaymentUpdate, Card!StageFetched, Card!InTime, Card!openPaymentSession,
       Card!CreateCheckout, Card!SaveSession, Card!NextStripeEvent, Card!claim,
       Card!applyPaymentUpdateEvent, Card!Refused, Card!Fails, Card!Refuse, Card!Die,
       Card!EnterCard, Card!ExpireSession, Card!EndSubscription, Card!Tick, Card!Init,
       Card!Fetch, Card!Begin, Card!Request, Card!Work, Card!Next, Card!Spec, Card!Cardinality,
       CardProved!vars, CardProved!Actors, CardProved!NoRow, CardProved!Idle,
       CardProved!terminalPaymentUpdate, CardProved!PaymentUpdateByID,
       CardProved!UnfinishedPaymentUpdate, CardProved!InsertPaymentUpdate,
       CardProved!SavePaymentUpdate, CardProved!Free, CardProved!To, CardProved!Pc,
       CardProved!End, CardProved!Time, CardProved!Processor, CardProved!renews,
       CardProved!terminalSubscription, CardProved!Return, CardProved!fetchPaymentUpdate,
       CardProved!verifiedSetup, CardProved!TooOld, CardProved!applyDefaultMethod,
       CardProved!FirstUnderKey, CardProved!UpdateSubscriptionPaymentMethod, CardProved!Confirm,
       CardProved!applyPaymentUpdate, CardProved!prefetchPaymentSetup, CardProved!Renewing,
       CardProved!insertPaymentUpdate, CardProved!Settled, CardProved!stagePaymentUpdate,
       CardProved!StageFetched, CardProved!InTime, CardProved!openPaymentSession,
       CardProved!CreateCheckout, CardProved!SaveSession, CardProved!NextStripeEvent,
       CardProved!claim, CardProved!applyPaymentUpdateEvent, CardProved!Refused,
       CardProved!Fails, CardProved!Refuse, CardProved!Die, CardProved!EnterCard,
       CardProved!ExpireSession, CardProved!EndSubscription, CardProved!Tick, CardProved!Init,
       CardProved!Fetch, CardProved!Begin, CardProved!Request, CardProved!Work, CardProved!Next,
       CardProved!Spec, CardProved!Cardinality

LEMMA CardSaysProved == CardProved!LatestCardStands /\ CardProved!OneInProgress =>
  Card!LatestCardStands /\ Card!OneInProgress
BY DEF Card!OneInProgress, Card!LatestCardStands, Card!Cardinality, CardProved!OneInProgress,
       CardProved!LatestCardStands, CardProved!Cardinality

\* The parts whose refunds are made by staff, and in the dashboard.
OfStaff == part = "staff refunds"
OfReports == part = "refund events"

\* A behaviour of one part is that component's.
LEMMA StaffBehaves == MoneySpec /\ OfStaff => Staff!Spec
<1>1. MoneyInit /\ OfStaff => Staff!Init
  BY DEF MoneyInit, OfStaff
<1>2. OfStaff /\ [MoneyNext]_moneyVars => OfStaff' /\ [Staff!Next]_Staff!vars
  BY DEF OfStaff, MoneyNext, moneyVars, refundVars, Staff!vars
<1> QED BY <1>1, <1>2, PTL DEF MoneySpec, Staff!Spec, Staff!vars

LEMMA ReportsBehave == MoneySpec /\ OfReports => Reports!Spec
<1>1. MoneyInit /\ OfReports => Reports!Init
  BY DEF MoneyInit, OfReports
<1>2. OfReports /\ [MoneyNext]_moneyVars => OfReports' /\ [Reports!Next]_Reports!vars
  BY DEF OfReports, MoneyNext, moneyVars, refundVars, Reports!vars
<1> QED BY <1>1, <1>2, PTL DEF MoneySpec, Reports!Spec, Reports!vars

LEMMA CardBehaves == MoneySpec => Card!Spec
<1>1. MoneyInit => Card!Init
  BY DEF MoneyInit
<1>2. [MoneyNext]_moneyVars => [Card!Next]_Card!vars
  BY DEF MoneyNext, moneyVars, cardVars, Card!vars
<1> QED BY <1>1, <1>2, PTL DEF MoneySpec, Card!Spec, Card!vars

\* A refund moves money once, and what is stored of it is what the processor says,
\* in the whole as on its own (createRefund, applyRefundEvent).
THEOREM RefundsStayExact == MoneySpec => []RefundsExact
<1>1. MoneySpec /\ OfStaff => []Staff!RefundsExact
  <2>1. StaffProved!RefundsAssumption
    BY Instances, StaffAssumed
  <2>2. StaffProved!Spec => []StaffProved!RefundsExact
    BY <2>1, StaffProved!RefundsTrue
  <2> QED BY <2>2, StaffStepsProved, StaffSaysProved, StaffBehaves, PTL
<1>2. MoneySpec /\ OfReports => []Reports!RefundsExact
  <2>1. ReportsProved!RefundsAssumption
    BY Instances, ReportsAssumed
  <2>2. ReportsProved!Spec => []ReportsProved!RefundsExact
    BY <2>1, ReportsProved!RefundsTrue
  <2> QED BY <2>2, ReportsStepsProved, ReportsSaysProved, ReportsBehave, PTL
<1>3. RefundsExact <=> /\ (OfStaff => Staff!RefundsExact)
                       /\ (OfReports => Reports!RefundsExact)
  BY DEF RefundsExact, OfStaff, OfReports
<1>4. ~OfStaff /\ [MoneyNext]_moneyVars => (~OfStaff)'
  BY DEF OfStaff, MoneyNext, moneyVars
<1>5. ~OfReports /\ [MoneyNext]_moneyVars => (~OfReports)'
  BY DEF OfReports, MoneyNext, moneyVars
<1> QED BY <1>1, <1>2, <1>3, <1>4, <1>5, PTL DEF MoneySpec

\* The card the donor entered last stays and one update is in progress, in the
\* whole as on its own (applyDefaultMethod, prefetchPaymentSetup).
THEOREM CardStands == MoneySpec => []LatestCardStands
<1>1. CardProved!PaymentMethodsAssumption
  BY Instances, CardAssumed
<1>2. CardProved!Spec => []CardProved!LatestCardStands
  BY <1>1, CardProved!LatestCardTrue
<1>3. CardProved!Spec => []CardProved!OneInProgress
  BY <1>1, CardProved!OneUpdate
<1>4. Card!LatestCardStands /\ Card!OneInProgress => LatestCardStands
  BY DEF LatestCardStands
<1> QED BY <1>2, <1>3, <1>4, CardStepsProved, CardSaysProved, CardBehaves, PTL
=============================================================================
