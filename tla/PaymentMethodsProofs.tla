------------------------ MODULE PaymentMethodsProofs ------------------------
(***************************************************************************)
(* What TLAPS proves of PaymentMethods, for any number of updates,         *)
(* requests and workers: one update is in progress at most, one hosted     *)
(* page is open at most, and the card the donor entered last stays.        *)
(***************************************************************************)
EXTENDS PaymentMethods, FiniteSetTheorems, TLAPS

Row == [status : Statuses, session : BOOLEAN, url : BOOLEAN, at : 0 .. MaxTime, seq : Nat]
Session == [status : {"none", "open", "complete", "expired"}]
None(S) == S \cup {"none"}
Subscription == [status : {"active", "canceled"}, card : Updates \cup {"first"}]
Event == [sent : BOOLEAN, done : BOOLEAN, attempts : Nat]
Stalled == {"read", "set", "confirm"}
Fetching == {"verify"} \cup Stalled
Fetched == {"event", "apply"}
Opening == {"open", "create", "save"}
Act == [pc : {"idle", "stage"} \cup Fetching \cup Fetched \cup Opening, id : None(Updates),
        row : None(Updates), facts : {"none", "", "APPLIED", "EXPIRED", "CANCELLED"},
        of : None(Updates), at : 0 .. MaxTime, live : BOOLEAN]

Shape ==
  /\ clock \in 0 .. MaxTime /\ deaths \in 0 .. MaxDeaths
  /\ rows \in [Updates -> Row]
  /\ session \in [Updates -> Session]
  /\ sub \in Subscription
  /\ keyed \in SUBSET Updates
  /\ ev \in [Updates -> Event]
  /\ act \in [Actors -> Act]
  /\ lock \in None(Actors)

Recorded == {u \in Updates : rows[u].status # "NONE"}
Unfinished(u) == rows[u].status \in {"PENDING", "OPEN"}

\* What an outcome of update u says of the processor, for good.
Means(u, outcome) ==
  /\ outcome \in {"", "APPLIED", "EXPIRED", "CANCELLED"}
  /\ session[u].status # "none"
  /\ outcome = "APPLIED" => u \in keyed
  /\ outcome = "EXPIRED" => session[u].status = "expired"
  /\ outcome = "CANCELLED" => session[u].status = "complete" /\ sub.status = "canceled"

\* An update that is over is recorded truly, and one that is not recorded has
\* nothing at the processor.
RowOk(u) ==
  /\ rows[u].status = "NONE" => session[u].status = "none" /\ ~rows[u].session /\ ~rows[u].url /\ rows[u].seq = 0
  /\ rows[u].session => session[u].status # "none"
  /\ rows[u].url <=> rows[u].status = "OPEN"
  /\ terminalPaymentUpdate(rows[u].status) => Means(u, rows[u].status)
  /\ u \in keyed => session[u].status = "complete"
  /\ ev[u].sent => session[u].status \in {"complete", "expired"}
  /\ rows[u].seq <= Cardinality(Recorded)

\* The update in progress is one, and the latest.
InProgressIsLast ==
  \A u, v \in Updates : Unfinished(u) => rows[v].seq <= rows[u].seq /\ (Unfinished(v) => u = v)

\* The card is of an update it was set for once, and of the update in progress
\* if it was set for that one.
CardOk ==
  /\ sub.card \in Updates => sub.card \in keyed
  /\ \A u \in Updates : Unfinished(u) /\ u \in keyed => sub.card = u

\* What an actor holds, however long ago it read it.
ActorOk(p) ==
  LET a == act[p] IN
  /\ a.pc # "idle" => a.id \in Updates
  /\ a.pc \in Fetching \cup Fetched \cup Opening => a.row \in Updates /\ rows[a.row].status # "NONE"
  /\ a.pc \in Fetching \cup {"save"} => session[a.row].status # "none"
  /\ a.pc \in Stalled => session[a.row].status = "complete"
  /\ a.pc = "confirm" => a.row \in keyed
  /\ a.pc \in Fetched => Means(a.row, a.facts)
  /\ a.pc = "stage" /\ a.of \in Updates => Means(a.of, a.facts)
  /\ a.pc = "apply" => lock = p

\* Whoever holds the donor's row has found an update in progress, and has not
\* recorded its own.
HolderOk ==
  lock # "none" =>
    /\ lock \in Requests
    /\ act[lock].pc \in Fetching \cup {"apply"}
    /\ Unfinished(act[lock].row) /\ rows[act[lock].id].status = "NONE"

CardInv ==
  /\ Shape /\ (\A u \in Updates : RowOk(u)) /\ InProgressIsLast /\ CardOk
  /\ (\A p \in Actors : ActorOk(p)) /\ HolderOk /\ LatestCardStands

-----------------------------------------------------------------------------
\* What every step keeps.
Onward ==
  /\ keyed \subseteq keyed'
  /\ \A u \in Updates :
       /\ session[u].status \in {"complete", "expired"} => session'[u].status = session[u].status
       /\ session[u].status # "none" => session'[u].status # "none"
       /\ rows[u].status # "NONE" => rows'[u].status # "NONE"
  /\ sub.status = "canceled" => sub'.status = "canceled"

LEMMA MeansStays ==
  ASSUME Onward, NEW u \in Updates, NEW o, Means(u, o)
  PROVE  Means(u, o)'
BY DEF Onward, Means

LEMMA ActorKeeps ==
  ASSUME Shape, Onward, NEW p \in Actors, ActorOk(p), act'[p] = act[p],
         act[p].pc = "apply" => lock' = p
  PROVE  ActorOk(p)'
<1> DEFINE a == act[p]
<1>1. a.pc \in Fetching \cup Fetched \cup Opening => a.row \in Updates
  BY DEF ActorOk
<1>2. a.pc \in Fetched => Means(a.row, a.facts)'
  BY <1>1, MeansStays DEF ActorOk
<1>3. a.pc = "stage" /\ a.of \in Updates => Means(a.of, a.facts)'
  BY MeansStays DEF ActorOk
<1>4. a.pc \in Fetching \cup {"save"} => session'[a.row].status # "none"
  BY <1>1 DEF ActorOk, Onward, Opening
<1>5. a.pc \in Stalled => session'[a.row].status = "complete"
  BY <1>1 DEF ActorOk, Onward, Fetching
<1>6. a.pc \in Fetching \cup Fetched \cup Opening => rows'[a.row].status # "NONE"
  BY <1>1 DEF ActorOk, Onward
<1>7. a.pc = "confirm" => a.row \in keyed'
  BY DEF ActorOk, Onward
<1> QED BY <1>1, <1>2, <1>3, <1>4, <1>5, <1>6, <1>7 DEF ActorOk

\* One actor moves, and what is recorded stays.
LEMMA OthersKeep ==
  ASSUME Shape, Onward, \A q \in Actors : ActorOk(q), NEW p \in Actors, ActorOk(p)',
         \A q \in Actors \ {p} : act'[q] = act[q] /\ (lock = q => lock' = q)
  PROVE  \A q \in Actors : ActorOk(q)'
<1> SUFFICES ASSUME NEW q \in Actors, q # p PROVE ActorOk(q)'
  OBVIOUS
<1>1. act[q].pc = "apply" => lock' = q
  BY DEF ActorOk
<1> QED BY <1>1, ActorKeeps

\* A step of one actor that only reads, at the processor or in the table.
LEMMA ReadStep ==
  ASSUME CardInv, Shape', NEW p \in Actors, ActorOk(p)',
         UNCHANGED <<rows, session, sub, keyed>>, \A u \in Updates : ev'[u].sent = ev[u].sent,
         \A q \in Actors \ {p} : act'[q] = act[q] /\ (lock = q => lock' = q), HolderOk'
  PROVE  CardInv'
<1>1. Onward
  BY DEF Onward
<1>2. \A q \in Actors : ActorOk(q)'
  BY <1>1, OthersKeep DEF CardInv
<1>3. \A u \in Updates : RowOk(u)'
  BY DEF CardInv, RowOk, Means, Recorded
<1>4. InProgressIsLast' /\ CardOk' /\ LatestCardStands'
  BY DEF CardInv, InProgressIsLast, CardOk, LatestCardStands, Unfinished
<1> QED BY <1>2, <1>3, <1>4 DEF CardInv

LEMMA IdleTyped == ASSUME PaymentMethodsAssumption PROVE Idle \in Act /\ Idle.pc = "idle"
BY DEF PaymentMethodsAssumption, Act, Idle, None

LEMMA PcTyped ==
  ASSUME NEW a \in Act, NEW pc \in {"idle", "stage"} \cup Fetching \cup Fetched \cup Opening
  PROVE  /\ [a EXCEPT !.pc = pc] \in Act
         /\ [a EXCEPT !.pc = pc].pc = pc /\ [a EXCEPT !.pc = pc].row = a.row
         /\ [a EXCEPT !.pc = pc].id = a.id
BY DEF Act

LEMMA IdTyped ==
  ASSUME NEW a \in Act, NEW id \in Updates
  PROVE  /\ [a EXCEPT !.id = id] \in Act /\ [a EXCEPT !.id = id].id = id
         /\ [a EXCEPT !.id = id, !.pc = "stage"] \in Act
         /\ [a EXCEPT !.id = id, !.pc = "stage"].id = id
         /\ [a EXCEPT !.id = id, !.pc = "stage"].pc = "stage"
         /\ [a EXCEPT !.id = id, !.pc = "stage"].of = a.of
BY DEF Act, None

\* One actor's record changes.
LEMMA ToTyped ==
  ASSUME Shape, NEW p \in Actors, NEW a \in Act, act' = [act EXCEPT ![p] = a]
  PROVE  act' \in [Actors -> Act] /\ act'[p] = a /\ \A q \in Actors \ {p} : act'[q] = act[q]
BY DEF Shape

LEMMA PcStep ==
  ASSUME Shape, NEW p \in Actors, NEW pc \in {"idle", "stage"} \cup Fetching \cup Fetched \cup Opening,
         Pc(p, pc)
  PROVE  /\ act' \in [Actors -> Act] /\ \A q \in Actors \ {p} : act'[q] = act[q]
         /\ act'[p].pc = pc /\ act'[p].row = act[p].row /\ act'[p].id = act[p].id
<1>1. act[p] \in Act /\ act' = [act EXCEPT ![p] = [act[p] EXCEPT !.pc = pc]]
  BY DEF Shape, Pc
<1>2. [act[p] EXCEPT !.pc = pc] \in Act
  BY <1>1, PcTyped
<1> QED BY <1>1, <1>2, ToTyped, PcTyped

\* Whoever holds the row goes on with it, or another moves.
LEMMA HolderKeeps ==
  ASSUME CardInv, NEW p \in Actors, UNCHANGED <<rows, lock>>,
         \A q \in Actors \ {p} : act'[q] = act[q],
         lock = p => /\ act'[p].pc \in Fetching \cup {"apply"}
                     /\ act'[p].row = act[p].row /\ act'[p].id = act[p].id
  PROVE  HolderOk'
<1>1. CASE lock = p
  BY <1>1 DEF CardInv, HolderOk, Unfinished
<1>2. CASE lock # p
  <2>1. lock # "none" => lock \in Actors \ {p}
    BY <1>2 DEF CardInv, Shape, None
  <2> QED BY <2>1 DEF CardInv, HolderOk, Unfinished
<1> QED BY <1>1, <1>2

\* An outcome was read: it is what the actor goes on with.
LEMMA ReturnStep ==
  ASSUME PaymentMethodsAssumption, CardInv, NEW p \in Actors, NEW status, act[p].pc \in Fetching,
         Means(act[p].row, status), Return(p, status),
         UNCHANGED <<clock, deaths, rows, session, sub, keyed, ev, lock>>
  PROVE  CardInv'
<1> DEFINE live == p \in Requests /\ status = "EXPIRED" /\ lock # p /\ renews(sub.status)
           pc == IF p \in Workers THEN "event" ELSE IF lock = p THEN "apply" ELSE "stage"
           b == [act[p] EXCEPT !.facts = status, !.of = act[p].row, !.live = live, !.pc = pc]
<1>1. act[p] \in Act /\ act[p].row \in Updates /\ ActorOk(p)
  BY DEF CardInv, Shape, ActorOk
<1>2. act' = [act EXCEPT ![p] = b]
  <2>1. act \in [Actors -> Act]
    BY DEF CardInv, Shape
  <2> QED BY <2>1 DEF Return, Act
<1>3. live \in BOOLEAN /\ status \in {"", "APPLIED", "EXPIRED", "CANCELLED"}
  BY DEF Means
<1>4. b \in Act /\ b.pc = pc /\ b.row = act[p].row /\ b.id = act[p].id /\ b.of = act[p].row /\ b.facts = status
  <2> HIDE DEF live
  <2>1. pc \in {"event", "apply", "stage"}
    OBVIOUS
  <2> HIDE DEF pc
  <2> QED BY <1>1, <1>3, <2>1 DEF Act, None, Fetched
<1> HIDE DEF b
<1>5. act' \in [Actors -> Act] /\ act'[p] = b /\ \A q \in Actors \ {p} : act'[q] = act[q]
  BY <1>2, <1>4, ToTyped DEF CardInv
<1>6. Shape'
  BY <1>5 DEF CardInv, Shape
<1>7. ActorOk(p)'
  <2> PICK u \in Updates : u = act[p].row
    BY <1>1
  <2>1. Means(u, status)'
    BY DEF Means
  <2>3. act'[p].row = u /\ act'[p].facts = status /\ act'[p].of = u /\ act'[p].pc = pc
    BY <1>4, <1>5
  <2>4. act'[p].id \in Updates /\ rows'[u].status # "NONE"
    BY <1>1, <1>4, <1>5 DEF ActorOk, Fetching, Stalled
  <2>2. pc = "apply" => lock' = p
    OBVIOUS
  <2> QED BY <2>1, <2>2, <2>3, <2>4 DEF ActorOk, Fetching, Fetched, Opening, Stalled
<1>8. HolderOk'
  <2>1. lock = p => p \notin Workers
    BY DEF CardInv, Shape, HolderOk, PaymentMethodsAssumption, Actors
  <2>2. lock = p => pc = "apply"
    BY <2>1
  <2> QED BY <1>4, <1>5, <2>2, HolderKeeps
<1> QED BY <1>5, <1>6, <1>7, <1>8, ReadStep

\* A recorded update that still has a session is in progress, or over as recorded.
LEMMA FetchOn ==
  ASSUME PaymentMethodsAssumption, CardInv, NEW p \in Actors, NEW pc \in {"read", "set"}, Pc(p, pc),
         act[p].pc \in Fetching, session[act[p].row].status = "complete",
         UNCHANGED <<clock, deaths, rows, session, sub, keyed, ev, lock>>
  PROVE  CardInv'
<1>1. /\ act' \in [Actors -> Act] /\ \A q \in Actors \ {p} : act'[q] = act[q]
      /\ act'[p].pc = pc /\ act'[p].row = act[p].row /\ act'[p].id = act[p].id
  BY PcStep DEF CardInv, Fetching, Stalled
<1>2. ActorOk(p)
  BY DEF CardInv
<1>3. Shape'
  BY <1>1 DEF CardInv, Shape
<1>4. ActorOk(p)'
  BY <1>1, <1>2 DEF ActorOk, Fetching, Fetched, Opening, Stalled
<1>5. HolderOk'
  BY <1>1, HolderKeeps DEF Fetching, Stalled
<1> QED BY <1>1, <1>3, <1>4, <1>5, ReadStep

LEMMA VerifyStep ==
  ASSUME PaymentMethodsAssumption, CardInv, NEW p \in Actors, verifiedSetup(p)
  PROVE  CardInv'
<1> PICK u \in Updates : u = act[p].row
  BY DEF CardInv, ActorOk, verifiedSetup, Fetching
<1>1. act[p].pc \in Fetching /\ session[u].status # "none" /\ session[u] \in Session /\ RowOk(u)
  BY DEF CardInv, Shape, ActorOk, verifiedSetup, Fetching
<1>2. UNCHANGED <<clock, deaths, rows, session, sub, keyed, ev, lock>>
  BY DEF verifiedSetup, Time, Processor
<1>3. CASE terminalPaymentUpdate(rows[u].status) /\ Return(p, rows[u].status)
  BY <1>1, <1>2, <1>3, ReturnStep DEF RowOk
<1>4. CASE session[u].status = "expired" /\ Return(p, "EXPIRED")
  BY <1>1, <1>2, <1>4, ReturnStep DEF Means
<1>5. CASE session[u].status = "open" /\ Return(p, "")
  BY <1>1, <1>2, <1>5, ReturnStep DEF Means
<1>6. CASE session[u].status \notin {"expired", "open"} /\ Pc(p, "read")
  BY <1>1, <1>2, <1>6, FetchOn DEF Session
<1> QED BY <1>3, <1>4, <1>5, <1>6 DEF verifiedSetup

LEMMA ApplyStep ==
  ASSUME PaymentMethodsAssumption, CardInv, NEW p \in Actors, applyDefaultMethod(p)
  PROVE  CardInv'
<1> PICK u \in Updates : u = act[p].row
  BY DEF CardInv, ActorOk, applyDefaultMethod, Fetching, Stalled
<1>1. act[p].pc \in Fetching /\ session[u].status = "complete"
  BY DEF CardInv, ActorOk, applyDefaultMethod, Fetching, Stalled
<1>2. UNCHANGED <<clock, deaths, rows, session, sub, keyed, ev, lock>>
  BY DEF applyDefaultMethod, Time, Processor
<1>3. CASE terminalSubscription(sub.status) /\ Return(p, "CANCELLED")
  BY <1>1, <1>2, <1>3, ReturnStep DEF Means, terminalSubscription
<1>4. CASE sub.card = u /\ Return(p, "APPLIED")
  BY <1>1, <1>2, <1>4, ReturnStep DEF Means, CardInv, CardOk
<1>5. CASE Pc(p, "set")
  BY <1>1, <1>2, <1>5, FetchOn
<1> QED BY <1>3, <1>4, <1>5 DEF applyDefaultMethod

LEMMA ConfirmStep ==
  ASSUME PaymentMethodsAssumption, CardInv, NEW p \in Actors, Confirm(p)
  PROVE  CardInv'
<1> PICK u \in Updates : u = act[p].row
  BY DEF CardInv, ActorOk, Confirm, Fetching, Stalled
<1>1. act[p].pc \in Fetching /\ session[u].status = "complete" /\ u \in keyed
  BY DEF CardInv, ActorOk, Confirm, Fetching, Stalled
<1>2. UNCHANGED <<clock, deaths, rows, session, sub, keyed, ev, lock>>
  BY DEF Confirm, Time, Processor
<1> QED BY <1>1, <1>2, ReturnStep DEF Means, Confirm

\* The processor sets a card once for each update, so that a fetch of an older
\* one that stalled changes nothing: the update is over, and its card was set or
\* never will be.
LEMMA SetStep ==
  ASSUME PaymentMethodsAssumption, CardInv, NEW p \in Actors, UpdateSubscriptionPaymentMethod(p)
  PROVE  CardInv'
<1> PICK u \in Updates : u = act[p].row
  BY DEF CardInv, ActorOk, UpdateSubscriptionPaymentMethod, Fetching, Stalled
<1>1. /\ session[u].status = "complete" /\ rows[u].status # "NONE" /\ sub.status # "canceled"
      /\ ActorOk(p) /\ RowOk(u) /\ rows[u] \in Row /\ sub \in Subscription /\ act[p].pc \in Fetching
  BY DEF CardInv, Shape, ActorOk, UpdateSubscriptionPaymentMethod, Fetching, Stalled, terminalSubscription
<1>2. UNCHANGED <<clock, deaths, rows, session, ev, lock>> /\ keyed' = keyed \cup {u} /\ sub'.status = sub.status
  BY <1>1 DEF UpdateSubscriptionPaymentMethod, Time, Subscription
<1>3. /\ act' \in [Actors -> Act] /\ \A q \in Actors \ {p} : act'[q] = act[q]
      /\ act'[p].pc = "confirm" /\ act'[p].row = act[p].row /\ act'[p].id = act[p].id
  BY PcStep DEF CardInv, UpdateSubscriptionPaymentMethod, Fetching, Stalled
<1>4. Onward
  BY <1>2 DEF Onward
<1>5. u \in keyed \/ Unfinished(u)
  BY <1>1 DEF RowOk, Means, terminalPaymentUpdate, Unfinished, Row, Statuses
<1>6. /\ sub' \in Subscription
      /\ u \in keyed => sub' = sub
      /\ u \notin keyed => sub'.card = u
  BY <1>1 DEF UpdateSubscriptionPaymentMethod, FirstUnderKey, Subscription
<1>7. Shape'
  BY <1>2, <1>3, <1>6 DEF CardInv, Shape
<1>8. \A v \in Updates : RowOk(v)'
  <2> TAKE v \in Updates
  <2>1. RowOk(v)
    BY DEF CardInv
  <2>2. Means(v, rows[v].status) => Means(v, rows[v].status)'
    BY <1>2 DEF Means
  <2> QED BY <1>1, <1>2, <2>1, <2>2 DEF RowOk, Recorded
<1>9. InProgressIsLast'
  BY <1>2 DEF CardInv, InProgressIsLast, Unfinished
<1>10. CardOk'
  BY <1>2, <1>5, <1>6 DEF CardInv, CardOk, InProgressIsLast, Unfinished
<1>11. LatestCardStands'
  BY <1>2, <1>5, <1>6 DEF CardInv, LatestCardStands, InProgressIsLast, Unfinished
<1>12. ActorOk(p)'
  BY <1>1, <1>2, <1>3 DEF ActorOk, Fetching, Fetched, Opening, Stalled
<1>13. \A q \in Actors : ActorOk(q)'
  BY <1>2, <1>3, <1>4, <1>12, OthersKeep DEF CardInv
<1>14. HolderOk'
  BY <1>2, <1>3, HolderKeeps DEF Fetching, Stalled
<1> QED BY <1>7, <1>8, <1>9, <1>10, <1>11, <1>13, <1>14 DEF CardInv

-----------------------------------------------------------------------------
\* Beginning to fetch update u.
LEMMA FetchTyped ==
  ASSUME PaymentMethodsAssumption, Shape, NEW p \in Actors, NEW u \in Updates, NEW a \in Act,
         fetchPaymentUpdate(p, u, a)
  PROVE  /\ act' \in [Actors -> Act] /\ \A q \in Actors \ {p} : act'[q] = act[q]
         /\ act'[p].pc = "verify" /\ act'[p].row = u /\ act'[p].id = a.id
<1> DEFINE b == [a EXCEPT !.pc = "verify", !.row = u, !.at = clock]
<1>1. b \in Act /\ b.pc = "verify" /\ b.row = u /\ b.id = a.id
  BY DEF Act, Shape, None, Fetching
<1>2. act' = [act EXCEPT ![p] = b]
  BY DEF fetchPaymentUpdate, To
<1> HIDE DEF b
<1> QED BY <1>1, <1>2, ToTyped

LEMMA BeginStep ==
  ASSUME PaymentMethodsAssumption, CardInv, NEW p \in Requests, NEW id \in Updates,
         prefetchPaymentSetup(p, id)
  PROVE  CardInv'
<1> DEFINE a == [Idle EXCEPT !.id = id, !.pc = "stage"]
           live == UnfinishedPaymentUpdate = {} /\ rows[id].status = "NONE" /\ renews(sub.status)
<1>1. p \in Actors /\ Shape /\ act[p] = Idle /\ UNCHANGED <<clock, deaths, rows, session, sub, keyed, ev, lock>>
  BY DEF Actors, CardInv, prefetchPaymentSetup, Time, Processor
<1>2. lock # p
  BY <1>1 DEF CardInv, HolderOk, Idle, Fetching, Stalled, PaymentMethodsAssumption, Actors
<1>3. a \in Act /\ a.id = id /\ a.pc = "stage" /\ a.of = "none"
  <2>1. Idle \in Act /\ Idle.of = "none"
    BY IdleTyped DEF Idle
  <2> QED BY <2>1, IdTyped
<1>4. CASE To(p, [a EXCEPT !.live = live])
  <2>1. live \in BOOLEAN
    OBVIOUS
  <2>2. [a EXCEPT !.live = live] \in Act /\ [a EXCEPT !.live = live].id = id
        /\ [a EXCEPT !.live = live].pc = "stage" /\ [a EXCEPT !.live = live].of = "none"
    <3> HIDE DEF live, a
    <3> QED BY <1>3, <2>1 DEF Act
  <2>3. /\ act' \in [Actors -> Act] /\ \A q \in Actors \ {p} : act'[q] = act[q]
        /\ act'[p].pc = "stage" /\ act'[p].of = "none" /\ act'[p].id = id
    <3> DEFINE b == [a EXCEPT !.live = live]
    <3>1. act' = [act EXCEPT ![p] = b]
      BY <1>4 DEF To
    <3> HIDE DEF b
    <3> QED BY <1>1, <2>2, <3>1, ToTyped DEF b
  <2>4. ActorOk(p)'
    BY <2>3 DEF ActorOk, Fetching, Fetched, Opening, Stalled, PaymentMethodsAssumption
  <2>5. Shape'
    BY <1>1, <2>3 DEF Shape
  <2>6. HolderOk'
    BY <1>1, <1>2, <2>3, HolderKeeps
  <2> QED BY <1>1, <2>3, <2>4, <2>5, <2>6, ReadStep
<1>5. CASE \E u \in UnfinishedPaymentUpdate : rows[u].session /\ fetchPaymentUpdate(p, u, a)
  <2>1. PICK u \in Updates : Unfinished(u) /\ rows[u].session /\ fetchPaymentUpdate(p, u, a)
    BY <1>5 DEF UnfinishedPaymentUpdate, Unfinished
  <2>2. session[u].status # "none" /\ rows[u].status # "NONE"
    BY <2>1 DEF CardInv, RowOk, Unfinished
  <2>3. /\ act' \in [Actors -> Act] /\ \A q \in Actors \ {p} : act'[q] = act[q]
        /\ act'[p].pc = "verify" /\ act'[p].row = u /\ act'[p].id = id
    BY <1>1, <1>3, <2>1, FetchTyped
  <2>4. ActorOk(p)'
    BY <1>1, <2>2, <2>3 DEF ActorOk, Fetching, Fetched, Opening, Stalled
  <2>5. Shape'
    BY <1>1, <2>3 DEF Shape
  <2>6. HolderOk'
    BY <1>1, <1>2, <2>3, HolderKeeps
  <2> QED BY <1>1, <2>3, <2>4, <2>5, <2>6, ReadStep
<1> QED BY <1>4, <1>5 DEF prefetchPaymentSetup

LEMMA ClaimStep ==
  ASSUME PaymentMethodsAssumption, CardInv, NEW w \in Workers, NEW u \in Updates, claim(w, u)
  PROVE  CardInv'
<1> DEFINE a == [Idle EXCEPT !.id = u]
<1>1. w \in Actors /\ Shape /\ act[w] = Idle /\ UNCHANGED <<clock, deaths, rows, session, sub, keyed, ev, lock>>
  BY DEF Actors, CardInv, claim, Time, Processor
<1>2. lock # w
  BY <1>1 DEF CardInv, HolderOk, Idle, Fetching, Stalled, PaymentMethodsAssumption, Actors
<1>3. a \in Act /\ a.id = u
  BY IdleTyped, IdTyped
<1>4. session[u].status # "none" /\ rows[u].status # "NONE"
  BY DEF CardInv, RowOk, claim, NextStripeEvent
<1>5. /\ act' \in [Actors -> Act] /\ \A q \in Actors \ {w} : act'[q] = act[q]
      /\ act'[w].pc = "verify" /\ act'[w].row = u /\ act'[w].id = u
  BY <1>1, <1>3, FetchTyped DEF claim
<1>6. ActorOk(w)'
  BY <1>1, <1>4, <1>5 DEF ActorOk, Fetching, Fetched, Opening, Stalled
<1>7. Shape'
  BY <1>1, <1>5 DEF Shape
<1>8. HolderOk'
  BY <1>1, <1>2, <1>5, HolderKeeps
<1> QED BY <1>1, <1>5, <1>6, <1>7, <1>8, ReadStep

\* An actor lets go of what it held, and of the row.
LEMMA EndStep ==
  ASSUME PaymentMethodsAssumption, CardInv, NEW p \in Actors, To(p, Idle),
         lock' = IF lock = p THEN "none" ELSE lock,
         deaths' \in 0 .. MaxDeaths, ev' \in [Updates -> Event], \A u \in Updates : ev'[u].sent = ev[u].sent,
         UNCHANGED <<clock, rows, session, sub, keyed>>
  PROVE  CardInv'
<1>1. /\ act' \in [Actors -> Act] /\ act'[p] = Idle /\ \A q \in Actors \ {p} : act'[q] = act[q]
  BY IdleTyped, ToTyped DEF CardInv, To
<1>2. ActorOk(p)'
  BY <1>1 DEF ActorOk, Idle, Fetching, Fetched, Opening, Stalled
<1>3. Shape'
  BY <1>1 DEF CardInv, Shape, None
<1>4. HolderOk'
  <2>1. lock' # "none" => lock' = lock /\ lock \in Actors \ {p}
    BY DEF CardInv, Shape, None
  <2> QED BY <1>1, <2>1 DEF CardInv, HolderOk, Unfinished
<1>5. \A q \in Actors \ {p} : act'[q] = act[q] /\ (lock = q => lock' = q)
  BY <1>1
<1> QED BY <1>2, <1>3, <1>4, <1>5, ReadStep

LEMMA FailsStep ==
  ASSUME PaymentMethodsAssumption, CardInv, NEW p \in Actors, Fails(p), deaths' \in 0 .. MaxDeaths
  PROVE  CardInv'
<1>1. To(p, Idle) /\ lock' = (IF lock = p THEN "none" ELSE lock) /\ UNCHANGED <<clock, rows, session, sub, keyed>>
  BY DEF Fails, End, Processor
<1>2. ev' \in [Updates -> Event] /\ \A u \in Updates : ev'[u].sent = ev[u].sent
  <2>1. ev \in [Updates -> Event]
    BY DEF CardInv, Shape
  <2>2. CASE ev' = ev
    BY <2>1, <2>2
  <2>3. CASE ev' = [ev EXCEPT ![act[p].id].attempts = @ + 1]
    <3> PICK x : x = act[p].id
      OBVIOUS
    <3> DEFINE z == [ev[x] EXCEPT !.attempts = ev[x].attempts + 1]
    <3>1. ev' = [ev EXCEPT ![x] = z]
      BY <2>3
    <3>2. x \in Updates => z \in Event /\ z.sent = ev[x].sent
      BY <2>1 DEF Event
    <3> HIDE DEF z
    <3> QED BY <2>1, <3>1, <3>2
  <2> QED BY <2>2, <2>3 DEF Fails
<1> QED BY <1>1, <1>2, EndStep

LEMMA OpenStep ==
  ASSUME PaymentMethodsAssumption, CardInv, NEW p \in Requests, openPaymentSession(p)
  PROVE  CardInv'
<1>1. p \in Actors /\ Shape /\ act[p].pc = "open" /\ UNCHANGED <<clock, deaths, rows, session, sub, keyed, ev, lock>>
  BY DEF Actors, CardInv, openPaymentSession, Time, Processor
<1>2. lock # p /\ ActorOk(p)
  BY <1>1 DEF CardInv, HolderOk, Fetching, Stalled, PaymentMethodsAssumption, Actors
<1>3. CASE Pc(p, "create")
  <2>1. /\ act' \in [Actors -> Act] /\ \A q \in Actors \ {p} : act'[q] = act[q]
        /\ act'[p].pc = "create" /\ act'[p].row = act[p].row /\ act'[p].id = act[p].id
    BY <1>1, <1>3, PcStep DEF Opening
  <2>2. ActorOk(p)' /\ Shape'
    BY <1>1, <1>2, <2>1 DEF ActorOk, Fetching, Fetched, Opening, Stalled, Shape
  <2>3. HolderOk'
    BY <1>1, <1>2, <2>1, HolderKeeps
  <2> QED BY <1>1, <2>1, <2>2, <2>3, ReadStep
<1>4. CASE To(p, Idle)
  BY <1>1, <1>2, <1>4, EndStep DEF Shape
<1> QED BY <1>3, <1>4 DEF openPaymentSession

-----------------------------------------------------------------------------
\* The table after one update was brought up to date, or as it was.
Table(t) ==
  /\ t \in [Updates -> Row]
  /\ \A u \in Updates :
       /\ rows[u].status = "NONE" <=> t[u].status = "NONE"
       /\ rows[u].status = "NONE" => t[u] = rows[u]
       /\ t[u].seq = rows[u].seq
       /\ t[u].session => session[u].status # "none"
       /\ t[u].url <=> t[u].status = "OPEN"
       /\ terminalPaymentUpdate(t[u].status) => Means(u, t[u].status)
       /\ t[u].status \in {"PENDING", "OPEN"} => Unfinished(u)
       /\ t[u].status = "APPLIED" => sub.card \in Updates /\ rows[sub.card].seq >= rows[u].seq

LEMMA TableAsItIs == ASSUME CardInv PROVE Table(rows)
BY DEF CardInv, Shape, RowOk, Table, Unfinished, LatestCardStands

\* An outcome is recorded of the update in progress only: if its card was set, it
\* is the subscription's.
LEMMA TableUpdated ==
  ASSUME CardInv, NEW u \in Updates, NEW facts, Means(u, facts), rows[u].status # "NONE"
  PROVE  LET t == applyPaymentUpdate(u, facts)
         IN Table(t) /\ t[u].status = (IF facts = "" \/ terminalPaymentUpdate(rows[u].status) THEN rows[u].status ELSE facts)
            /\ \A v \in Updates \ {u} : t[v] = rows[v]
<1> DEFINE status == IF facts = "" THEN rows[u].status ELSE facts
           url == ~terminalPaymentUpdate(status) /\ rows[u].url
           t == SavePaymentUpdate(u, status, url)
<1>1. rows[u] \in Row /\ RowOk(u) /\ Shape /\ Table(rows)
  BY TableAsItIs DEF CardInv, Shape
<1>2. CASE terminalPaymentUpdate(rows[u].status)
  BY <1>1, <1>2 DEF applyPaymentUpdate
<1>3. CASE ~terminalPaymentUpdate(rows[u].status)
  <2>1. status \in Statuses /\ status # "NONE" /\ url \in BOOLEAN
    BY <1>1 DEF Row, Means, Statuses
  <2>2. Unfinished(u)
    BY <1>1, <1>3 DEF Row, Statuses, terminalPaymentUpdate, Unfinished
  <2>3. PICK r \in Row : r = [rows[u] EXCEPT !.status = status, !.session = TRUE, !.url = url]
    <3> HIDE DEF status, url
    <3> QED BY <1>1, <2>1 DEF Row
  <2>4. t = [rows EXCEPT ![u] = r]
    BY <1>1, <2>3 DEF SavePaymentUpdate, Shape, Row
  <2>5. r.status = status /\ r.url = url /\ r.seq = rows[u].seq
    <3> HIDE DEF status, url
    <3> QED BY <1>1, <2>3 DEF Row
  <2>6. t \in [Updates -> Row] /\ t[u] = r /\ \A v \in Updates \ {u} : t[v] = rows[v]
    BY <1>1, <2>4 DEF Shape
  <2>7. url <=> status = "OPEN"
    BY <1>1, <1>3, <2>2 DEF RowOk, Unfinished, terminalPaymentUpdate, Means
  <2>8. terminalPaymentUpdate(status) => Means(u, status)
    BY <1>3
  <2>9. status = "APPLIED" => sub.card \in Updates /\ rows[sub.card].seq >= rows[u].seq
    <3>1. status = "APPLIED" => sub.card = u
      BY <1>3, <2>2 DEF Means, CardInv, CardOk, terminalPaymentUpdate
    <3>2. rows[u].seq >= rows[u].seq
      BY <1>1 DEF Row
    <3> QED BY <3>1, <3>2
  <2>10. session[u].status # "none" /\ (status \in {"PENDING", "OPEN"} => Unfinished(u))
    BY <2>2 DEF Means
  <2>11. Table(t)
    <3> SUFFICES ASSUME NEW v \in Updates
                 PROVE  /\ rows[v].status = "NONE" <=> t[v].status = "NONE"
                        /\ rows[v].status = "NONE" => t[v] = rows[v]
                        /\ t[v].seq = rows[v].seq
                        /\ t[v].session => session[v].status # "none"
                        /\ t[v].url <=> t[v].status = "OPEN"
                        /\ terminalPaymentUpdate(t[v].status) => Means(v, t[v].status)
                        /\ t[v].status \in {"PENDING", "OPEN"} => Unfinished(v)
                        /\ t[v].status = "APPLIED" => sub.card \in Updates /\ rows[sub.card].seq >= rows[v].seq
      BY <2>6 DEF Table
    <3>1. CASE v = u
      <4> HIDE DEF status, url, t
      <4> QED BY <2>1, <2>5, <2>6, <2>7, <2>8, <2>9, <2>10, <3>1
    <3>2. CASE v # u
      <4> HIDE DEF t
      <4> QED BY <1>1, <2>6, <3>2 DEF Table
    <3> QED BY <3>1, <3>2
  <2>12. t = applyPaymentUpdate(u, facts)
    BY <1>3 DEF applyPaymentUpdate
  <2> HIDE DEF t
  <2> QED BY <1>3, <2>5, <2>6, <2>11, <2>12
<1> QED BY <1>2, <1>3

\* What the table says holds once it is committed.
RowsOk == (\A u \in Updates : RowOk(u)) /\ InProgressIsLast /\ CardOk /\ LatestCardStands

LEMMA TableCommits ==
  ASSUME CardInv, Table(rows'), UNCHANGED <<session, sub, keyed>>,
         \A u \in Updates : ev'[u].sent = ev[u].sent
  PROVE  RowsOk' /\ Onward
<1>1. Recorded' = Recorded
  BY DEF Table, Recorded
<1>2. \A u \in Updates : RowOk(u)'
  <2> TAKE u \in Updates
  <2>1. RowOk(u)
    BY DEF CardInv
  <2>2. Means(u, rows'[u].status) => Means(u, rows[u].status)'
    BY DEF Means
  <2> QED BY <1>1, <2>1, <2>2 DEF RowOk, Table
<1>3. InProgressIsLast' /\ CardOk'
  BY DEF Table, CardInv, InProgressIsLast, CardOk, Unfinished
<1>4. LatestCardStands'
  BY DEF Table, LatestCardStands
<1>5. Onward
  BY DEF Onward, Table
<1> QED BY <1>2, <1>3, <1>4, <1>5 DEF RowsOk

\* An update is recorded when none is in progress: it is the latest.
LEMMA TableInserts ==
  ASSUME PaymentMethodsAssumption, CardInv, NEW t, Table(t), NEW id \in Updates, rows[id].status = "NONE",
         \A u \in Updates : t[u].status \notin {"PENDING", "OPEN"},
         rows' = [t EXCEPT ![id] = InsertPaymentUpdate(id)[id]],
         UNCHANGED <<session, sub, keyed>>, \A u \in Updates : ev'[u].sent = ev[u].sent
  PROVE  /\ rows' \in [Updates -> Row] /\ RowsOk' /\ Onward
         /\ rows'[id].status = "PENDING" /\ \A u \in Updates \ {id} : rows'[u] = t[u]
<1> DEFINE n == Cardinality(Recorded) + 1
           r == [status |-> "PENDING", session |-> FALSE, url |-> FALSE, at |-> clock, seq |-> n]
<1>1. IsFiniteSet(Recorded) /\ Cardinality(Recorded) \in Nat
  BY FS_Subset, FS_CardinalityType DEF PaymentMethodsAssumption, Recorded
<1>2. r \in Row
  BY <1>1 DEF Row, Statuses, CardInv, Shape
<1>3. InsertPaymentUpdate(id)[id] = r
  <2>1. rows \in [Updates -> Row]
    BY DEF CardInv, Shape
  <2> QED BY <2>1 DEF InsertPaymentUpdate, NoRow, Recorded
<1>4. rows' \in [Updates -> Row] /\ rows'[id] = r /\ \A u \in Updates \ {id} : rows'[u] = t[u]
  <2> HIDE DEF r
  <2> QED BY <1>2, <1>3 DEF Table
<1>5. Recorded' = Recorded \cup {id} /\ id \notin Recorded
  BY <1>4 DEF Recorded, Table
<1>6. Cardinality(Recorded') = Cardinality(Recorded) + 1
  BY <1>1, <1>5, FS_AddElement
<1>7. \A u \in Updates : rows[u].seq \in Nat /\ rows[u].seq <= Cardinality(Recorded)
  BY DEF CardInv, Shape, RowOk, Row
<1>8. session[id].status = "none" /\ id \notin keyed /\ ~ev[id].sent
  BY DEF CardInv, RowOk
<1>9. \A u \in Updates : RowOk(u)'
  <2> TAKE u \in Updates
  <2>1. CASE u = id
    BY <1>1, <1>4, <1>6, <1>8, <2>1 DEF RowOk, terminalPaymentUpdate
  <2>2. CASE u # id
    <3>1. RowOk(u) /\ rows'[u] = t[u]
      BY <1>4, <2>2 DEF CardInv
    <3>2. Means(u, t[u].status) => Means(u, rows[u].status)'
      BY <3>1 DEF Means
    <3> QED BY <1>1, <1>6, <1>7, <3>1, <3>2 DEF RowOk, Table
  <2> QED BY <2>1, <2>2
<1>10. InProgressIsLast'
  BY <1>1, <1>4, <1>7 DEF InProgressIsLast, Unfinished, Table
<1>11. CardOk'
  BY <1>4, <1>8 DEF CardInv, CardOk, Unfinished
<1>12. LatestCardStands'
  <2>1. sub.card \in Updates => sub.card # id
    BY <1>8 DEF CardInv, CardOk
  <2> QED BY <1>4, <2>1 DEF LatestCardStands, Table
<1>13. Onward
  BY <1>4 DEF Onward, Table
<1> QED BY <1>4, <1>9, <1>10, <1>11, <1>12, <1>13 DEF RowsOk

\* An actor records, and holds the row no longer.
LEMMA RecordStep ==
  ASSUME PaymentMethodsAssumption, CardInv, NEW p \in Actors, lock \in {"none", p}, lock' = "none",
         rows' \in [Updates -> Row], RowsOk', Onward, ev' \in [Updates -> Event],
         act' \in [Actors -> Act], \A q \in Actors \ {p} : act'[q] = act[q], ActorOk(p)',
         UNCHANGED <<clock, deaths, session, sub, keyed>>
  PROVE  CardInv'
<1>1. \A q \in Actors \ {p} : lock # q
  BY DEF PaymentMethodsAssumption, Actors
<1>2. Shape'
  BY DEF CardInv, Shape, None
<1>3. \A q \in Actors : ActorOk(q)'
  BY <1>1, OthersKeep DEF CardInv
<1>4. HolderOk'
  BY DEF HolderOk
<1> QED BY <1>2, <1>3, <1>4 DEF CardInv, RowsOk

LEMMA OpenTyped ==
  ASSUME Shape, NEW p \in Actors, NEW u \in Updates, To(p, [act[p] EXCEPT !.pc = "open", !.row = u])
  PROVE  /\ act' \in [Actors -> Act] /\ \A q \in Actors \ {p} : act'[q] = act[q]
         /\ act'[p].pc = "open" /\ act'[p].row = u /\ act'[p].id = act[p].id
<1> DEFINE b == [act[p] EXCEPT !.pc = "open", !.row = u]
<1>1. act[p] \in Act
  BY DEF Shape
<1>2. b \in Act /\ b.pc = "open" /\ b.row = u /\ b.id = act[p].id
  BY <1>1 DEF Act, None, Opening
<1>3. act' = [act EXCEPT ![p] = b]
  BY DEF To
<1> HIDE DEF b
<1> QED BY <1>2, <1>3, ToTyped

LEMMA InsertStep ==
  ASSUME PaymentMethodsAssumption, CardInv, NEW p \in Requests, lock \in {"none", p}, lock' = "none",
         NEW t, Table(t), \A u \in Updates : t[u].status \notin {"PENDING", "OPEN"},
         act[p].id \in Updates, rows[act[p].id].status = "NONE", insertPaymentUpdate(p, t),
         UNCHANGED <<clock, deaths, session, sub, keyed, ev>>
  PROVE  CardInv'
<1> PICK id \in Updates : id = act[p].id
  OBVIOUS
<1>1. p \in Actors /\ Shape
  BY DEF Actors, CardInv
<1>2. /\ rows' \in [Updates -> Row] /\ RowsOk' /\ Onward
      /\ rows'[id].status = "PENDING"
  BY TableInserts DEF insertPaymentUpdate
<1>3. /\ act' \in [Actors -> Act] /\ \A q \in Actors \ {p} : act'[q] = act[q]
      /\ act'[p].pc = "open" /\ act'[p].row = id /\ act'[p].id = id
  BY <1>1, OpenTyped DEF insertPaymentUpdate
<1>4. ActorOk(p)'
  BY <1>2, <1>3 DEF ActorOk, Fetching, Fetched, Opening, Stalled
<1> QED BY <1>1, <1>2, <1>3, <1>4, RecordStep DEF Shape

\* The update in progress is brought up to date: it ends the request, makes room
\* for the request's own, or is the one to go on with.
LEMMA SettledStep ==
  ASSUME PaymentMethodsAssumption, CardInv, NEW p \in Requests, NEW u \in Updates, Unfinished(u),
         lock \in {"none", p}, Means(u, act[p].facts),
         act[p].id \in Updates, rows[act[p].id].status = "NONE",
         Settled(p, u, applyPaymentUpdate(u, act[p].facts)),
         UNCHANGED <<clock, deaths, session, sub, keyed, ev>>
  PROVE  CardInv'
<1> DEFINE t == applyPaymentUpdate(u, act[p].facts)
<1>1. p \in Actors /\ Shape
  BY DEF Actors, CardInv
<1>2. Table(t)
  BY TableUpdated DEF Unfinished
<1>3. CASE rows' = t /\ End(p)
  <2>1. RowsOk' /\ Onward
    BY <1>2, <1>3, TableCommits
  <2>2. lock' = "none" /\ act' \in [Actors -> Act] /\ act'[p] = Idle /\ \A q \in Actors \ {p} : act'[q] = act[q]
    BY <1>1, <1>3, IdleTyped, ToTyped DEF End, To
  <2>3. ActorOk(p)'
    BY <2>2 DEF ActorOk, Idle, Fetching, Fetched, Opening, Stalled
  <2> QED BY <1>1, <1>2, <1>3, <2>1, <2>2, <2>3, RecordStep DEF Table, Shape
<1>4. CASE t[u].status = "EXPIRED" /\ insertPaymentUpdate(p, t) /\ lock' = "none"
  <2>1. \A v \in Updates : t[v].status \notin {"PENDING", "OPEN"}
    BY <1>2, <1>4 DEF Table, CardInv, InProgressIsLast
  <2> HIDE DEF t
  <2> QED BY <1>2, <1>4, <2>1, InsertStep
<1>5. CASE rows' = t /\ To(p, [act[p] EXCEPT !.pc = "open", !.row = u]) /\ lock' = "none"
  <2>1. RowsOk' /\ Onward
    BY <1>2, <1>5, TableCommits
  <2>2. /\ act' \in [Actors -> Act] /\ \A q \in Actors \ {p} : act'[q] = act[q]
        /\ act'[p].pc = "open" /\ act'[p].row = u /\ act'[p].id = act[p].id
    BY <1>1, <1>5, OpenTyped
  <2>3. rows'[u].status # "NONE"
    BY <1>2, <1>5 DEF Table, Unfinished
  <2>4. ActorOk(p)'
    BY <2>2, <2>3 DEF ActorOk, Fetching, Fetched, Opening, Stalled
  <2> QED BY <1>1, <1>2, <1>5, <2>1, <2>2, <2>4, RecordStep DEF Table, Shape
<1> HIDE DEF t
<1>6. Settled(p, u, t)
  BY DEF t
<1> QED BY <1>3, <1>4, <1>5, <1>6 DEF Settled

LEMMA StageStep ==
  ASSUME PaymentMethodsAssumption, CardInv, NEW p \in Requests, stagePaymentUpdate(p)
  PROVE  CardInv'
<1>1. p \in Actors /\ Shape /\ ActorOk(p) /\ act[p].pc = "stage" /\ lock = "none"
      /\ UNCHANGED <<clock, deaths, session, sub, keyed, ev>>
  BY DEF Actors, CardInv, stagePaymentUpdate, Free, Time, Processor
<1>2. PICK id \in Updates : id = act[p].id
  BY <1>1 DEF ActorOk
<1>3. lock # p /\ \A q \in Actors : lock # q
  BY <1>1 DEF PaymentMethodsAssumption, Actors
<1>4. CASE UNCHANGED <<rows, lock>> /\ To(p, Idle)
  BY <1>1, <1>3, <1>4, EndStep DEF Shape
<1>5. ASSUME NEW u \in Updates, rows[u].status # "NONE", UNCHANGED <<rows, lock>>,
             To(p, [act[p] EXCEPT !.pc = "open", !.row = u])
      PROVE  CardInv'
  <2>1. /\ act' \in [Actors -> Act] /\ \A q \in Actors \ {p} : act'[q] = act[q]
        /\ act'[p].pc = "open" /\ act'[p].row = u /\ act'[p].id = id
    BY <1>1, <1>2, <1>5, OpenTyped
  <2>2. ActorOk(p)' /\ Shape' /\ HolderOk'
    BY <1>1, <1>5, <2>1 DEF ActorOk, Fetching, Fetched, Opening, Stalled, Shape, HolderOk
  <2> QED BY <1>1, <1>3, <1>5, <2>1, <2>2, ReadStep
<1>6. CASE rows[id].status = "NONE" /\ UnfinishedPaymentUpdate = {} /\ insertPaymentUpdate(p, rows) /\ UNCHANGED lock
  <2>1. \A u \in Updates : rows[u].status \notin {"PENDING", "OPEN"}
    BY <1>6 DEF UnfinishedPaymentUpdate
  <2> QED BY <1>1, <1>2, <1>6, <2>1, TableAsItIs, InsertStep
<1>7. ASSUME NEW u \in Updates, Unfinished(u), rows[id].status = "NONE",
             \/ ~rows[u].session /\ To(p, [act[p] EXCEPT !.pc = "open", !.row = u]) /\ UNCHANGED <<rows, lock>>
             \/ rows[u].session /\ act[p].of = u /\ Settled(p, u, applyPaymentUpdate(u, act[p].facts))
             \/ rows[u].session /\ fetchPaymentUpdate(p, u, act[p]) /\ lock' = p /\ UNCHANGED rows
      PROVE  CardInv'
  <2>1. CASE ~rows[u].session /\ To(p, [act[p] EXCEPT !.pc = "open", !.row = u]) /\ UNCHANGED <<rows, lock>>
    BY <1>5, <1>7, <2>1 DEF Unfinished
  <2>2. CASE act[p].of = u /\ Settled(p, u, applyPaymentUpdate(u, act[p].facts))
    <3>1. Means(u, act[p].facts)
      BY <1>1, <2>2 DEF ActorOk
    <3> QED BY <1>1, <1>2, <1>7, <2>2, <3>1, SettledStep
  <2>3. CASE rows[u].session /\ fetchPaymentUpdate(p, u, act[p]) /\ lock' = p /\ UNCHANGED rows
    <3>1. act[p] \in Act
      BY <1>1 DEF Shape
    <3>2. /\ act' \in [Actors -> Act] /\ \A q \in Actors \ {p} : act'[q] = act[q]
          /\ act'[p].pc = "verify" /\ act'[p].row = u /\ act'[p].id = id
      BY <1>1, <1>2, <2>3, <3>1, FetchTyped
    <3>3. session[u].status # "none"
      BY <2>3 DEF CardInv, RowOk
    <3>4. ActorOk(p)'
      BY <1>1, <1>7, <2>3, <3>2, <3>3 DEF ActorOk, Fetching, Fetched, Opening, Stalled, Unfinished
    <3>5. Shape'
      BY <1>1, <2>3, <3>2 DEF Shape, None
    <3>6. HolderOk'
      BY <1>7, <2>3, <3>2 DEF HolderOk, Fetching, Unfinished
    <3> QED BY <1>1, <1>3, <2>3, <3>2, <3>4, <3>5, <3>6, ReadStep
  <2> QED BY <1>7, <2>1, <2>2, <2>3
<1>8. CASE /\ rows[id].status = "NONE"
           /\ \E u \in UnfinishedPaymentUpdate :
                \/ ~rows[u].session /\ To(p, [act[p] EXCEPT !.pc = "open", !.row = u]) /\ UNCHANGED <<rows, lock>>
                \/ rows[u].session /\ act[p].of = u /\ Settled(p, u, applyPaymentUpdate(u, act[p].facts))
                \/ rows[u].session /\ fetchPaymentUpdate(p, u, act[p]) /\ lock' = p /\ UNCHANGED rows
  BY <1>7, <1>8 DEF UnfinishedPaymentUpdate, Unfinished
<1>9. CASE rows[id].status # "NONE" /\ UNCHANGED <<rows, lock>> /\ To(p, [act[p] EXCEPT !.pc = "open", !.row = id])
  BY <1>5, <1>9
<1> QED BY <1>2, <1>4, <1>6, <1>8, <1>9 DEF stagePaymentUpdate, PaymentUpdateByID

LEMMA StageFetchedStep ==
  ASSUME PaymentMethodsAssumption, CardInv, NEW p \in Requests, StageFetched(p)
  PROVE  CardInv'
<1>1. p \in Actors /\ p # "none" /\ act[p].pc = "apply" /\ lock = p /\ ActorOk(p)
      /\ UNCHANGED <<clock, deaths, session, sub, keyed, ev>>
  BY DEF PaymentMethodsAssumption, Actors, CardInv, StageFetched, Time, Processor
<1> PICK u \in Updates : u = act[p].row
  BY <1>1 DEF ActorOk, Fetched
<1>2. Unfinished(u) /\ rows[act[p].id].status = "NONE"
  BY <1>1 DEF CardInv, HolderOk
<1>3. Means(u, act[p].facts) /\ act[p].id \in Updates
  BY <1>1 DEF ActorOk, Fetched
<1> QED BY <1>1, <1>2, <1>3, SettledStep DEF StageFetched

LEMMA SaveStep ==
  ASSUME PaymentMethodsAssumption, CardInv, NEW p \in Requests, SaveSession(p)
  PROVE  CardInv'
<1>1. p \in Actors /\ Shape /\ ActorOk(p) /\ act[p].pc = "save" /\ lock = "none"
      /\ UNCHANGED <<clock, deaths, session, sub, keyed, ev, lock>> /\ To(p, Idle)
  BY DEF Actors, CardInv, SaveSession, Free, Time, Processor
<1> PICK u \in Updates : u = act[p].row
  BY <1>1 DEF ActorOk, Opening
<1>2. rows[u].status # "NONE" /\ session[u].status # "none" /\ rows[u] \in Row
  BY <1>1 DEF ActorOk, Opening, Shape
<1>3. Table(rows')
  <2>1. CASE rows' = rows
    BY <2>1, TableAsItIs
  <2>2. CASE ~terminalPaymentUpdate(rows[u].status) /\ rows' = SavePaymentUpdate(u, "OPEN", TRUE)
    <3>1. PICK r \in Row : r = [rows[u] EXCEPT !.status = "OPEN", !.session = TRUE, !.url = TRUE]
      BY <1>2 DEF Row, Statuses
    <3>2. r.status = "OPEN" /\ r.session = TRUE /\ r.url = TRUE /\ r.seq = rows[u].seq
      BY <1>2, <3>1 DEF Row
    <3>3. rows' = [rows EXCEPT ![u] = r]
      BY <1>1, <2>2, <3>1 DEF SavePaymentUpdate, Shape, Row
    <3>4. rows' \in [Updates -> Row] /\ rows'[u] = r /\ \A v \in Updates \ {u} : rows'[v] = rows[v]
      BY <1>1, <3>3 DEF Shape
    <3>5. Unfinished(u)
      BY <1>2, <2>2 DEF Row, Statuses, terminalPaymentUpdate, Unfinished
    <3>6. Table(rows)
      BY TableAsItIs
    <3> QED BY <1>2, <3>2, <3>4, <3>5, <3>6 DEF Table, terminalPaymentUpdate
  <2> QED BY <2>1, <2>2 DEF SaveSession
<1>4. RowsOk' /\ Onward
  BY <1>1, <1>3, TableCommits
<1>5. act' \in [Actors -> Act] /\ act'[p] = Idle /\ \A q \in Actors \ {p} : act'[q] = act[q]
  BY <1>1, IdleTyped, ToTyped DEF To
<1>6. ActorOk(p)'
  BY <1>5 DEF ActorOk, Idle, Fetching, Fetched, Opening, Stalled
<1> QED BY <1>1, <1>3, <1>4, <1>5, <1>6, RecordStep DEF Table, Shape

LEMMA EventStep ==
  ASSUME PaymentMethodsAssumption, CardInv, NEW w \in Workers, applyPaymentUpdateEvent(w)
  PROVE  CardInv'
<1>1. w \in Actors /\ Shape /\ ActorOk(w) /\ act[w].pc = "event" /\ lock = "none"
      /\ UNCHANGED <<clock, deaths, session, sub, keyed, lock>> /\ To(w, Idle)
  BY DEF Actors, CardInv, applyPaymentUpdateEvent, Free, Time, Processor
<1> PICK u \in Updates : u = act[w].row
  BY <1>1 DEF ActorOk, Fetched
<1>2. rows[u].status # "NONE" /\ Means(u, act[w].facts)
  BY <1>1 DEF ActorOk, Fetched
<1>3. Table(rows')
  BY <1>2, TableUpdated DEF applyPaymentUpdateEvent
<1>4. ev' \in [Updates -> Event] /\ \A v \in Updates : ev'[v].sent = ev[v].sent
  BY <1>1 DEF applyPaymentUpdateEvent, Shape, Event
<1>5. RowsOk' /\ Onward
  BY <1>1, <1>3, <1>4, TableCommits
<1>6. act' \in [Actors -> Act] /\ act'[w] = Idle /\ \A q \in Actors \ {w} : act'[q] = act[q]
  BY <1>1, IdleTyped, ToTyped DEF To
<1>7. ActorOk(w)'
  BY <1>6 DEF ActorOk, Idle, Fetching, Fetched, Opening, Stalled
<1> QED BY <1>1, <1>3, <1>4, <1>5, <1>6, <1>7, RecordStep DEF Table

-----------------------------------------------------------------------------
\* A session goes on: it is created, or it ends with a card or without one.
LEMMA SessionMoves ==
  ASSUME CardInv, NEW u \in Updates, rows[u].status # "NONE", session[u].status \in {"none", "open"},
         NEW status \in {"open", "complete", "expired"}, session' = [session EXCEPT ![u].status = status],
         UNCHANGED <<rows, sub, keyed>>,
         \A v \in Updates : ev'[v].sent => ev[v].sent \/ (v = u /\ status # "open")
  PROVE  session' \in [Updates -> Session] /\ session'[u].status = status /\ RowsOk' /\ Onward
<1>1. /\ session' \in [Updates -> Session] /\ session'[u].status = status
      /\ \A v \in Updates \ {u} : session'[v] = session[v]
  <2>1. session \in [Updates -> Session]
    BY DEF CardInv, Shape
  <2> DEFINE z == [session[u] EXCEPT !.status = status]
  <2>2. z \in Session /\ z.status = status /\ session' = [session EXCEPT ![u] = z]
    BY <2>1 DEF Session
  <2> HIDE DEF z
  <2> QED BY <2>1, <2>2
<1>2. Onward
  BY <1>1 DEF Onward
<1>3. \A v \in Updates : RowOk(v)'
  <2> TAKE v \in Updates
  <2>1. RowOk(v)
    BY DEF CardInv
  <2>2. Means(v, rows[v].status) => Means(v, rows[v].status)'
    BY <1>1, <1>2 DEF Means, Onward
  <2>3. CASE v = u
    BY <1>1, <2>1, <2>2, <2>3 DEF RowOk, Recorded
  <2>4. CASE v # u
    BY <1>1, <2>1, <2>2, <2>4 DEF RowOk, Recorded
  <2> QED BY <2>3, <2>4
<1>4. InProgressIsLast' /\ CardOk' /\ LatestCardStands'
  BY DEF CardInv, InProgressIsLast, CardOk, LatestCardStands, Unfinished
<1> QED BY <1>1, <1>2, <1>3, <1>4 DEF RowsOk

LEMMA CreateStep ==
  ASSUME PaymentMethodsAssumption, CardInv, NEW p \in Requests, CreateCheckout(p)
  PROVE  CardInv'
<1>1. p \in Actors /\ Shape /\ ActorOk(p) /\ act[p].pc = "create" /\ Pc(p, "save")
      /\ UNCHANGED <<clock, deaths, rows, sub, keyed, ev, lock>>
  BY DEF Actors, CardInv, CreateCheckout, Time
<1>2. lock # p
  BY <1>1 DEF CardInv, HolderOk, Fetching, Stalled, PaymentMethodsAssumption, Actors
<1> PICK u \in Updates : u = act[p].row
  BY <1>1 DEF ActorOk, Opening
<1>3. /\ act' \in [Actors -> Act] /\ \A q \in Actors \ {p} : act'[q] = act[q]
      /\ act'[p].pc = "save" /\ act'[p].row = u /\ act'[p].id = act[p].id
  BY <1>1, PcStep DEF Opening
<1>4. HolderOk'
  BY <1>1, <1>2, <1>3, HolderKeeps
<1>5. act'[p].id \in Updates /\ rows'[u].status # "NONE"
  BY <1>1, <1>3 DEF ActorOk, Opening
<1>6. CASE session[u].status # "none"
  <2>1. session' = session
    BY <1>6 DEF CreateCheckout
  <2>2. ActorOk(p)' /\ Shape'
    BY <1>1, <1>3, <1>5, <1>6, <2>1 DEF ActorOk, Fetching, Fetched, Opening, Stalled, Shape
  <2> QED BY <1>1, <1>3, <1>4, <2>1, <2>2, ReadStep
<1>7. CASE session[u].status = "none"
  <2>1. session' = [session EXCEPT ![u].status = "open"]
    BY <1>7 DEF CreateCheckout
  <2>2. session' \in [Updates -> Session] /\ session'[u].status = "open" /\ RowsOk' /\ Onward
    BY <1>1, <1>5, <1>7, <2>1, SessionMoves
  <2>3. ActorOk(p)' /\ Shape'
    BY <1>1, <1>3, <1>5, <2>2 DEF ActorOk, Fetching, Fetched, Opening, Stalled, Shape
  <2>4. \A q \in Actors : ActorOk(q)'
    BY <1>1, <1>3, <2>2, <2>3, OthersKeep DEF CardInv
  <2> QED BY <1>4, <2>2, <2>3, <2>4 DEF CardInv, RowsOk
<1> QED BY <1>6, <1>7

\* What the donor and the processor do leaves every actor what it holds.
LEMMA OutsideStep ==
  ASSUME CardInv, Shape', Onward, RowsOk', UNCHANGED <<rows, act, lock>>
  PROVE  CardInv'
<1>1. \A p \in Actors : ActorOk(p)'
  BY ActorKeeps DEF CardInv, ActorOk
<1>2. HolderOk'
  BY DEF CardInv, HolderOk, Unfinished
<1> QED BY <1>1, <1>2 DEF CardInv, RowsOk

LEMMA PageStep ==
  ASSUME PaymentMethodsAssumption, CardInv, NEW u \in Updates, EnterCard(u) \/ ExpireSession(u)
  PROVE  CardInv'
<1> DEFINE status == IF EnterCard(u) THEN "complete" ELSE "expired"
<1>1. Shape /\ RowOk(u) /\ session[u].status = "open"
  BY DEF CardInv, EnterCard, ExpireSession
<1>2. session' = [session EXCEPT ![u].status = status] /\ ev' = [ev EXCEPT ![u].sent = TRUE]
      /\ UNCHANGED <<clock, deaths, rows, sub, keyed, act, lock>>
  <2>1. CASE EnterCard(u)
    BY <2>1 DEF EnterCard, Time
  <2>2. CASE ~EnterCard(u)
    BY <2>2 DEF ExpireSession, Time
  <2> QED BY <2>1, <2>2
<1>3. rows[u].status # "NONE"
  BY <1>1 DEF RowOk
<1>4. status \in {"complete", "expired"}
  OBVIOUS
<1> HIDE DEF status
<1>5. ev' \in [Updates -> Event] /\ \A v \in Updates \ {u} : ev'[v] = ev[v]
  BY <1>1, <1>2 DEF Shape, Event
<1>6. \A v \in Updates : ev'[v].sent => ev[v].sent \/ (v = u /\ status # "open")
  BY <1>4, <1>5
<1>7. session' \in [Updates -> Session] /\ RowsOk' /\ Onward
  BY <1>1, <1>2, <1>3, <1>4, <1>6, SessionMoves
<1>8. Shape'
  BY <1>1, <1>2, <1>5, <1>7 DEF Shape
<1> QED BY <1>2, <1>7, <1>8, OutsideStep

LEMMA EndSubscriptionStep == ASSUME CardInv, EndSubscription PROVE CardInv'
<1>1. UNCHANGED <<clock, deaths, rows, session, keyed, ev, act, lock>> /\ sub' = [sub EXCEPT !.status = "canceled"]
  BY DEF EndSubscription, Time
<1>2. sub' \in Subscription /\ sub'.card = sub.card /\ sub'.status = "canceled"
  BY <1>1 DEF CardInv, Shape, Subscription
<1>3. Onward
  BY <1>1, <1>2 DEF Onward
<1>4. \A u \in Updates : RowOk(u)'
  <2> TAKE u \in Updates
  <2>1. RowOk(u)
    BY DEF CardInv
  <2>2. Means(u, rows[u].status) => Means(u, rows[u].status)'
    BY <1>1, <1>2 DEF Means
  <2> QED BY <1>1, <2>1, <2>2 DEF RowOk, Recorded
<1>5. InProgressIsLast' /\ CardOk' /\ LatestCardStands'
  BY <1>1, <1>2 DEF CardInv, InProgressIsLast, CardOk, LatestCardStands, Unfinished
<1>6. Shape'
  BY <1>1, <1>2 DEF CardInv, Shape
<1> QED BY <1>1, <1>3, <1>4, <1>5, <1>6, OutsideStep DEF RowsOk

LEMMA NothingHappens ==
  ASSUME CardInv, clock' \in 0 .. MaxTime, UNCHANGED <<deaths, rows, session, sub, keyed, ev, act, lock>>
  PROVE  CardInv'
<1>1. Shape' /\ Onward
  BY DEF CardInv, Shape, Onward
<1>2. \A u \in Updates : RowOk(u)'
  BY DEF CardInv, RowOk, Means, Recorded
<1>3. InProgressIsLast' /\ CardOk' /\ LatestCardStands'
  BY DEF CardInv, InProgressIsLast, CardOk, LatestCardStands, Unfinished
<1> QED BY <1>1, <1>2, <1>3, OutsideStep DEF RowsOk

LEMMA InitIsSafe == ASSUME PaymentMethodsAssumption, Init PROVE CardInv
<1>1. Idle \in Act /\ Idle.pc = "idle" /\ NoRow \in Row
  BY IdleTyped DEF PaymentMethodsAssumption, NoRow, Row, Statuses
<1>2. Shape
  <2>1. clock \in 0 .. MaxTime /\ deaths \in 0 .. MaxDeaths
    BY DEF Init, PaymentMethodsAssumption
  <2>2. rows \in [Updates -> Row] /\ act \in [Actors -> Act]
    BY <1>1 DEF Init
  <2>3. session \in [Updates -> Session] /\ sub \in Subscription /\ keyed \in SUBSET Updates
        /\ ev \in [Updates -> Event] /\ lock \in None(Actors)
    BY DEF Init, Session, Subscription, Event, None
  <2> QED BY <2>1, <2>2, <2>3 DEF Shape
<1>3. Cardinality(Recorded) = 0
  <2>1. Recorded = {}
    BY DEF Init, Recorded, NoRow
  <2> QED BY <2>1, FS_EmptySet
<1>4. \A u \in Updates : RowOk(u)
  BY <1>3 DEF Init, RowOk, NoRow, terminalPaymentUpdate
<1>5. InProgressIsLast /\ CardOk /\ LatestCardStands
  BY DEF Init, InProgressIsLast, CardOk, LatestCardStands, Unfinished, NoRow, PaymentMethodsAssumption
<1>6. \A p \in Actors : ActorOk(p)
  BY <1>1 DEF Init, ActorOk, Fetching, Fetched, Opening, Stalled
<1>7. HolderOk
  BY DEF Init, HolderOk
<1> QED BY <1>2, <1>4, <1>5, <1>6, <1>7 DEF CardInv

LEMMA StepIsSafe == ASSUME PaymentMethodsAssumption, CardInv, [Next]_vars PROVE CardInv'
<1>1. clock \in 0 .. MaxTime /\ deaths \in 0 .. MaxDeaths
  BY DEF CardInv, Shape
<1>2. CASE \E p \in Actors : Fetch(p)
  <2>1. PICK p \in Actors : Fetch(p)
    BY <1>2
  <2>2. CASE Refuse(p)
    BY <1>1, <2>2, FailsStep DEF Refuse
  <2> QED BY <2>1, <2>2, VerifyStep, ApplyStep, SetStep, ConfirmStep DEF Fetch
<1>3. CASE \E p \in Actors : Die(p)
  <2>1. PICK p \in Actors : Die(p)
    BY <1>3
  <2>2. deaths' \in 0 .. MaxDeaths /\ Fails(p)
    BY <1>1, <2>1 DEF Die, PaymentMethodsAssumption
  <2> QED BY <2>2, FailsStep
<1>4. CASE \E p \in Requests : Begin(p)
  BY <1>4, BeginStep DEF Begin
<1>5. CASE \E p \in Requests : Request(p)
  BY <1>5, StageStep, StageFetchedStep, OpenStep, CreateStep, SaveStep DEF Request
<1>6. CASE \E w \in Workers : Work(w)
  BY <1>6, ClaimStep, EventStep DEF Work
<1>7. CASE \E u \in Updates : EnterCard(u) \/ ExpireSession(u)
  BY <1>7, PageStep
<1>8. CASE EndSubscription
  BY <1>8, EndSubscriptionStep
<1>9. CASE Tick
  <2>1. clock' \in 0 .. MaxTime
    BY <1>1, <1>9 DEF Tick, PaymentMethodsAssumption
  <2> QED BY <1>9, <2>1, NothingHappens DEF Tick
<1>10. CASE UNCHANGED vars
  BY <1>1, <1>10, NothingHappens DEF vars
<1> QED BY <1>2, <1>3, <1>4, <1>5, <1>6, <1>7, <1>8, <1>9, <1>10 DEF Next

-----------------------------------------------------------------------------
\* In every state the update in progress is the latest, a card was set only for
\* updates whose session holds one, and every outcome recorded or held by a
\* stalled actor is true of the processor (payment_setup.go, payment_methods.go).
THEOREM CardInvariant == ASSUME PaymentMethodsAssumption PROVE Spec => []CardInv
<1>1. Init => CardInv
  BY InitIsSafe
<1>2. CardInv /\ [Next]_vars => CardInv'
  BY StepIsSafe
<1> QED BY <1>1, <1>2, PTL DEF Spec

\* The table, the lock and the keys have their types, a hosted page is offered
\* exactly while an update is open, and a card was set only for a session that
\* holds one (stagePaymentUpdate, UpdateSubscriptionPaymentMethod).
THEOREM CardsTypeCorrect == ASSUME PaymentMethodsAssumption PROVE Spec => []TypeOK
<1>1. CardInv => TypeOK
  <2> SUFFICES ASSUME CardInv PROVE TypeOK
    OBVIOUS
  <2>1. IsFiniteSet(Updates) /\ Recorded \subseteq Updates
    BY DEF PaymentMethodsAssumption, Recorded
  <2>2. Cardinality(Updates) \in Nat /\ Cardinality(Recorded) \in Nat
        /\ Cardinality(Recorded) <= Cardinality(Updates)
    BY <2>1, FS_Subset, FS_CardinalityType
  <2>3. \A u \in Updates : rows[u] \in [status : Statuses, session : BOOLEAN, url : BOOLEAN, at : 0 .. MaxTime,
                                        seq : 0 .. Cardinality(Updates)]
    <3> TAKE u \in Updates
    <3>1. rows[u] \in Row /\ rows[u].seq <= Cardinality(Recorded)
      BY DEF CardInv, Shape, RowOk
    <3>2. rows[u].seq \in 0 .. Cardinality(Updates)
      BY <2>2, <3>1 DEF Row
    <3> QED BY <3>1, <3>2 DEF Row
  <2>4. rows \in [Updates -> [status : Statuses, session : BOOLEAN, url : BOOLEAN, at : 0 .. MaxTime,
                              seq : 0 .. Cardinality(Updates)]]
    BY <2>3 DEF CardInv, Shape
  <2>5. lock \in Actors \cup {"none"} /\ keyed \subseteq Updates
    BY DEF CardInv, Shape, None
  <2> QED BY <2>4, <2>5 DEF TypeOK, CardInv, RowOk
<1> QED BY <1>1, CardInvariant, PTL

\* At most one of a set's members at a time.
LEMMA OneAtMost ==
  ASSUME NEW S, \A x, y \in S : x = y
  PROVE  Cardinality(S) <= 1
<1>1. CASE S = {}
  BY <1>1, FS_EmptySet
<1>2. CASE S # {}
  <2>1. PICK x : S = {x}
    BY <1>2
  <2> QED BY <2>1, FS_Singleton
<1> QED BY <1>1, <1>2

\* A donor has one update in progress and one hosted page that may still take a
\* card, whatever requests come at once or are repeated (stagePaymentUpdate).
THEOREM OneUpdate == ASSUME PaymentMethodsAssumption PROVE Spec => []OneInProgress
<1>1. CardInv => OneInProgress
  <2> SUFFICES ASSUME CardInv PROVE OneInProgress
    OBVIOUS
  <2>1. \A u \in Updates : session[u].status = "open" => Unfinished(u)
    <3> TAKE u \in Updates
    <3>1. RowOk(u) /\ rows[u] \in Row
      BY DEF CardInv, Shape
    <3> QED BY <3>1 DEF RowOk, Means, Row, Statuses, terminalPaymentUpdate, Unfinished
  <2>2. \A u, v \in {w \in Updates : rows[w].status \in {"PENDING", "OPEN"}} : u = v
    BY DEF CardInv, InProgressIsLast, Unfinished
  <2>3. \A u, v \in {w \in Updates : session[w].status = "open"} : u = v
    BY <2>1 DEF CardInv, InProgressIsLast
  <2> QED BY <2>2, <2>3, OneAtMost DEF OneInProgress
<1> QED BY <1>1, CardInvariant, PTL

\* The card the donor entered last stays the subscription's: a fetch of an older
\* update that stalled calls the processor in vain (applyDefaultMethod).
THEOREM LatestCardTrue == ASSUME PaymentMethodsAssumption PROVE Spec => []LatestCardStands
<1>1. CardInv => LatestCardStands
  BY DEF CardInv
<1> QED BY <1>1, CardInvariant, PTL
=============================================================================
