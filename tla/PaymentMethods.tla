--------------------------- MODULE PaymentMethods ---------------------------
(***************************************************************************)
(* Card updates of one donor's monthly gift (internal/store/               *)
(* payment_setup.go and payment_methods.go, worker.go).                    *)
(*                                                                         *)
(* A request commits an update under the donor lock, creates its hosted    *)
(* session without the lock and records the session under it again. When   *)
(* the donor has entered a card, whoever reads the session first, the      *)
(* event worker or the donor's next request, makes the card the            *)
(* subscription's default, and then records the update's outcome. Those    *)
(* calls run without the lock and may run twice or stall.                  *)
(*                                                                         *)
(* An update's session is named by the update: the processor answers a     *)
(* create under the same key with the same session.                        *)
(***************************************************************************)
EXTENDS Integers, FiniteSets, FiniteSetsExt

CONSTANTS
  Updates,      \* request ids, which name updates
  Requests,     \* requests of the donor
  Workers,      \* Stripe event workers
  Life,         \* how long a hosted session's parameters are good (one hour)
  Margin,       \* a session is not created so soon before that (half an hour)
  Window,       \* commandRetryWindow
  MaxAttempts,  \* the attempts an event has
  MaxTime, MaxDeaths  \* bounds: clock, steps that fail or whose answer is lost

PaymentMethodsAssumption ==
  /\ {Margin, MaxTime, MaxDeaths} \subseteq Nat
  /\ Life \in Nat /\ Margin < Life /\ Life < Window /\ Window \in Nat
  /\ MaxAttempts \in Nat \ {0} /\ Requests \cap Workers = {}
  /\ IsFiniteSet(Updates) /\ {"none", "first"} \cap Updates = {}
  /\ "none" \notin Requests \cup Workers

VARIABLES
  clock, deaths,
  rows,    \* donor_payment_updates
  session, \* the processor's setup sessions
  sub,     \* the processor's subscription: its status and its default card
  keyed,   \* updates whose default card the processor was asked to set
  ev,      \* donor_stripe_events, one for each session that ended
  act,     \* what each request and worker holds
  lock     \* who holds the donor's row while it calls the processor

vars == <<clock, deaths, rows, session, sub, keyed, ev, act, lock>>

Actors == Requests \cup Workers
Statuses == {"NONE", "PENDING", "OPEN", "APPLIED", "EXPIRED", "CANCELLED"}
NoRow == [status |-> "NONE", session |-> FALSE, url |-> FALSE, at |-> 0, seq |-> 0]
Idle == [pc |-> "idle", id |-> "none", row |-> "none", facts |-> "none", of |-> "none", at |-> 0, live |-> FALSE]

(***************************************************************************)
(* Statements.                                                             *)
(***************************************************************************)
terminalPaymentUpdate(status) == status \in {"APPLIED", "EXPIRED", "CANCELLED"}
PaymentUpdateByID(u) == rows[u]
UnfinishedPaymentUpdate == {u \in Updates : rows[u].status \in {"PENDING", "OPEN"}}
InsertPaymentUpdate(u) ==
  [rows EXCEPT ![u] = [NoRow EXCEPT !.status = "PENDING", !.at = clock,
                                    !.seq = Cardinality({v \in Updates : rows[v].status # "NONE"}) + 1]]
SavePaymentUpdate(u, status, url) == [rows EXCEPT ![u].status = status, ![u].session = TRUE, ![u].url = url]

Free == lock = "none"
To(p, a) == act' = [act EXCEPT ![p] = a]
Pc(p, pc) == act' = [act EXCEPT ![p].pc = pc]
End(p) == To(p, Idle) /\ lock' = (IF lock = p THEN "none" ELSE lock)
Time == UNCHANGED <<clock, deaths>>
Processor == UNCHANGED <<session, sub, keyed>>

(***************************************************************************)
(* fetchPaymentUpdate, which every actor runs: read the session; once it   *)
(* holds a card, read the subscription, set the card, read it again. What  *)
(* it found is in facts: the update's new status, or "" to leave it alone. *)
(***************************************************************************)
renews(status) == status = "active"
terminalSubscription(status) == status = "canceled"

Return(p, status) ==
  act' = [act EXCEPT ![p].facts = status, ![p].of = act[p].row,
                     ![p].live = p \in Requests /\ status = "EXPIRED" /\ lock # p /\ renews(sub.status),
                     ![p].pc = IF p \in Workers THEN "event" ELSE IF lock = p THEN "apply" ELSE "stage"]
fetchPaymentUpdate(p, u, a) == To(p, [a EXCEPT !.pc = "verify", !.row = u, !.at = clock])

verifiedSetup(p) ==
  /\ act[p].pc = "verify"
  /\ LET u == act[p].row
         seen == session[u].status
     IN CASE terminalPaymentUpdate(rows[u].status) -> Return(p, rows[u].status)
          [] ~terminalPaymentUpdate(rows[u].status) /\ seen = "expired" -> Return(p, "EXPIRED")
          [] ~terminalPaymentUpdate(rows[u].status) /\ seen = "open" -> Return(p, "")
          [] OTHER -> Pc(p, "read")
  /\ Time /\ Processor /\ UNCHANGED <<rows, ev, lock>>

TooOld(p) == act[p].at >= rows[act[p].row].at + Window
applyDefaultMethod(p) ==
  /\ act[p].pc = "read"
  /\ \/ terminalSubscription(sub.status) /\ Return(p, "CANCELLED")
     \/ renews(sub.status) /\ sub.card = act[p].row /\ Return(p, "APPLIED")
     \/ renews(sub.status) /\ sub.card # act[p].row /\ ~TooOld(p) /\ Pc(p, "set")
  /\ Time /\ Processor /\ UNCHANGED <<rows, ev, lock>>

(* Under a key it has seen the processor answers again and changes nothing. *)
Unkeyed(u) == TRUE  \* mutant
FirstUnderKey(u) == u \notin keyed
UpdateSubscriptionPaymentMethod(p) ==
  /\ act[p].pc = "set" /\ ~terminalSubscription(sub.status)
  /\ sub' = IF FirstUnderKey(act[p].row) THEN [sub EXCEPT !.card = act[p].row] ELSE sub
  /\ keyed' = keyed \cup {act[p].row}
  /\ Pc(p, "confirm")
  /\ Time /\ UNCHANGED <<rows, session, ev, lock>>

Confirm(p) ==
  /\ act[p].pc = "confirm" /\ sub.card = act[p].row
  /\ Return(p, "APPLIED")
  /\ Time /\ Processor /\ UNCHANGED <<rows, ev, lock>>

(* What recording the facts makes of the locked row. *)
applyPaymentUpdate(u, facts) ==
  LET status == IF facts = "" THEN rows[u].status ELSE facts
  IN IF terminalPaymentUpdate(rows[u].status) THEN rows
     ELSE SavePaymentUpdate(u, status, ~terminalPaymentUpdate(status) /\ rows[u].url)

(***************************************************************************)
(* A request: BeginPaymentUpdate.                                          *)
(***************************************************************************)
prefetchPaymentSetup(p, id) ==
  /\ act[p] = Idle
  /\ LET a == [Idle EXCEPT !.id = id, !.pc = "stage"]
         fetched == {u \in UnfinishedPaymentUpdate : rows[u].session}
     IN IF rows[id].status # "NONE" \/ fetched = {}
        THEN To(p, [a EXCEPT !.live = UnfinishedPaymentUpdate = {} /\ rows[id].status = "NONE" /\ renews(sub.status)])
        ELSE \E u \in fetched : fetchPaymentUpdate(p, u, a)
  /\ Time /\ Processor /\ UNCHANGED <<rows, ev, lock>>

(* currentSubscription: one read before the lock and not synced since still counts. *)
Renewing(p) == renews(sub.status) \/ act[p].live
insertPaymentUpdate(p, table) ==
  /\ Renewing(p)
  /\ rows' = [table EXCEPT ![act[p].id] = InsertPaymentUpdate(act[p].id)[act[p].id]]
  /\ To(p, [act[p] EXCEPT !.pc = "open", !.row = act[p].id])

(* After the donor's unfinished update u was brought up to date. *)
Settled(p, u, table) ==
  CASE table[u].status \in {"APPLIED", "CANCELLED"} -> rows' = table /\ End(p)
    [] table[u].status = "EXPIRED" -> insertPaymentUpdate(p, table) /\ lock' = "none"
    [] OTHER -> rows' = table /\ To(p, [act[p] EXCEPT !.pc = "open", !.row = u]) /\ lock' = "none"

stagePaymentUpdate(p) ==
  /\ act[p].pc = "stage" /\ Free
  /\ \/ /\ PaymentUpdateByID(act[p].id).status # "NONE"
        /\ IF terminalPaymentUpdate(rows[act[p].id].status) THEN To(p, Idle)
           ELSE To(p, [act[p] EXCEPT !.pc = "open", !.row = act[p].id])
        /\ UNCHANGED <<rows, lock>>
     \/ /\ PaymentUpdateByID(act[p].id).status = "NONE" /\ UnfinishedPaymentUpdate = {}
        /\ insertPaymentUpdate(p, rows) /\ UNCHANGED lock
     \/ /\ PaymentUpdateByID(act[p].id).status = "NONE"
        /\ \E u \in UnfinishedPaymentUpdate :
             \/ /\ ~rows[u].session
                /\ To(p, [act[p] EXCEPT !.pc = "open", !.row = u]) /\ UNCHANGED <<rows, lock>>
             \/ /\ rows[u].session /\ act[p].of = u
                /\ Settled(p, u, applyPaymentUpdate(u, act[p].facts))
             \/ /\ rows[u].session /\ act[p].of # u
                /\ fetchPaymentUpdate(p, u, act[p]) /\ lock' = p /\ UNCHANGED rows
  /\ Time /\ Processor /\ UNCHANGED ev

(* The same, with facts read under the lock. *)
StageFetched(p) ==
  /\ act[p].pc = "apply" /\ lock = p
  /\ Settled(p, act[p].row, applyPaymentUpdate(act[p].row, act[p].facts))
  /\ Time /\ Processor /\ UNCHANGED ev

InTime(u) == clock < rows[u].at + Life - Margin
openPaymentSession(p) ==
  /\ act[p].pc = "open"
  /\ LET u == act[p].row
     IN IF ~terminalPaymentUpdate(rows[u].status) /\ ~rows[u].url /\ InTime(u) THEN Pc(p, "create") ELSE To(p, Idle)
  /\ Time /\ Processor /\ UNCHANGED <<rows, ev, lock>>

(* The processor refuses a session that would end too soon. *)
CreateCheckout(p) ==
  /\ act[p].pc = "create"
  /\ LET u == act[p].row
     IN /\ session[u].status = "none" => InTime(u)
        /\ session' = IF session[u].status = "none" THEN [session EXCEPT ![u].status = "open"] ELSE session
  /\ Pc(p, "save")
  /\ Time /\ UNCHANGED <<rows, sub, keyed, ev, lock>>

SaveSession(p) ==
  /\ act[p].pc = "save" /\ Free
  /\ LET row == rows[act[p].row]
     IN rows' = IF terminalPaymentUpdate(row.status) \/ row.url THEN rows
                ELSE SavePaymentUpdate(act[p].row, "OPEN", TRUE)
  /\ To(p, Idle)
  /\ Time /\ Processor /\ UNCHANGED <<ev, lock>>

(***************************************************************************)
(* The event worker: applyPaymentUpdateEvent.                              *)
(***************************************************************************)
NextStripeEvent(u) == ev[u].sent /\ ~ev[u].done /\ ev[u].attempts < MaxAttempts
claim(w, u) ==
  /\ act[w] = Idle /\ NextStripeEvent(u)
  /\ \A v \in Workers : act[v].id # u
  /\ fetchPaymentUpdate(w, u, [Idle EXCEPT !.id = u])
  /\ Time /\ Processor /\ UNCHANGED <<rows, ev, lock>>

applyPaymentUpdateEvent(w) ==
  /\ act[w].pc = "event" /\ Free
  /\ LET u == act[w].row
         table == applyPaymentUpdate(u, act[w].facts)
     IN /\ terminalPaymentUpdate(table[u].status)
        /\ rows' = table
        /\ ev' = [ev EXCEPT ![u].done = TRUE]
  /\ To(w, Idle)
  /\ Time /\ Processor /\ UNCHANGED lock

(***************************************************************************)
(* Failures. A refused fact ends a request or fails an event's attempt; a  *)
(* process may also die, or lose the processor's answer, at any step.      *)
(***************************************************************************)
Refused(p) ==
  \/ act[p].pc = "read" /\ ~terminalSubscription(sub.status) /\ sub.card # act[p].row /\ TooOld(p)
  \/ act[p].pc = "set" /\ terminalSubscription(sub.status)
  \/ act[p].pc = "confirm" /\ sub.card # act[p].row
  \/ act[p].pc = "create" /\ session[act[p].row].status = "none" /\ ~InTime(act[p].row)
  \/ act[p].pc = "event" /\ ~terminalPaymentUpdate(applyPaymentUpdate(act[p].row, act[p].facts)[act[p].row].status)
  \/ p \in Requests /\ ~renews(sub.status)
     /\ \/ act[p].pc = "stage" /\ Free /\ rows[act[p].id].status = "NONE"
           /\ UnfinishedPaymentUpdate \subseteq {u \in Updates : rows[u].session /\ act[p].of = u /\ act[p].facts = "EXPIRED"}
        \/ act[p].pc = "apply" /\ act[p].facts = "EXPIRED"
Fails(p) ==
  /\ End(p)
  /\ ev' = IF p \in Workers THEN [ev EXCEPT ![act[p].id].attempts = @ + 1] ELSE ev
  /\ Processor /\ UNCHANGED <<clock, rows>>
Refuse(p) == Refused(p) /\ Fails(p) /\ UNCHANGED deaths
Die(p) == act[p].pc # "idle" /\ deaths < MaxDeaths /\ deaths' = deaths + 1 /\ Fails(p)

(***************************************************************************)
(* The donor's page and the processor.                                     *)
(***************************************************************************)
EnterCard(u) ==
  /\ session[u].status = "open" /\ rows[u].url
  /\ session' = [session EXCEPT ![u].status = "complete"]
  /\ ev' = [ev EXCEPT ![u].sent = TRUE]
  /\ Time /\ UNCHANGED <<rows, sub, keyed, act, lock>>
ExpireSession(u) ==
  /\ session[u].status = "open" /\ clock >= rows[u].at + Life
  /\ session' = [session EXCEPT ![u].status = "expired"]
  /\ ev' = [ev EXCEPT ![u].sent = TRUE]
  /\ Time /\ UNCHANGED <<rows, sub, keyed, act, lock>>
EndSubscription ==
  /\ sub.status = "active"
  /\ sub' = [sub EXCEPT !.status = "canceled"]
  /\ Time /\ UNCHANGED <<rows, session, keyed, ev, act, lock>>
Tick == clock < MaxTime /\ clock' = clock + 1 /\ UNCHANGED <<deaths, rows, session, sub, keyed, ev, act, lock>>

Init ==
  /\ clock = 0 /\ deaths = 0
  /\ rows = [u \in Updates |-> NoRow]
  /\ session = [u \in Updates |-> [status |-> "none"]]
  /\ sub = [status |-> "active", card |-> "first"]
  /\ keyed = {}
  /\ ev = [u \in Updates |-> [sent |-> FALSE, done |-> FALSE, attempts |-> 0]]
  /\ act = [p \in Actors |-> Idle]
  /\ lock = "none"

Fetch(p) ==
  verifiedSetup(p) \/ applyDefaultMethod(p) \/ UpdateSubscriptionPaymentMethod(p) \/ Confirm(p) \/ Refuse(p)
Begin(p) == \E id \in Updates : prefetchPaymentSetup(p, id)
Request(p) ==
  stagePaymentUpdate(p) \/ StageFetched(p) \/ openPaymentSession(p) \/ CreateCheckout(p) \/ SaveSession(p)
Work(w) == (\E u \in Updates : claim(w, u)) \/ applyPaymentUpdateEvent(w)

Next ==
  \/ \E p \in Actors : Fetch(p) \/ Die(p)
  \/ \E p \in Requests : Begin(p) \/ Request(p)
  \/ \E w \in Workers : Work(w)
  \/ \E u \in Updates : EnterCard(u) \/ ExpireSession(u)
  \/ EndSubscription \/ Tick

Spec == Init /\ [][Next]_vars

(***************************************************************************)
(* Properties.                                                             *)
(***************************************************************************)

(* The records have their types, a hosted page is offered exactly while an *)
(* update with a session is open, and a card was set only for an update    *)
(* whose session holds one.                                                *)
TypeOK ==
  /\ rows \in [Updates -> [status : Statuses, session : BOOLEAN, url : BOOLEAN, at : 0..MaxTime, seq : 0..Cardinality(Updates)]]
  /\ lock \in Actors \cup {"none"}
  /\ \A u \in Updates : rows[u].url <=> rows[u].status = "OPEN"
  /\ \A u \in keyed : session[u].status = "complete"

(* A donor has one update in progress, and the processor one session that  *)
(* may still take a card: two requests at once, one of them perhaps        *)
(* repeated, never open two hosted pages (stagePaymentUpdate).             *)
OneInProgress ==
  /\ Cardinality({u \in Updates : rows[u].status \in {"PENDING", "OPEN"}}) <= 1
  /\ Cardinality({u \in Updates : session[u].status = "open"}) <= 1

(* The card the donor entered last stays: when an update is recorded as    *)
(* applied, the subscription's card is that update's or a later one's,     *)
(* however late a stalled fetch of an older update calls the processor     *)
(* (applyDefaultMethod).                                                   *)
LatestCardStands ==
  \A u \in Updates : rows[u].status = "APPLIED" =>
    sub.card \in Updates /\ rows[sub.card].seq >= rows[u].seq
=============================================================================
