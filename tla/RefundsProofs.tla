--------------------------- MODULE RefundsProofs ----------------------------
(***************************************************************************)
(* What TLAPS proves of Refunds, for any number of commands, refunds,      *)
(* requests, workers and events: a command moves money once, two are never *)
(* with the processor at once, and once its events are applied what is     *)
(* stored of a refund is what the processor says.                          *)
(***************************************************************************)
EXTENDS Refunds, FiniteSetTheorems, TLAPS

Status == {"NONE", "PENDING", "SUCCEEDED", "FAILED"}
Fact == [status : Status, version : Nat]
Remote == [status : Status, version : Nat, made : Nat, at : Nat]
Backoff(t, n) == At(t + Min({2 ^ (n + 1), RetryCap}))
Times == {0} \cup {At(t) : t \in Nat} \cup {Backoff(t, n) : t \in Nat, n \in Nat}
Event == [refund : Refunds, delivered : BOOLEAN, attempts : 0 .. MaxAttempts, at : Times,
          done : BOOLEAN]
Command == [status : {"NONE", "PENDING", "OBSERVED", "ABANDONED"}, refund : BOOLEAN, at : Nat]
Request == [pc : {"idle", "staged", "read", "create", "submit", "record"},
            command : Commands \cup {"none"},
            seen : Nat, at : Nat, rows : [Refunds -> Fact]]
Work == [pc : {"idle", "read", "lock", "record"}, event : Nat, seen : Nat, fact : Fact]

Shape ==
  /\ clock \in 0 .. MaxTime /\ deaths \in 0 .. MaxDeaths /\ gift \in BOOLEAN /\ observed \in Nat
  /\ remote \in [Refunds -> Remote]
  /\ ev \in Seq(Event)
  /\ stored \in [Refunds -> Fact]
  /\ cmd \in [Commands -> Command]
  /\ req \in [Requests -> Request]
  /\ wrk \in [Workers -> Work]
  /\ lock \in Requests \cup Workers \cup {"free"}

\* A refund is pending, then successful or failed, and never pending again: its
\* version tells how far it has come.
Kind(x) == (x.status = "NONE" <=> x.version = 0) /\ (x.status = "PENDING" <=> x.version = 1)

\* A state that refund r is in or was in.
Was(x, r) ==
  /\ Kind(x) /\ x.version <= remote[r].version
  /\ x.version = remote[r].version => x.status = remote[r].status

LastOf(e) == \A f \in 1 .. Len(ev) : f > e => ev[f].refund # ev[e].refund

RemoteOk(r) ==
  /\ Kind(remote[r]) /\ remote[r].at <= clock
  /\ remote[r].version > 0 => \E e \in 1 .. Len(ev) : ev[e].refund = r /\ LastOf(e)
MadeOk(c) ==
  /\ remote[c].made <= 1 /\ (remote[c].made = 0 <=> remote[c].status = "NONE")
  /\ remote[c].made = 1 => cmd[c].status # "NONE"

\* What was recorded was so, and the last event of a refund leaves nothing out.
StoredOk == \A r \in Refunds : Was(stored[r], r)
EventOk(e) == ev[e].done /\ LastOf(e) => stored[ev[e].refund].version = remote[ev[e].refund].version

\* What a request knows. What it listed is not older than what is stored, if
\* nothing was recorded since or if it holds the lock; and a refund that it is
\* about to create did not exist when it listed.
RequestOk(p) ==
  LET c == InHand(p) x == req[p].rows[c] IN
  /\ req[p].seen <= observed /\ req[p].at <= clock
  /\ req[p].pc # "idle" => c \in Commands /\ cmd[c].status # "NONE"
  /\ req[p].pc = "create" => x.version = 0 /\ (remote[c].made = 0 \/ req[p].at <= remote[c].at)
  /\ req[p].pc \in {"create", "submit", "record"} /\ cmd[c].status # "ABANDONED" =>
       Was(x, c) /\ (req[p].pc = "record" \/ req[p].seen = observed =>
         stored[c].version <= x.version)
  /\ req[p].pc = "record" => lock = p

\* What a worker knows: likewise, and if its event is the refund's last then what
\* it read is the refund's present state.
WorkerOk(w) ==
  LET e == wrk[w].event r == ev[e].refund x == wrk[w].fact IN
  /\ wrk[w].seen <= observed
  /\ wrk[w].pc = "idle" => e = 0
  /\ wrk[w].pc # "idle" => e \in 1 .. Len(ev) /\ ~ev[e].done /\ ev[e].attempts < MaxAttempts
  /\ wrk[w].pc \in {"lock", "record"} =>
       /\ Was(x, r) /\ (wrk[w].pc = "record" \/ wrk[w].seen = observed =>
            stored[r].version <= x.version)
       /\ LastOf(e) => x.version = remote[r].version
  /\ wrk[w].pc = "record" => lock = w
OneWorkerEach == \A v, w \in Workers : v # w /\ wrk[v].pc # "idle" => wrk[v].event # wrk[w].event

\* What a command is answered: one is in progress, and one that is observed has
\* its refund stored.
CommandOk(c) == (cmd[c].refund <=> cmd[c].status = "OBSERVED")
  /\ (cmd[c].refund => stored[c].status # "NONE")
OneInProgress == \A c, d \in Commands : PendingStaffRefund(c) /\ PendingStaffRefund(d) => c = d

ProcessorOk == (\A r \in Refunds : RemoteOk(r)) /\ (\A c \in Commands : MadeOk(c))
LedgerOk == StoredOk /\ \A e \in 1 .. Len(ev) : EventOk(e)
ActorsOk == (\A p \in Requests : RequestOk(p)) /\ (\A w \in Workers : WorkerOk(w)) /\ OneWorkerEach
CommandsOk == (\A c \in Commands : CommandOk(c)) /\ OneInProgress
RefundsInv == Shape /\ ProcessorOk /\ LedgerOk /\ ActorsOk /\ CommandsOk /\ WithinGift

-----------------------------------------------------------------------------
\* What every step keeps: nothing recorded or known at the processor is undone.
RemoteOnward ==
  /\ \A r \in Refunds :
       /\ remote[r].version <= remote'[r].version
       /\ remote'[r].version = remote[r].version => remote'[r] = remote[r]
       /\ remote'[r].version # remote[r].version =>
            \E f \in Len(ev) + 1 .. Len(ev') : ev'[f].refund = r
  /\ \A c \in Commands : remote'[c].made = 0 \/ clock <= remote'[c].at
       \/ (remote'[c].made = remote[c].made /\ remote'[c].at = remote[c].at)
EventsOnward == Len(ev) <= Len(ev') /\ \A e \in 1 .. Len(ev) : ev'[e].refund = ev[e].refund
StoredOnward ==
  /\ observed <= observed' /\ (observed' = observed => stored' = stored)
  /\ \A r \in Refunds : stored[r].version <= stored'[r].version
CommandsOnward ==
  \A c \in Commands : (cmd[c].status # "NONE" => cmd'[c].status # "NONE")
    /\ (cmd[c].status = "ABANDONED" => cmd'[c].status = "ABANDONED")
Onward == clock <= clock' /\ RemoteOnward /\ EventsOnward /\ StoredOnward /\ CommandsOnward

LEMMA EventTyped ==
  ASSUME Shape, NEW e \in 1 .. Len(ev)
  PROVE  ev[e] \in Event /\ ev[e].refund \in Refunds /\ Len(ev) \in Nat
<1>1. ev[e] \in Event /\ Len(ev) \in Nat
  BY DEF Shape
<1> QED BY <1>1 DEF Event

\* What was so stays past, and an event that is the last was the last.
LEMMA PastStays ==
  ASSUME Shape, Shape', RemoteOnward, NEW r \in Refunds, NEW x \in Fact, Was(x, r)
  PROVE  Was(x, r)'
BY DEF Shape, RemoteOnward, Was, Kind, Fact, Remote

LEMMA LastWasLast ==
  ASSUME Shape, Shape', RemoteOnward, EventsOnward, NEW e \in 1 .. Len(ev), LastOf(e)'
  PROVE  LastOf(e) /\ remote'[ev[e].refund] = remote[ev[e].refund]
<1>1. Len(ev) \in Nat /\ Len(ev') \in Nat /\ ev[e].refund \in Refunds
  BY EventTyped DEF Shape
<1>2. LastOf(e)
  BY <1>1 DEF LastOf, EventsOnward
<1>3. ~ \E f \in Len(ev) + 1 .. Len(ev') : ev'[f].refund = ev[e].refund
  BY <1>1 DEF LastOf, EventsOnward
<1> QED BY <1>1, <1>2, <1>3 DEF RemoteOnward

\* A request that does not move keeps what it knows.
LEMMA RequestKeeps ==
  ASSUME Shape, Shape', Onward, NEW p \in Requests, RequestOk(p), req'[p] = req[p],
         req[p].pc = "record" => lock' = p /\ stored' = stored
  PROVE  RequestOk(p)'
<1> DEFINE c == InHand(p) x == req[p].rows[c]
<1>1. InHand(p)' = InHand(p)
  BY DEF InHand
<1>2. req[p] \in Request /\ observed \in Nat /\ observed' \in Nat /\ clock \in Nat /\ clock' \in Nat
  BY DEF Shape
<1>3. req[p].seen <= observed' /\ req[p].at <= clock'
  BY <1>2 DEF RequestOk, Onward, StoredOnward, Request
<1>4. ASSUME req[p].pc # "idle"
      PROVE  c \in Commands /\ cmd'[c].status # "NONE" /\ x \in Fact
  BY <1>2, <1>4 DEF RequestOk, Onward, CommandsOnward, Request, Refunds
<1>5. ASSUME req[p].pc = "create"
      PROVE  x.version = 0 /\ (remote'[c].made = 0 \/ req[p].at <= remote'[c].at)
  <2>1. remote[c] \in Remote /\ remote'[c] \in Remote
    BY <1>4, <1>5 DEF Shape, Refunds
  <2>2. remote'[c].made = 0 \/ clock <= remote'[c].at
          \/ (remote'[c].made = remote[c].made /\ remote'[c].at = remote[c].at)
    BY <1>4, <1>5 DEF Onward, RemoteOnward
  <2>3. x.version = 0 /\ (remote[c].made = 0 \/ req[p].at <= remote[c].at) /\ req[p].at <= clock
    BY <1>5 DEF RequestOk
  <2> QED BY <1>2, <2>1, <2>2, <2>3 DEF Remote, Request
<1>6. ASSUME req[p].pc \in {"create", "submit", "record"}, cmd'[c].status # "ABANDONED"
      PROVE  Was(x, c)' /\ (req[p].pc = "record" \/ req[p].seen = observed' =>
               stored'[c].version <= x.version)
  <2>1. cmd[c].status # "ABANDONED"
    BY <1>4, <1>6 DEF Onward, CommandsOnward
  <2>2. Was(x, c)
    BY <1>6, <2>1 DEF RequestOk
  <2>3. Was(x, c)'
    <3>1. ASSUME NEW y \in Fact, NEW d \in Refunds, Was(y, d) PROVE Was(y, d)'
      BY <3>1, PastStays DEF Onward
    <3> QED BY <1>1, <1>4, <1>6, <2>2, <3>1 DEF Refunds
  <2>4. ASSUME req[p].pc = "record" \/ req[p].seen = observed'
        PROVE  stored'[c].version <= x.version
    <3>1. stored' = stored /\ (req[p].pc = "record" \/ req[p].seen = observed)
      BY <1>2, <2>4 DEF RequestOk, Onward, StoredOnward, Request
    <3> QED BY <1>6, <2>1, <3>1 DEF RequestOk
  <2> QED BY <2>3, <2>4
<1>7. req[p].pc = "record" => lock' = p
  OBVIOUS
<1> QED BY <1>1, <1>3, <1>4, <1>5, <1>6, <1>7 DEF RequestOk

\* So does a worker.
LEMMA WorkerKeeps ==
  ASSUME Shape, Shape', Onward, NEW w \in Workers, WorkerOk(w), wrk'[w] = wrk[w],
         wrk[w].pc # "idle" => ev'[wrk[w].event].done = ev[wrk[w].event].done
           /\ ev'[wrk[w].event].attempts = ev[wrk[w].event].attempts,
         wrk[w].pc = "record" => lock' = w /\ stored' = stored
  PROVE  WorkerOk(w)'
<1> DEFINE e == wrk[w].event r == ev[e].refund x == wrk[w].fact
<1>1. wrk[w] \in Work /\ observed \in Nat /\ observed' \in Nat /\ Len(ev) \in Nat
        /\ Len(ev') \in Nat
  BY DEF Shape
<1>2. wrk[w].seen <= observed' /\ (wrk[w].pc = "idle" => e = 0)
        /\ (wrk[w].pc = "record" => lock' = w)
  BY <1>1 DEF WorkerOk, Onward, StoredOnward, Work
<1>3. ASSUME wrk[w].pc # "idle"
      PROVE  /\ e \in 1 .. Len(ev) /\ e \in 1 .. Len(ev') /\ r \in Refunds /\ ev'[e].refund = r
             /\ ~ev'[e].done /\ ev'[e].attempts < MaxAttempts
  <2>1. e \in 1 .. Len(ev)
    BY <1>3 DEF WorkerOk
  <2>2. r \in Refunds
    BY <2>1, EventTyped
  <2> QED BY <1>1, <1>3, <2>1, <2>2 DEF WorkerOk, Onward, EventsOnward
<1>4. ASSUME wrk[w].pc \in {"lock", "record"}
      PROVE  /\ Was(x, r)' /\ (wrk[w].pc = "record" \/ wrk[w].seen = observed' =>
                  stored'[r].version <= x.version)
             /\ LastOf(e)' => x.version = remote'[r].version
  <2>1. Was(x, r) /\ x \in Fact
    BY <1>1, <1>4 DEF WorkerOk, Work
  <2>2. ASSUME NEW y \in Refunds, y = r PROVE Was(x, y)'
    BY <2>1, <2>2, PastStays DEF Onward
  <2>3. Was(x, r)'
    <3>1. r' = r
      BY <1>3, <1>4
    <3> QED BY <1>3, <1>4, <2>2, <3>1
  <2>4. ASSUME wrk[w].pc = "record" \/ wrk[w].seen = observed'
        PROVE  stored'[r].version <= x.version
    <3>1. stored' = stored /\ (wrk[w].pc = "record" \/ wrk[w].seen = observed)
      BY <1>1, <2>4 DEF WorkerOk, Onward, StoredOnward, Work
    <3> QED BY <1>4, <3>1 DEF WorkerOk
  <2>5. ASSUME LastOf(e)' PROVE x.version = remote'[r].version
    BY <1>3, <1>4, <2>5, LastWasLast DEF Onward, WorkerOk
  <2> QED BY <2>3, <2>4, <2>5
<1> QED BY <1>2, <1>3, <1>4 DEF WorkerOk

\* What a step of one request, or of none, leaves to the others.
LEMMA RequestsKeep ==
  ASSUME RefundsInv, Shape', Onward, NEW p,
         \A q \in Requests \ {p} : req'[q] = req[q]
           /\ (req[q].pc = "record" => lock' = q /\ stored' = stored),
         p \in Requests => RequestOk(p)'
  PROVE  \A q \in Requests : RequestOk(q)'
<1> SUFFICES ASSUME NEW q \in Requests, q # p PROVE RequestOk(q)'
  OBVIOUS
<1> QED BY RequestKeeps DEF RefundsInv, ActorsOk

LEMMA WorkersKeep ==
  ASSUME RefundsInv, Shape', Onward, NEW w,
         \A v \in Workers \ {w} :
           /\ wrk'[v] = wrk[v] /\ (wrk[v].pc = "record" => lock' = v /\ stored' = stored)
           /\ wrk[v].pc # "idle" => ev'[wrk[v].event].done = ev[wrk[v].event].done
                /\ ev'[wrk[v].event].attempts = ev[wrk[v].event].attempts,
         w \in Workers => WorkerOk(w)'
  PROVE  \A v \in Workers : WorkerOk(v)'
<1> SUFFICES ASSUME NEW v \in Workers, v # w PROVE WorkerOk(v)'
  OBVIOUS
<1> QED BY WorkerKeeps DEF RefundsInv, ActorsOk

\* A step that records nothing and makes no refund: events change only in how
\* often they were tried.
Rests ==
  /\ UNCHANGED <<remote, stored, observed>> /\ clock <= clock'
  /\ Len(ev') = Len(ev) /\ \A e \in 1 .. Len(ev) : ev'[e].refund = ev[e].refund
       /\ ev'[e].done = ev[e].done

LEMMA RestKeeps ==
  ASSUME RefundsAssumption, RefundsInv, Shape', Rests, UNCHANGED cmd
  PROVE  Onward /\ ProcessorOk' /\ LedgerOk' /\ CommandsOk' /\ WithinGift'
<1>1. Len(ev) \in Nat /\ clock \in Nat /\ clock' \in Nat /\ observed \in Nat
  BY DEF RefundsInv, Shape
<1>2. Onward
  <2>1. RemoteOnward
    BY DEF Rests, RemoteOnward, RefundsInv, Shape, Remote
  <2>2. EventsOnward /\ CommandsOnward
    BY <1>1 DEF Rests, EventsOnward, CommandsOnward
  <2>3. StoredOnward
    BY <1>1 DEF Rests, StoredOnward, RefundsInv, Shape, Fact
  <2> QED BY <2>1, <2>2, <2>3 DEF Rests, Onward
<1>3. \A e \in 1 .. Len(ev) : LastOf(e)' = LastOf(e)
  BY DEF Rests, LastOf
<1>4. ASSUME NEW r \in Refunds PROVE RemoteOk(r)'
  <2>1. RemoteOk(r) /\ remote[r] \in Remote
    BY DEF RefundsInv, ProcessorOk, Shape
  <2>2. remote[r].at <= clock'
    BY <1>1, <2>1 DEF Rests, RemoteOk, Remote
  <2> QED BY <1>3, <2>1, <2>2 DEF RemoteOk, Rests, Kind
<1>5. ASSUME NEW c \in Commands PROVE MadeOk(c)'
  BY DEF RefundsInv, ProcessorOk, MadeOk, Rests
<1>6. LedgerOk'
  BY <1>3 DEF RefundsInv, LedgerOk, StoredOk, EventOk, Was, Rests
<1>7. CommandsOk'
  BY DEF RefundsInv, CommandsOk, CommandOk, OneInProgress, PendingStaffRefund, Rests
<1>8. WithinGift'
  BY DEF RefundsInv, WithinGift, Rests, SucceededRefundAmounts
<1> QED BY <1>2, <1>4, <1>5, <1>6, <1>7, <1>8 DEF ProcessorOk

-----------------------------------------------------------------------------
\* A step of a request that neither makes nor records a refund.
LEMMA RequestMoves ==
  ASSUME RefundsAssumption, RefundsInv, Shape', NEW p \in Requests,
         UNCHANGED <<remote, ev, stored, observed, wrk>>, clock' = clock,
         CommandsOnward, ProcessorOk', CommandsOk',
         \A q \in Requests \ {p} : req'[q] = req[q],
         lock' = lock \/ (lock = "free" /\ lock' = p) \/ (lock = p /\ lock' = "free"),
         RequestOk(p)'
  PROVE  RefundsInv'
<1>2. Onward
  <2>1. Len(ev) \in Nat /\ clock \in Nat /\ observed \in Nat
    BY DEF RefundsInv, Shape
  <2>2. RemoteOnward
    BY DEF RemoteOnward, RefundsInv, Shape, Remote
  <2>3. EventsOnward /\ StoredOnward
    BY <2>1 DEF EventsOnward, StoredOnward, RefundsInv, Shape, Fact
  <2> QED BY <2>1, <2>2, <2>3 DEF Onward
<1>3. LedgerOk' /\ WithinGift'
  BY DEF RefundsInv, LedgerOk, StoredOk, EventOk, LastOf, Was, WithinGift, SucceededRefundAmounts
<1>4. \A q \in Requests : RequestOk(q)'
  <2>1. \A q \in Requests \ {p} : req[q].pc = "record" => lock' = q
    BY DEF RefundsAssumption, RefundsInv, ActorsOk, RequestOk
  <2> QED BY <1>2, <2>1, RequestsKeep
<1>5. \A w \in Workers : WorkerOk(w)'
  <2>1. \A w \in Workers : wrk[w].pc = "record" => lock' = w
    BY DEF RefundsAssumption, RefundsInv, ActorsOk, WorkerOk
  <2>2. "free" \notin Workers
    BY DEF RefundsAssumption
  <2> QED BY <1>2, <2>1, <2>2, WorkersKeep
<1>6. OneWorkerEach'
  BY DEF RefundsInv, ActorsOk, OneWorkerEach
<1> QED BY <1>3, <1>4, <1>5, <1>6 DEF RefundsInv, ActorsOk

\* The processor's side and the commands when neither changes.
LEMMA SameCommands ==
  ASSUME RefundsInv, UNCHANGED <<remote, ev, stored, cmd, clock>>
  PROVE  ProcessorOk' /\ CommandsOk' /\ CommandsOnward
BY DEF RefundsInv, ProcessorOk, RemoteOk, MadeOk, LastOf, CommandsOk, CommandOk, OneInProgress,
     PendingStaffRefund, CommandsOnward

LEMMA NoReqOk ==
  ASSUME Shape, Shape', NEW p \in Requests, req'[p] = NoReq
  PROVE  RequestOk(p)'
BY DEF Shape, RequestOk, NoReq

LEMMA NoReqTyped == NoReq \in Request
BY DEF NoReq, Request, NoRefund, Fact, Status

LEMMA RowTyped ==
  ASSUME Shape, NEW p \in Requests
  PROVE  req[p] \in Request /\ InHand(p) \in Commands \cup {"none"}
BY DEF Shape, InHand, Request

LEMMA FactsTyped ==
  ASSUME Shape
  PROVE  Facts \in [Refunds -> Fact]
BY DEF Shape, Facts, Fact, Remote

LEMMA FactIsSo ==
  ASSUME RefundsInv, NEW r \in Refunds
  PROVE  Was(Facts[r], r) /\ Facts[r].version = remote[r].version
           /\ stored[r].version <= Facts[r].version
BY DEF RefundsInv, Shape, ProcessorOk, RemoteOk, LedgerOk, StoredOk, Was, Kind, Facts, Remote

\* A request that takes a step is a request.
LEMMA Steps ==
  ASSUME NEW x \in Request, NEW pc \in {"read", "create", "submit", "record"}, NEW n \in Nat,
         NEW rows \in [Refunds -> Fact]
  PROVE  [x EXCEPT !.pc = pc, !.seen = n] \in Request
           /\ [x EXCEPT !.pc = pc, !.rows = rows] \in Request
BY DEF Request

LEMMA SnapshotInv ==
  ASSUME RefundsAssumption, RefundsInv, NEW p \in Requests, StaffGiftSnapshot(p)
  PROVE  RefundsInv'
<1> USE DEF StaffGiftSnapshot, Quiet, GiftRefundObservations
<1>1. Shape'
  <2>1. PICK pc \in {"submit", "read"} : req' = [req EXCEPT ![p].pc = pc, ![p].seen = observed]
    OBVIOUS
  <2>2. req'[p] = [req[p] EXCEPT !.pc = pc, !.seen = observed]
    BY <2>1 DEF RefundsInv, Shape
  <2>3. req'[p] \in Request
    BY <2>2, RowTyped, Steps DEF RefundsInv, Shape
  <2> QED BY <2>3 DEF RefundsInv, Shape
<1>2. RequestOk(p)'
  <2>1. InHand(p)' = InHand(p) /\ InHand(p) \in Commands /\ cmd[InHand(p)].status # "NONE"
    BY DEF RefundsInv, Shape, ActorsOk, RequestOk, InHand
  <2>2. req[p].at <= clock /\ observed \in Nat
    BY DEF RefundsInv, Shape, ActorsOk, RequestOk
  <2>3. req'[p].at = req[p].at /\ req'[p].seen = observed
        /\ (req'[p].pc = "read" \/ (req'[p].pc = "submit" /\ cmd[InHand(p)].status = "ABANDONED"))
    BY RowTyped DEF RefundsInv, Shape, Request
  <2> QED BY <2>1, <2>2, <2>3 DEF RequestOk
<1> QED BY <1>1, <1>2, SameCommands, RequestMoves DEF RefundsInv, Shape

LEMMA ListInv ==
  ASSUME RefundsAssumption, RefundsInv, NEW p \in Requests, ListPaymentRefunds(p)
  PROVE  RefundsInv'
<1> USE DEF ListPaymentRefunds, Quiet
<1>1. Shape'
  BY FactsTyped DEF RefundsInv, Shape, Request
<1>2. RequestOk(p)'
  <2> DEFINE c == InHand(p)
  <2>1. InHand(p)' = c /\ c \in Commands /\ c \in Refunds /\ cmd[c].status # "NONE"
    BY DEF RefundsInv, Shape, ActorsOk, RequestOk, InHand, Refunds
  <2>2. /\ req'[p].rows = Facts /\ req'[p].at = clock /\ req'[p].seen = req[p].seen
        /\ req'[p].pc = "submit" \/ (req'[p].pc = "create" /\ MayCreate(c, Facts))
    BY DEF RefundsInv, Shape, Request
  <2>3. req[p].seen <= observed /\ clock \in Nat
    BY DEF RefundsInv, Shape, ActorsOk, RequestOk
  <2>4. Was(Facts[c], c) /\ stored[c].version <= Facts[c].version
    BY <2>1, FactIsSo
  <2>5. Was(Facts[c], c)'
    BY <2>1, <2>4 DEF Was, Facts
  <2>6. ASSUME MayCreate(c, Facts) PROVE Facts[c].version = 0 /\ remote[c].made = 0
    BY <2>1, <2>6 DEF MayCreate, Facts, RefundsInv, ProcessorOk, RemoteOk, MadeOk, Kind
  <2>7. Facts' = Facts
    BY DEF Facts
  <2> QED BY <2>1, <2>2, <2>3, <2>4, <2>5, <2>6, <2>7 DEF RequestOk
<1> QED BY <1>1, <1>2, SameCommands, RequestMoves DEF RefundsInv, Shape

LEMMA LockInv ==
  ASSUME RefundsAssumption, RefundsInv, NEW p \in Requests, lockStaffDonor(p)
  PROVE  RefundsInv'
<1> USE DEF lockStaffDonor, Quiet
<1> DEFINE c == InHand(p) x == req'[p].rows
<1>1. InHand(p)' = c /\ c \in Commands /\ c \in Refunds /\ cmd[c].status # "NONE"
  BY DEF RefundsInv, Shape, ActorsOk, RequestOk, InHand, Refunds
<1>2. /\ req'[p].at = req[p].at /\ req'[p].seen = req[p].seen /\ req'[p].pc = "record"
      /\ x = IF cmd[c].status = "ABANDONED" THEN req[p].rows ELSE currentRefunds(p)
  BY DEF RefundsInv, Shape, Request
<1>3. currentRefunds(p) \in [Refunds -> Fact]
  BY FactsTyped DEF currentRefunds, RefundsInv, Shape, Request
<1>4. Shape'
  <2>1. PICK y \in [Refunds -> Fact] : req' = [req EXCEPT ![p].pc = "record", ![p].rows = y]
    <3>1. CASE cmd[c].status = "ABANDONED"
      BY <3>1, RowTyped DEF RefundsInv, Request
    <3>2. CASE cmd[c].status # "ABANDONED"
      BY <1>3, <3>2
    <3> QED BY <3>1, <3>2
  <2>2. req'[p] = [req[p] EXCEPT !.pc = "record", !.rows = y]
    BY <2>1 DEF RefundsInv, Shape
  <2>3. req'[p] \in Request
    BY <2>2, RowTyped, Steps DEF RefundsInv, Shape
  <2> QED BY <2>3 DEF RefundsInv, Shape
<1>5. RequestOk(p)'
  <2>1. req[p].seen <= observed /\ req[p].at <= clock
    BY DEF RefundsInv, ActorsOk, RequestOk
  <2>2. ASSUME cmd[c].status # "ABANDONED"
        PROVE  Was(x[c], c) /\ stored[c].version <= x[c].version
    <3>1. CASE observed = req[p].seen
      BY <1>2, <2>2, <3>1 DEF currentRefunds, RefundsInv, ActorsOk, RequestOk
    <3>2. CASE observed # req[p].seen
      BY <1>1, <1>2, <2>2, <3>2, FactIsSo DEF currentRefunds
    <3> QED BY <3>1, <3>2
  <2>4. lock' = p
    OBVIOUS
  <2>5. ASSUME cmd[c].status # "ABANDONED" PROVE Was(req[p].rows[c], c)'
    BY <1>1, <2>2, <2>5 DEF Was
  <2> QED BY <1>1, <1>2, <2>1, <2>2, <2>4, <2>5 DEF RequestOk
<1> QED BY <1>4, <1>5, SameCommands, RequestMoves DEF RefundsInv, Shape

LEMMA FailureInv ==
  ASSUME RefundsAssumption, RefundsInv, NEW p \in Requests, auditFailure(p)
  PROVE  RefundsInv'
<1> USE DEF auditFailure
<1>1. Shape'
  BY NoReqTyped DEF RefundsInv, Shape, RefundsAssumption
<1>2. RequestOk(p)'
  BY <1>1, NoReqOk DEF RefundsInv, Shape
<1> QED BY <1>1, <1>2, SameCommands, RequestMoves DEF RefundsInv, Shape

LEMMA Staged ==
  ASSUME NEW c \in Commands, NEW x, x = [NoReq EXCEPT !.pc = "staged", !.command = c]
  PROVE  x \in Request /\ x.pc = "staged" /\ x.command = c /\ x.seen = 0 /\ x.at = 0
<1>1. NoReq.seen = 0 /\ NoReq.at = 0
  BY DEF NoReq
<1> QED BY <1>1, NoReqTyped DEF Request

LEMMA StageInv ==
  ASSUME RefundsAssumption, RefundsInv, NEW p \in Requests, NEW c \in Commands, stage(p, c)
  PROVE  RefundsInv'
<1> USE DEF stage, Quiet
<1>1. req'[p] = [NoReq EXCEPT !.pc = "staged", !.command = c]
  BY DEF RefundsInv, Shape
<1>2. Shape'
  <2>1. req'[p] \in Request
    BY <1>1, Staged
  <2>2. cmd' \in [Commands -> Command]
    BY DEF InsertStaffAction, RefundsInv, Shape, Command
  <2> QED BY <2>1, <2>2 DEF RefundsInv, Shape
<1>3. RequestOk(p)'
  <2>1. req'[p].pc = "staged" /\ req'[p].command = c /\ req'[p].seen = 0 /\ req'[p].at = 0
    BY <1>1, Staged
  <2>2. cmd'[c].status # "NONE"
    BY DEF InsertStaffAction, RefundsInv, Shape, Command
  <2> QED BY <1>2, <2>1, <2>2 DEF RequestOk, InHand, Shape
<1>4. CASE UNCHANGED cmd
  BY <1>2, <1>3, <1>4, SameCommands, RequestMoves DEF RefundsInv, Shape
<1>5. CASE cmd[c].status = "NONE" /\ (\A o \in Commands : ~PendingStaffRefund(o))
             /\ cmd' = InsertStaffAction(c)
  <2>1. \A d \in Commands : d # c => cmd'[d] = cmd[d]
    BY <1>5 DEF InsertStaffAction, RefundsInv, Shape
  <2>2. cmd'[c].status = "PENDING" /\ cmd'[c].refund = cmd[c].refund
    BY <1>5 DEF InsertStaffAction, RefundsInv, Shape, Command
  <2>3. CommandsOnward
    BY <1>5, <2>1, <2>2 DEF CommandsOnward
  <2>4. ProcessorOk'
    BY <2>1, <2>2 DEF RefundsInv, ProcessorOk, RemoteOk, MadeOk, LastOf
  <2>5. CommandsOk'
    <3>1. \A d \in Commands : d # c => ~PendingStaffRefund(d)'
      BY <1>5, <2>1 DEF PendingStaffRefund
    <3>2. \A d \in Commands : CommandOk(d)'
      BY <1>5, <2>1, <2>2 DEF RefundsInv, CommandsOk, CommandOk
    <3> QED BY <3>1, <3>2 DEF CommandsOk, OneInProgress
  <2> QED BY <1>2, <1>3, <2>3, <2>4, <2>5, RequestMoves DEF RefundsInv, Shape
<1> QED BY <1>4, <1>5

-----------------------------------------------------------------------------
\* A refund at the processor moves on, and an event reports it.
Grows(r, y) ==
  /\ remote' = [remote EXCEPT ![r] = y] /\ ev' = Append(ev, NewEvent(r))
  /\ Kind(y) /\ y.version = remote[r].version + 1 /\ y.at <= clock
  /\ r \in Commands => y.made = 1 /\ cmd[r].status # "NONE"
       /\ (y.at = clock \/ (y.at = remote[r].at /\ remote[r].made = 1))
  /\ UNCHANGED <<stored, observed, cmd, clock>>

LEMMA NewEventTyped ==
  ASSUME RefundsAssumption, Shape, NEW r \in Refunds
  PROVE  NewEvent(r) \in Event /\ Append(ev, NewEvent(r)) \in Seq(Event)
<1>1. NewEvent(r) \in Event
  BY DEF NewEvent, Event, Times, RefundsAssumption
<1> QED BY <1>1 DEF Shape

LEMMA Appended ==
  ASSUME RefundsAssumption, Shape, NEW r \in Refunds, ev' = Append(ev, NewEvent(r))
  PROVE  /\ Len(ev') = Len(ev) + 1 /\ Len(ev) \in Nat /\ ev'[Len(ev) + 1] = NewEvent(r)
         /\ \A e \in 1 .. Len(ev) : ev'[e] = ev[e]
<1>1. NewEvent(r) \in Event /\ ev \in Seq(Event)
  BY NewEventTyped DEF Shape
<1> QED BY <1>1

LEMMA GrowKeeps ==
  ASSUME RefundsAssumption, RefundsInv, Shape', NEW r \in Refunds, NEW y \in Remote, Grows(r, y)
  PROVE  Onward /\ ProcessorOk' /\ LedgerOk' /\ CommandsOk' /\ WithinGift'
<1>0. PICK n \in Nat : n = Len(ev) + 1
  BY DEF RefundsInv, Shape
<1>1. /\ Len(ev') = n /\ n = Len(ev) + 1 /\ Len(ev) \in Nat /\ ev'[n].refund = r /\ ~ev'[n].done
      /\ \A e \in 1 .. Len(ev) : ev'[e] = ev[e]
  BY <1>0, Appended DEF Grows, RefundsInv, NewEvent
<1>2. remote'[r] = y /\ (\A q \in Refunds : q # r => remote'[q] = remote[q])
        /\ \A q \in Refunds : remote[q] \in Remote /\ stored[q] \in Fact
  BY DEF Grows, RefundsInv, Shape
<1>3. Onward
  <2>1. RemoteOnward
    <3>1. ASSUME NEW q \in Refunds
          PROVE  /\ remote[q].version <= remote'[q].version
                 /\ remote'[q].version = remote[q].version => remote'[q] = remote[q]
                 /\ remote'[q].version # remote[q].version =>
                      \E f \in Len(ev) + 1 .. Len(ev') : ev'[f].refund = q
      BY <1>1, <1>2 DEF Grows, Remote
    <3>2. ASSUME NEW c \in Commands
          PROVE  remote'[c].made = 0 \/ clock <= remote'[c].at
                   \/ (remote'[c].made = remote[c].made /\ remote'[c].at = remote[c].at)
      BY <1>2 DEF Grows, Remote, Refunds, RefundsInv, Shape
    <3> QED BY <3>1, <3>2 DEF RemoteOnward
  <2>2. EventsOnward
    BY <1>1 DEF EventsOnward
  <2>3. StoredOnward
    BY <1>2 DEF StoredOnward, Grows, RefundsInv, Shape, Fact
  <2> QED BY <2>1, <2>2, <2>3 DEF Onward, CommandsOnward, Grows, RefundsInv, Shape
<1>4. LastOf(n)' /\ \A e \in 1 .. Len(ev) : LastOf(e)' <=> LastOf(e) /\ ev[e].refund # r
  BY <1>1 DEF LastOf
<1>5. ASSUME NEW q \in Refunds PROVE RemoteOk(q)'
  <2>1. CASE q = r
    BY <1>1, <1>2, <1>4, <2>1 DEF RemoteOk, Grows
  <2>2. CASE q # r
    <3>1. RemoteOk(q)
      BY DEF RefundsInv, ProcessorOk
    <3>2. ASSUME NEW e \in 1 .. Len(ev), ev[e].refund = q, LastOf(e)
          PROVE  e \in 1 .. Len(ev') /\ ev'[e].refund = q /\ LastOf(e)'
      BY <1>1, <1>4, <2>2, <3>2
    <3> QED BY <1>2, <2>2, <3>1, <3>2 DEF RemoteOk, Kind, Grows
  <2> QED BY <2>1, <2>2
<1>6. ASSUME NEW c \in Commands PROVE MadeOk(c)'
  <2>1. CASE c = r
    BY <1>2, <2>1 DEF MadeOk, Grows, Kind, Remote
  <2>2. CASE c # r
    BY <1>2, <2>2 DEF MadeOk, Grows, RefundsInv, ProcessorOk, Refunds
  <2> QED BY <2>1, <2>2
<1>7. LedgerOk'
  <2>1. ASSUME NEW q \in Refunds PROVE Was(stored[q], q)'
    <3>1. Was(stored[q], q) /\ stored' = stored
      BY DEF RefundsInv, LedgerOk, StoredOk, Grows
    <3>2. ASSUME NEW x \in Fact, Was(x, q) PROVE Was(x, q)'
      BY <1>3, <3>2, PastStays DEF Onward, RefundsInv
    <3> QED BY <1>2, <3>1, <3>2
  <2>2. ASSUME NEW e \in 1 .. Len(ev') PROVE EventOk(e)'
    <3>1. CASE e = n
      BY <1>1, <3>1 DEF EventOk
    <3>2. CASE e \in 1 .. Len(ev)
      <4>1. EventOk(e) /\ ev[e].refund \in Refunds
        BY <3>2, EventTyped DEF RefundsInv, LedgerOk
      <4> QED BY <1>1, <1>2, <1>4, <3>2, <4>1 DEF EventOk, Grows
    <3> QED BY <1>1, <3>1, <3>2
  <2> QED BY <2>1, <2>2 DEF LedgerOk, StoredOk, Grows
<1>8. CommandsOk' /\ WithinGift'
  BY DEF Grows, RefundsInv, CommandsOk, CommandOk, OneInProgress, PendingStaffRefund, WithinGift,
       SucceededRefundAmounts
<1> QED BY <1>3, <1>5, <1>6, <1>7, <1>8 DEF ProcessorOk

\* A step in which no request and no worker moves.
EventsHeld ==
  \A w \in Workers : wrk[w].pc # "idle" =>
    ev'[wrk[w].event].done = ev[wrk[w].event].done
      /\ ev'[wrk[w].event].attempts = ev[wrk[w].event].attempts

LEMMA ActorsRest ==
  ASSUME RefundsAssumption, RefundsInv, Shape', Onward, UNCHANGED <<req, wrk, lock, stored>>,
         EventsHeld
  PROVE  ActorsOk'
<1>1. "free" \notin Requests /\ "free" \notin Workers
  BY DEF RefundsAssumption
<1>2. \A p \in Requests : RequestOk(p)'
  <2>1. \A q \in Requests : req[q].pc = "record" => lock' = q
    BY DEF RefundsInv, ActorsOk, RequestOk
  <2> QED BY <1>1, <2>1, RequestsKeep
<1>3. \A w \in Workers : WorkerOk(w)'
  <2>1. \A w \in Workers : wrk[w].pc = "record" => lock' = w
    BY DEF RefundsInv, ActorsOk, WorkerOk
  <2> QED BY <1>1, <2>1, WorkersKeep DEF EventsHeld
<1> QED BY <1>2, <1>3 DEF RefundsInv, ActorsOk, OneWorkerEach

LEMMA HeldByGrowth ==
  ASSUME RefundsAssumption, RefundsInv, NEW r \in Refunds, ev' = Append(ev, NewEvent(r))
  PROVE  EventsHeld
<1>1. \A e \in 1 .. Len(ev) : ev'[e] = ev[e]
  BY Appended DEF RefundsInv
<1> QED BY <1>1 DEF EventsHeld, RefundsInv, ActorsOk, WorkerOk

LEMMA ChangeInv ==
  ASSUME RefundsAssumption, RefundsInv, NEW r \in Refunds, Succeed(r) \/ Fails(r)
         \/ (r \in Dashboard /\ DashboardRefund(r))
  PROVE  RefundsInv'
<1> DEFINE y == remote'[r]
<1>1. UNCHANGED <<clock, gift, deaths, stored, observed, cmd, req, wrk, lock>>
        /\ ev' = Append(ev, NewEvent(r))
  BY DEF Succeed, Fails, DashboardRefund, Change, Outside
<1>2. PICK status \in {"PENDING", "SUCCEEDED", "FAILED"} :
        /\ remote' = [remote EXCEPT ![r].status = status, ![r].version = @ + 1]
        /\ \/ status = "PENDING" /\ remote[r].status = "NONE" /\ r \in Dashboard
           \/ status # "PENDING" /\ remote[r].status \in {"PENDING", "SUCCEEDED"}
  BY DEF Succeed, Fails, DashboardRefund, Change
<1>3. remote[r] \in Remote /\ RemoteOk(r) /\ (r \in Commands => MadeOk(r))
  BY DEF RefundsInv, Shape, ProcessorOk
<1>4. y = [remote[r] EXCEPT !.status = status, !.version = remote[r].version + 1]
        /\ remote' = [remote EXCEPT ![r] = y]
  BY <1>2 DEF RefundsInv, Shape
<1>5. y \in Remote /\ y.status = status /\ y.version = remote[r].version + 1
        /\ y.made = remote[r].made /\ y.at = remote[r].at
  <2>1. status \in Status /\ remote[r].version + 1 \in Nat /\ remote[r].made \in Nat
          /\ remote[r].at \in Nat
    BY <1>3 DEF Remote, Status
  <2>2. y = [status |-> status, version |-> remote[r].version + 1, made |-> remote[r].made,
          at |-> remote[r].at]
    BY <1>3, <1>4 DEF Remote
  <2> HIDE DEF y
  <2> QED BY <2>1, <2>2 DEF Remote
<1>6. Kind(y) /\ y.at <= clock
  BY <1>2, <1>3, <1>5 DEF RemoteOk, Kind, Remote
<1>7. r \in Commands => y.made = 1 /\ cmd[r].status # "NONE" /\ remote[r].made = 1
  BY <1>2, <1>3, <1>5 DEF MadeOk, Remote, RefundsAssumption
<1>8. Shape'
  BY <1>1, <1>4, <1>5, NewEventTyped DEF RefundsInv, Shape
<1>9. Onward /\ ProcessorOk' /\ LedgerOk' /\ CommandsOk' /\ WithinGift'
  <2>1. ASSUME NEW z \in Remote, z = y PROVE Grows(r, z)
    BY <1>1, <1>4, <1>5, <1>6, <1>7, <2>1 DEF Grows
  <2> QED BY <1>5, <1>8, <2>1, GrowKeeps
<1>10. ActorsOk'
  BY <1>1, <1>8, <1>9, HeldByGrowth, ActorsRest
<1> QED BY <1>8, <1>9, <1>10 DEF RefundsInv

\* A create at the processor. The list showed no such refund, so one that exists
\* by now was made after the list, and the processor still knows its key.
LEMMA MadeAfresh ==
  ASSUME RefundsAssumption, RefundsInv, NEW p \in Requests, createRefund(p),
         ~CreateRefund(InHand(p))
  PROVE  remote[InHand(p)].made = 0
<1> DEFINE c == InHand(p)
<1>1. c \in Commands /\ c \in Refunds /\ (remote[c].made = 0 \/ req[p].at <= remote[c].at)
  BY DEF createRefund, RefundsInv, ActorsOk, RequestOk, Refunds
<1>2. remote[c] \in Remote /\ req[p] \in Request /\ clock \in Nat
  BY <1>1 DEF RefundsInv, Shape
<1>3. clock < req[p].at + RequestTime
  BY DEF createRefund
<1>4. ~(remote[c].made > 0 /\ clock < remote[c].at + KeyLife)
  BY DEF CreateRefund
<1>5. RequestTime <= KeyLife /\ RequestTime \in Nat /\ KeyLife \in Nat
  BY DEF RefundsAssumption
<1>6. remote[c].made \in Nat /\ remote[c].at \in Nat /\ req[p].at \in Nat
  BY <1>2 DEF Remote, Request
<1> QED BY <1>1, <1>2, <1>3, <1>4, <1>5, <1>6

LEMMA CreateInv ==
  ASSUME RefundsAssumption, RefundsInv, NEW p \in Requests, createRefund(p)
  PROVE  RefundsInv'
<1> DEFINE c == InHand(p)
           x == [status |-> "PENDING", version |-> 1]
<1>1. c \in Commands /\ c \in Refunds /\ cmd[c].status # "NONE" /\ req[p].pc = "create"
      /\ req[p].rows[c].version = 0 /\ req[p].at <= clock /\ req[p].seen <= observed
  BY DEF createRefund, RefundsInv, ActorsOk, RequestOk, Refunds
<1>2. remote[c] \in Remote /\ req[p] \in Request /\ clock \in Nat /\ RemoteOk(c) /\ MadeOk(c)
        /\ stored[c] \in Fact
  BY <1>1 DEF RefundsInv, Shape, ProcessorOk
<1>3. UNCHANGED <<clock, deaths, gift, stored, observed, cmd, wrk, lock>>
  BY DEF createRefund, Quiet
<1>4. req' = [req EXCEPT ![p] = [req[p] EXCEPT !.pc = "submit", !.rows = [@ EXCEPT ![c] = x]]]
  BY DEF createRefund, RefundsInv, Shape
<1>5. [req[p].rows EXCEPT ![c] = x] \in [Refunds -> Fact] /\ [req[p].rows EXCEPT ![c] = x][c] = x
  BY <1>1, <1>2 DEF Request, Fact, Status
<1>6. req'[p] \in Request /\ req'[p].pc = "submit" /\ req'[p].command = c /\ req'[p].at = req[p].at
        /\ req'[p].seen = req[p].seen
      /\ req'[p].rows[c] = x
  <2>1. PICK rows \in [Refunds -> Fact] : rows[c] = x
               /\ req'[p] = [req[p] EXCEPT !.pc = "submit", !.rows = rows]
    BY <1>4, <1>5 DEF RefundsInv, Shape
  <2>2. req'[p] \in Request
    BY <1>2, <2>1, Steps
  <2> QED BY <1>2, <2>1, <2>2 DEF Request, InHand
<1>7. CASE CreateRefund(c) /\ UNCHANGED <<remote, ev>>
  <2>1. Shape'
    BY <1>3, <1>4, <1>6, <1>7 DEF RefundsInv, Shape
  <2>2. remote[c].made > 0 /\ remote[c].version >= 1
    BY <1>2, <1>7 DEF CreateRefund, RemoteOk, MadeOk, Kind, Remote
  <2>3. Was(x, c)'
    <3>1. c' = c
      BY <1>6 DEF InHand
    <3> QED BY <1>2, <1>7, <2>2, <3>1 DEF Was, Kind, RemoteOk, Remote
  <2>4. ASSUME cmd[c].status # "ABANDONED", req[p].seen = observed PROVE stored[c].version <= 1
    BY <1>1, <1>2, <2>4 DEF RefundsInv, ActorsOk, RequestOk, Fact
  <2>5. RequestOk(p)'
    BY <1>1, <1>3, <1>6, <2>3, <2>4 DEF RequestOk, InHand
  <2> QED BY <1>3, <1>4, <1>7, <2>1, <2>5, SameCommands, RequestMoves DEF RefundsInv, Shape
<1>8. CASE ~CreateRefund(c) /\ Made(c)
  <2> DEFINE y == [status |-> "PENDING", version |-> 1, made |-> 1, at |-> clock]
  <2>1. remote[c].made = 0 /\ remote[c].version = 0
    BY <1>2, <1>8, MadeAfresh DEF RemoteOk, MadeOk, Kind
  <2>2. remote' = [remote EXCEPT ![c] = y] /\ ev' = Append(ev, NewEvent(c)) /\ y \in Remote
    BY <1>2, <1>8, <2>1 DEF Made, Remote, Status
  <2>3. Shape'
    BY <1>1, <1>3, <1>4, <1>6, <2>2, NewEventTyped DEF RefundsInv, Shape
  <2>4. Grows(c, y)
    BY <1>1, <1>2, <1>3, <2>1, <2>2 DEF Grows, Kind
  <2>5. Onward /\ ProcessorOk' /\ LedgerOk' /\ CommandsOk' /\ WithinGift'
    BY <1>1, <2>2, <2>3, <2>4, GrowKeeps
  <2>6. RequestOk(p)'
    <3>1. c' = c
      BY <1>6 DEF InHand
    <3>2. remote'[c].version = 1 /\ remote'[c].status = "PENDING"
      BY <1>1, <2>2 DEF RefundsInv, Shape
    <3>3. Was(x, c)'
      BY <3>1, <3>2 DEF Was, Kind
    <3>4. ASSUME cmd[c].status # "ABANDONED", req[p].seen = observed PROVE stored[c].version <= 1
      BY <1>1, <1>2, <3>4 DEF RefundsInv, ActorsOk, RequestOk, Fact
    <3> QED BY <1>1, <1>3, <1>6, <3>3, <3>4 DEF RequestOk, InHand
  <2>7. \A q \in Requests : RequestOk(q)'
    <3>1. \A q \in Requests \ {p} : req'[q] = req[q]
            /\ (req[q].pc = "record" => lock' = q /\ stored' = stored)
      BY <1>3, <1>4 DEF RefundsInv, Shape, ActorsOk, RequestOk
    <3> QED BY <2>3, <2>5, <2>6, <3>1, RequestsKeep
  <2>8. (\A w \in Workers : WorkerOk(w)') /\ OneWorkerEach'
    <3>1. "free" \notin Workers
      BY DEF RefundsAssumption
    <3>2. \A w \in Workers : wrk[w].pc = "record" => lock' = w
      BY <1>3 DEF RefundsInv, ActorsOk, WorkerOk
    <3>3. \A w \in Workers : WorkerOk(w)'
      BY <1>1, <1>3, <2>2, <2>3, <2>5, <3>1, <3>2, HeldByGrowth, WorkersKeep DEF EventsHeld
    <3> QED BY <1>3, <3>3 DEF RefundsInv, ActorsOk, OneWorkerEach
  <2> QED BY <2>3, <2>5, <2>7, <2>8 DEF RefundsInv, ActorsOk
<1> QED BY <1>7, <1>8 DEF createRefund

-----------------------------------------------------------------------------
\* An observation is recorded: a state of the refund no older than the stored one.
LEMMA RecordKeeps ==
  ASSUME RefundsAssumption, RefundsInv, NEW r \in Refunds, NEW x \in Fact, Was(x, r),
         stored[r].version <= x.version,
         recordRefund(r, x), UNCHANGED <<remote, clock>>
  PROVE  /\ StoredOnward /\ StoredOk' /\ WithinGift' /\ stored' \in [Refunds -> Fact]
              /\ observed' = observed + 1 /\ observed \in Nat
         /\ stored'[r] = x /\ \A q \in Refunds : q # r => stored'[q] = stored[q]
<1>1. stored' = [stored EXCEPT ![r] = x] /\ observed' = observed + 1 /\ observed \in Nat
        /\ stored \in [Refunds -> Fact]
  BY DEF recordRefund, UpdateRefund, RefundsInv, Shape
<1>2. stored' \in [Refunds -> Fact] /\ stored'[r] = x /\ \A q \in Refunds : q # r =>
        stored'[q] = stored[q]
  BY <1>1
<1>3. StoredOnward
  BY <1>1, <1>2 DEF StoredOnward, Fact
<1>4. StoredOk'
  BY <1>2 DEF RefundsInv, LedgerOk, StoredOk, Was
<1>5. WithinGift'
  BY DEF recordRefund, Refused, WithinGift, SucceededRefundAmounts
<1> QED BY <1>1, <1>2, <1>3, <1>4, <1>5

\* A state that is no longer pending never was stored as pending afterwards.
LEMMA StillPending ==
  ASSUME RefundsInv, Shape', StoredOk, StoredOk', StoredOnward, NEW c \in Commands, cmd[c].refund
  PROVE  stored'[c].status # "NONE"
           /\ (stored'[c].status = "PENDING" => stored[c].status = "PENDING")
<1>1. c \in Refunds /\ stored[c] \in Fact /\ stored'[c] \in Fact
        /\ stored[c].version <= stored'[c].version
  BY DEF RefundsInv, Shape, StoredOnward, Refunds
<1>2. Kind(stored[c]) /\ Kind(stored'[c])
  BY <1>1 DEF StoredOk, Was, Kind
<1>3. stored[c].status # "NONE"
  BY DEF RefundsInv, CommandsOk, CommandOk
<1> QED BY <1>1, <1>2, <1>3 DEF Kind, Fact

\* The last event of every refund stays the one that counts.
LEMMA RecordedStays ==
  ASSUME RefundsInv, Shape', StoredOnward, StoredOk', NEW e \in 1 .. Len(ev), EventOk(e),
         ev[e].done, LastOf(e), UNCHANGED remote
  PROVE  stored'[ev[e].refund].version = remote[ev[e].refund].version
<1> DEFINE r == ev[e].refund
<1>1. r \in Refunds
  BY EventTyped DEF RefundsInv
<1>2. stored[r] \in Fact /\ stored'[r] \in Fact /\ remote[r] \in Remote
  BY <1>1 DEF RefundsInv, Shape
<1>3. stored[r].version = remote[r].version /\ stored[r].version <= stored'[r].version
  BY <1>1 DEF EventOk, StoredOnward
<1>4. stored'[r].version <= remote[r].version
  <2>1. \A q \in Refunds : stored'[q].version <= remote'[q].version
    BY DEF StoredOk, Was
  <2> QED BY <1>1, <2>1
<1> QED BY <1>2, <1>3, <1>4 DEF Fact, Remote

LEMMA SubmitInv ==
  ASSUME RefundsAssumption, RefundsInv, NEW p \in Requests, submitRefund(p)
  PROVE  RefundsInv'
<1> DEFINE c == InHand(p) x == req[p].rows[c]
<1>1. UNCHANGED <<clock, deaths, gift, remote, ev, wrk>> /\ lock' = "free"
        /\ req' = [req EXCEPT ![p] = NoReq] /\ req[p].pc = "record"
  BY DEF submitRefund, Quiet
<1>2. lock = p /\ c \in Commands /\ c \in Refunds /\ cmd[c].status # "NONE" /\ x \in Fact
        /\ cmd[c] \in Command
  BY <1>1, RowTyped DEF RefundsInv, ActorsOk, RequestOk, Refunds, Request, Shape
<1>3. req'[p] = NoReq /\ req' \in [Requests -> Request]
        /\ \A q \in Requests \ {p} : req'[q] = req[q]
  BY <1>1, NoReqTyped DEF RefundsInv, Shape
<1>4. \A q \in Requests \ {p} : req[q].pc # "record"
  BY <1>2 DEF RefundsInv, ActorsOk, RequestOk
<1>5. \A w \in Workers : wrk[w].pc # "record"
  BY <1>2 DEF RefundsInv, ActorsOk, WorkerOk, RefundsAssumption
<1>6. CASE UNCHANGED <<stored, observed, cmd>>
  <2>1. Shape'
    BY <1>1, <1>3, <1>6 DEF RefundsInv, Shape
  <2>2. RequestOk(p)'
    BY <1>3, <2>1, NoReqOk DEF RefundsInv
  <2> QED BY <1>1, <1>2, <1>3, <1>6, <2>1, <2>2, SameCommands, RequestMoves
<1>7. CASE cmd' = SaveStaffAction(c, "ABANDONED", FALSE) /\ UNCHANGED <<stored, observed>>
  <2>1. cmd' \in [Commands -> Command] /\ cmd'[c].status = "ABANDONED" /\ ~cmd'[c].refund
          /\ \A d \in Commands : d # c => cmd'[d] = cmd[d]
    BY <1>2, <1>7 DEF SaveStaffAction, RefundsInv, Shape, Command
  <2>2. Shape'
    BY <1>1, <1>3, <1>7, <2>1 DEF RefundsInv, Shape
  <2>3. RequestOk(p)'
    BY <1>3, <2>2, NoReqOk DEF RefundsInv
  <2>4. CommandsOnward
    BY <2>1 DEF CommandsOnward
  <2>5. ProcessorOk'
    BY <1>1, <2>1 DEF RefundsInv, ProcessorOk, RemoteOk, MadeOk, LastOf
  <2>6. CommandsOk'
    BY <1>7, <2>1 DEF RefundsInv, CommandsOk, CommandOk, OneInProgress, PendingStaffRefund
  <2> QED BY <1>1, <1>2, <1>3, <1>7, <2>2, <2>3, <2>4, <2>5, <2>6, RequestMoves
<1>8. CASE cmd[c].status # "ABANDONED" /\ x.status # "NONE" /\ recordRefund(c, x)
             /\ cmd' = SaveStaffAction(c, "OBSERVED", TRUE)
  <2>1. cmd' \in [Commands -> Command] /\ cmd'[c].status = "OBSERVED" /\ cmd'[c].refund = TRUE
          /\ \A d \in Commands : d # c => cmd'[d] = cmd[d]
    BY <1>2, <1>8 DEF SaveStaffAction, RefundsInv, Shape, Command
  <2>2. Was(x, c) /\ stored[c].version <= x.version
    BY <1>1, <1>8 DEF RefundsInv, ActorsOk, RequestOk
  <2>3. /\ StoredOnward /\ StoredOk' /\ WithinGift' /\ stored' \in [Refunds -> Fact]
             /\ observed' = observed + 1 /\ observed \in Nat
        /\ stored'[c] = x /\ \A q \in Refunds : q # c => stored'[q] = stored[q]
    BY <1>1, <1>2, <1>8, <2>2, RecordKeeps
  <2>4. Shape'
    BY <1>1, <1>3, <2>1, <2>3 DEF RefundsInv, Shape
  <2>5. Onward
    <3>1. RemoteOnward
      BY <1>1 DEF RemoteOnward, RefundsInv, Shape, Remote
    <3>2. EventsOnward /\ clock <= clock'
      BY <1>1 DEF EventsOnward, RefundsInv, Shape
    <3>3. CommandsOnward
      BY <1>8, <2>1 DEF CommandsOnward
    <3> QED BY <2>3, <3>1, <3>2, <3>3 DEF Onward
  <2>6. ProcessorOk'
    BY <1>1, <2>1 DEF RefundsInv, ProcessorOk, RemoteOk, MadeOk, LastOf
  <2>7. LedgerOk'
    <3>1. ASSUME NEW e \in 1 .. Len(ev) PROVE EventOk(e)'
      BY <1>1, <2>3, <2>4, RecordedStays DEF RefundsInv, LedgerOk, EventOk, LastOf
    <3> QED BY <1>1, <2>3, <3>1 DEF LedgerOk
  <2>8. CommandsOk'
    <3>1. ASSUME NEW d \in Commands PROVE CommandOk(d)'
      <4>1. CASE d = c
        BY <1>8, <2>1, <2>3, <4>1 DEF CommandOk
      <4>2. CASE d # c
        BY <2>1, <2>3, <4>2 DEF RefundsInv, CommandsOk, CommandOk, Refunds
      <4> QED BY <4>1, <4>2
    <3>2. ASSUME NEW d \in Commands, PendingStaffRefund(d)' PROVE PendingStaffRefund(d)
      <4>1. CASE d = c
        BY <1>2, <1>8, <2>1, <2>3, <2>4, <3>2, <4>1, StillPending DEF PendingStaffRefund,
             RefundsInv, LedgerOk, Command
      <4>2. CASE d # c
        BY <2>1, <2>3, <3>2, <4>2 DEF PendingStaffRefund, Refunds
      <4> QED BY <4>1, <4>2
    <3> QED BY <3>1, <3>2 DEF RefundsInv, CommandsOk, OneInProgress
  <2>9. \A q \in Requests : RequestOk(q)'
    BY <1>3, <1>4, <2>4, <2>5, NoReqOk, RequestsKeep DEF RefundsInv
  <2>10. (\A w \in Workers : WorkerOk(w)') /\ OneWorkerEach'
    <3>1. "free" \notin Workers
      BY DEF RefundsAssumption
    <3>2. \A w \in Workers : WorkerOk(w)'
      BY <1>1, <1>5, <2>4, <2>5, <3>1, WorkersKeep
    <3> QED BY <1>1, <3>2 DEF RefundsInv, ActorsOk, OneWorkerEach
  <2> QED BY <2>3, <2>4, <2>6, <2>7, <2>8, <2>9, <2>10 DEF RefundsInv, ActorsOk
<1> QED BY <1>6, <1>7, <1>8 DEF submitRefund

-----------------------------------------------------------------------------
\* An event is tried: it keeps its place and its refund.
LEMMA EventTried ==
  ASSUME Shape, NEW e \in 1 .. Len(ev), NEW z \in Event, z.refund = ev[e].refund,
         ev' = [ev EXCEPT ![e] = z]
  PROVE  /\ ev' \in Seq(Event) /\ Len(ev') = Len(ev) /\ Len(ev) \in Nat /\ ev'[e] = z
         /\ \A f \in 1 .. Len(ev) : f # e => ev'[f] = ev[f]
         /\ \A f \in 1 .. Len(ev) : ev'[f].refund = ev[f].refund /\ (LastOf(f)' <=> LastOf(f))
<1>1. ev \in Seq(Event)
  BY DEF Shape
<1>2. /\ ev' \in Seq(Event) /\ Len(ev') = Len(ev) /\ Len(ev) \in Nat /\ ev'[e] = z
      /\ \A f \in 1 .. Len(ev) : f # e => ev'[f] = ev[f]
  BY <1>1
<1>3. \A f \in 1 .. Len(ev) : ev'[f].refund = ev[f].refund
  BY <1>2
<1>4. \A f \in 1 .. Len(ev) : LastOf(f)' <=> LastOf(f)
  BY <1>2, <1>3 DEF LastOf
<1> QED BY <1>2, <1>3, <1>4

\* What the statements make of an event.
LEMMA EventSaved ==
  ASSUME RefundsAssumption, Shape, NEW z \in Event, NEW n \in 0 .. MaxAttempts, NEW t \in Times,
         NEW d \in BOOLEAN
  PROVE  /\ [z EXCEPT !.delivered = d] \in Event
         /\ [z EXCEPT !.attempts = n, !.at = t] \in Event
         /\ [z EXCEPT !.done = d, !.attempts = n] \in Event
<1>1. ASSUME NEW y \in Event
      PROVE  /\ [y EXCEPT !.delivered = d] \in Event /\ [y EXCEPT !.done = d] \in Event
             /\ [y EXCEPT !.attempts = n] \in Event /\ [y EXCEPT !.at = t] \in Event
  <2>1. [y EXCEPT !.delivered = d] \in Event
    BY DEF Event
  <2>2. [y EXCEPT !.done = d] \in Event
    BY DEF Event
  <2>3. [y EXCEPT !.attempts = n] \in Event
    BY DEF Event
  <2>4. [y EXCEPT !.at = t] \in Event
    BY DEF Event
  <2> QED BY <2>1, <2>2, <2>3, <2>4
<1>2. [z EXCEPT !.attempts = n, !.at = t] = [[z EXCEPT !.attempts = n] EXCEPT !.at = t]
  OBVIOUS
<1>3. [z EXCEPT !.done = d, !.attempts = n] = [[z EXCEPT !.done = d] EXCEPT !.attempts = n]
  OBVIOUS
<1> QED BY <1>1, <1>2, <1>3

LEMMA BackoffTyped ==
  ASSUME NEW t \in Nat, NEW n \in Nat
  PROVE  At(t) \in Times /\ Backoff(t, n) \in Times
BY DEF Times

-----------------------------------------------------------------------------
\* A step of a worker that records nothing.
LEMMA WorkerMoves ==
  ASSUME RefundsAssumption, RefundsInv, Shape', NEW w \in Workers, Rests, UNCHANGED <<cmd, req>>,
         \A v \in Workers \ {w} : wrk'[v] = wrk[v] /\
           (wrk[v].pc # "idle" => ev'[wrk[v].event].done = ev[wrk[v].event].done
             /\ ev'[wrk[v].event].attempts = ev[wrk[v].event].attempts),
         lock' = lock \/ (lock = "free" /\ lock' = w) \/ (lock = w /\ lock' = "free"),
         WorkerOk(w)',
         \A v \in Workers \ {w} : (wrk[v].pc # "idle" \/ wrk'[w].pc # "idle") =>
           wrk'[w].event # wrk[v].event
  PROVE  RefundsInv'
<1>1. Onward /\ ProcessorOk' /\ LedgerOk' /\ CommandsOk' /\ WithinGift'
  BY RestKeeps
<1>2. stored' = stored
  BY DEF Rests
<1>3. "free" \notin Requests /\ w \notin Requests
  BY DEF RefundsAssumption
<1>4. \A q \in Requests : RequestOk(q)'
  <2>1. \A q \in Requests : req[q].pc = "record" => lock' = q
    BY <1>3 DEF RefundsInv, ActorsOk, RequestOk
  <2> QED BY <1>1, <1>2, <1>3, <2>1, RequestsKeep
<1>5. \A v \in Workers : WorkerOk(v)'
  <2>1. \A v \in Workers \ {w} : wrk[v].pc = "record" => lock' = v
    BY DEF RefundsInv, ActorsOk, WorkerOk, RefundsAssumption
  <2> QED BY <1>1, <1>2, <2>1, WorkersKeep
<1>6. OneWorkerEach'
  BY DEF RefundsInv, ActorsOk, OneWorkerEach
<1> QED BY <1>1, <1>4, <1>5, <1>6 DEF RefundsInv, ActorsOk

\* One that leaves the events alone as well.
LEMMA SameEvents ==
  ASSUME RefundsInv, UNCHANGED <<remote, stored, observed, ev, clock>>
  PROVE  Rests
BY DEF Rests, RefundsInv, Shape

LEMMA NoWorkOk ==
  ASSUME Shape', NEW w \in Workers, wrk'[w] = NoWork
  PROVE  WorkerOk(w)'
BY DEF Shape, WorkerOk, NoWork

LEMMA NoWorkTyped == NoWork \in Work
BY DEF NoWork, Work, NoRefund, Fact, Status

\* A worker that gives up its event leaves the others theirs.
LEMMA Alone ==
  ASSUME RefundsInv, NEW w \in Workers, NEW v \in Workers \ {w}
  PROVE  /\ wrk[v].pc # "idle" => wrk[v].event \in 1 .. Len(ev) /\ wrk[v].event # 0
         /\ wrk[v].pc # "idle" \/ wrk[w].pc # "idle" => wrk[w].event # wrk[v].event
<1>1. wrk[v].pc # "idle" => wrk[v].event \in 1 .. Len(ev) /\ Len(ev) \in Nat
  BY DEF RefundsInv, ActorsOk, WorkerOk, Shape
<1>2. wrk[v].pc # "idle" \/ wrk[w].pc # "idle" => wrk[w].event # wrk[v].event
  BY DEF RefundsInv, ActorsOk, OneWorkerEach
<1> QED BY <1>1, <1>2

LEMMA DieInv ==
  ASSUME RefundsAssumption, RefundsInv, NEW w \in Workers, Die(w)
  PROVE  RefundsInv'
<1> USE DEF Die
<1>1. wrk'[w] = NoWork /\ \A v \in Workers \ {w} : wrk'[v] = wrk[v]
  BY DEF RefundsInv, Shape
<1>2. Shape'
  BY NoWorkTyped DEF RefundsInv, Shape, RefundsAssumption
<1>3. \A v \in Workers \ {w} : wrk[v].pc # "idle" => wrk'[w].event # wrk[v].event
  BY <1>1, Alone DEF NoWork
<1>4. wrk'[w].pc = "idle"
  BY <1>1 DEF NoWork
<1> QED BY <1>1, <1>2, <1>3, <1>4, NoWorkOk, SameEvents, WorkerMoves

LEMMA RetrieveInv ==
  ASSUME RefundsAssumption, RefundsInv, NEW w \in Workers, applyRefundEvent(w)
  PROVE  RefundsInv'
<1> USE DEF applyRefundEvent, Quiet
<1> DEFINE r == RefundOf(w) x == retrieveRefund(RefundOf(w))
<1>1. wrk[w] \in Work /\ wrk[w].event \in 1 .. Len(ev) /\ r \in Refunds
  BY EventTyped DEF RefundsInv, Shape, ActorsOk, WorkerOk, RefundOf
<1>2. x = Facts[r] /\ x \in Fact
  BY <1>1, FactsTyped DEF retrieveRefund, Facts, RefundsInv
<1>3. wrk'[w] = [wrk[w] EXCEPT !.pc = "lock", !.fact = x]
        /\ \A v \in Workers \ {w} : wrk'[v] = wrk[v]
  BY DEF RefundsInv, Shape
<1>4. /\ wrk'[w] \in Work /\ wrk'[w].pc = "lock" /\ wrk'[w].fact = x
      /\ wrk'[w].event = wrk[w].event /\ wrk'[w].seen = wrk[w].seen
  <2>1. PICK z \in Work, y \in Fact : z = wrk[w] /\ y = x
    BY <1>1, <1>2
  <2> HIDE DEF x, applyRefundEvent, Quiet
  <2>2. wrk'[w] = [z EXCEPT !.pc = "lock", !.fact = y]
    BY <1>3, <2>1
  <2>3. wrk'[w] \in Work
    BY <2>2 DEF Work
  <2> QED BY <2>1, <2>2, <2>3 DEF Work
<1>5. Shape'
  BY <1>4 DEF RefundsInv, Shape
<1>6. WorkerOk(w)'
  <2>1. Was(x, r) /\ x.version = remote[r].version /\ stored[r].version <= x.version
    BY <1>1, <1>2, FactIsSo
  <2>3. x' = x /\ r' = r
    BY <1>4 DEF retrieveRefund, RefundOf
  <2> QED BY <1>4, <2>1, <2>3 DEF RefundsInv, ActorsOk, WorkerOk, Was, LastOf, RefundOf
<1>7. \A v \in Workers \ {w} : wrk'[w].event # wrk[v].event
  BY <1>4, Alone
<1> QED BY <1>3, <1>5, <1>6, <1>7, SameEvents, WorkerMoves

LEMMA LockDonorInv ==
  ASSUME RefundsAssumption, RefundsInv, NEW w \in Workers, LockDonor(w)
  PROVE  RefundsInv'
<1> USE DEF LockDonor, Quiet
<1> DEFINE r == RefundOf(w) x == GiftByPayment(w)
<1>1. wrk[w] \in Work /\ wrk[w].event \in 1 .. Len(ev) /\ r \in Refunds
  BY EventTyped DEF RefundsInv, Shape, ActorsOk, WorkerOk, RefundOf
<1>2. /\ x \in Fact /\ Was(x, r) /\ stored[r].version <= x.version
      /\ LastOf(wrk[w].event) => x.version = remote[r].version
  <2>1. CASE observed = wrk[w].seen
    BY <1>1, <2>1 DEF GiftByPayment, Work, RefundsInv, ActorsOk, WorkerOk, RefundOf
  <2>2. CASE observed # wrk[w].seen
    <3>1. x = Facts[r] /\ Facts \in [Refunds -> Fact]
      BY <1>1, <2>2, FactsTyped DEF GiftByPayment, retrieveRefund, Facts, RefundsInv
    <3> QED BY <1>1, <3>1, FactIsSo
  <2> QED BY <2>1, <2>2
<1>3. wrk'[w] = [wrk[w] EXCEPT !.pc = "record", !.fact = x]
        /\ \A v \in Workers \ {w} : wrk'[v] = wrk[v]
  BY DEF RefundsInv, Shape
<1>4. /\ wrk'[w] \in Work /\ wrk'[w].pc = "record" /\ wrk'[w].fact = x
      /\ wrk'[w].event = wrk[w].event /\ wrk'[w].seen = wrk[w].seen
  <2>1. PICK z \in Work, y \in Fact : z = wrk[w] /\ y = x
    BY <1>1, <1>2
  <2> HIDE DEF x, LockDonor, Quiet
  <2>2. wrk'[w] = [z EXCEPT !.pc = "record", !.fact = y]
    BY <1>3, <2>1
  <2>3. wrk'[w] \in Work
    BY <2>2 DEF Work
  <2> QED BY <2>1, <2>2, <2>3 DEF Work
<1>5. Shape'
  BY <1>4 DEF RefundsInv, Shape
<1>6. WorkerOk(w)'
  BY <1>2, <1>4 DEF RefundsInv, ActorsOk, WorkerOk, Was, LastOf, RefundOf
<1>7. \A v \in Workers \ {w} : wrk'[w].event # wrk[v].event
  BY <1>4, Alone
<1> QED BY <1>3, <1>5, <1>6, <1>7, SameEvents, WorkerMoves

-----------------------------------------------------------------------------
\* An event that is put back, for later or at once, or delivered, keeps all but
\* its attempts and times.
PutBack(e) ==
  /\ ev' \in Seq(Event) /\ Len(ev') = Len(ev) /\ Len(ev) \in Nat
  /\ \A f \in 1 .. Len(ev) : ev'[f].refund = ev[f].refund /\ ev'[f].done = ev[f].done
       /\ (f # e => ev'[f] = ev[f])

LEMMA ReplacedPutsBack ==
  ASSUME Shape, NEW e \in 1 .. Len(ev), NEW z \in Event, z.refund = ev[e].refund,
         z.done = ev[e].done, ev' = [ev EXCEPT ![e] = z]
  PROVE  PutBack(e) /\ ev'[e] = z
<1>1. /\ ev' \in Seq(Event) /\ Len(ev') = Len(ev) /\ Len(ev) \in Nat /\ ev'[e] = z
      /\ \A f \in 1 .. Len(ev) : f # e => ev'[f] = ev[f]
  BY EventTried
<1>2. ASSUME NEW f \in 1 .. Len(ev) PROVE ev'[f].refund = ev[f].refund /\ ev'[f].done = ev[f].done
  <2>1. CASE f = e
    BY <1>1, <2>1
  <2>2. CASE f # e
    BY <1>1, <2>2
  <2> QED BY <2>1, <2>2
<1> QED BY <1>1, <1>2 DEF PutBack

LEMMA FailPutsBack ==
  ASSUME RefundsAssumption, RefundsInv, NEW e \in 1 .. Len(ev), ev[e].attempts < MaxAttempts,
         ev' = FailStripeEvent(e)
  PROVE  PutBack(e)
<1>1. ev[e] \in Event /\ Shape /\ MaxAttempts \in Nat /\ clock \in Nat
  BY EventTyped DEF RefundsInv, RefundsAssumption, Shape
<1>2. PICK n \in 0 .. MaxAttempts : n = ev[e].attempts + 1
  BY <1>1 DEF Event
<1>3. PICK t \in Times : t = Backoff(clock, ev[e].attempts)
  BY <1>1, BackoffTyped DEF Event
<1>4. PICK z \in Event : z = [ev[e] EXCEPT !.attempts = n, !.at = t]
  <2>1. \A d \in BOOLEAN : [ev[e] EXCEPT !.attempts = n, !.at = t] \in Event
    BY <1>1, EventSaved
  <2> QED BY <2>1
<1>5. z.refund = ev[e].refund /\ z.done = ev[e].done
  BY <1>1, <1>4 DEF Event
<1>6. ev' = [ev EXCEPT ![e] = z]
  BY <1>2, <1>3, <1>4 DEF FailStripeEvent, Backoff
<1> QED BY <1>1, <1>5, <1>6, ReplacedPutsBack

LEMMA RetryPutsBack ==
  ASSUME RefundsAssumption, RefundsInv, NEW e \in 1 .. Len(ev), ev' = RetryStripeEvent(e)
         \/ ev' = InsertStripeEvent(e)
  PROVE  PutBack(e) /\ (ev' = InsertStripeEvent(e) => ev'[e].attempts = ev[e].attempts)
<1>1. ev[e] \in Event /\ Shape /\ 0 \in 0 .. MaxAttempts /\ At(clock) \in Times
  BY EventTyped, BackoffTyped DEF RefundsInv, RefundsAssumption, Shape
<1>2. ASSUME ev' = RetryStripeEvent(e) PROVE PutBack(e)
  <2>1. PICK z \in Event : z = [ev[e] EXCEPT !.attempts = 0, !.at = At(clock)]
    <3>1. \A t \in Times, d \in BOOLEAN : [ev[e] EXCEPT !.attempts = 0, !.at = t] \in Event
      BY <1>1, EventSaved
    <3> QED BY <1>1, <3>1
  <2>2. z.refund = ev[e].refund /\ z.done = ev[e].done
    BY <1>1, <2>1 DEF Event
  <2>3. ev' = [ev EXCEPT ![e] = z]
    BY <1>2, <2>1 DEF RetryStripeEvent
  <2> QED BY <1>1, <2>2, <2>3, ReplacedPutsBack
<1>3. ASSUME ev' = InsertStripeEvent(e) PROVE PutBack(e) /\ ev'[e].attempts = ev[e].attempts
  <2>1. PICK z \in Event : z = [ev[e] EXCEPT !.delivered = TRUE]
    BY <1>1, EventSaved
  <2>2. z.refund = ev[e].refund /\ z.done = ev[e].done /\ z.attempts = ev[e].attempts
    BY <1>1, <2>1 DEF Event
  <2>3. ev' = [ev EXCEPT ![e] = z]
    BY <1>3, <2>1 DEF InsertStripeEvent
  <2>4. PutBack(e) /\ ev'[e] = z
    BY <1>1, <2>2, <2>3, ReplacedPutsBack
  <2> QED BY <2>2, <2>4
<1> QED BY <1>2, <1>3

LEMMA FailInv ==
  ASSUME RefundsAssumption, RefundsInv, NEW w \in Workers, NEW e \in 1 .. Len(ev),
         ev' = FailStripeEvent(e), ev[e].attempts < MaxAttempts,
         \A v \in Workers \ {w} : wrk[v].event # e, wrk' = [wrk EXCEPT ![w] = NoWork],
         lock' = lock \/ (lock = w /\ lock' = "free"),
         UNCHANGED <<clock, deaths, gift, remote, stored, observed, cmd, req>>
  PROVE  RefundsInv'
<1>1. PutBack(e)
  BY FailPutsBack
<1>2. wrk'[w] = NoWork /\ \A v \in Workers \ {w} : wrk'[v] = wrk[v]
  BY DEF RefundsInv, Shape
<1>3. Shape'
  BY <1>1, NoWorkTyped DEF RefundsInv, Shape, PutBack
<1>4. Rests
  BY <1>1 DEF Rests, PutBack, RefundsInv, Shape
<1>5. \A v \in Workers \ {w} : wrk[v].pc # "idle" => ev'[wrk[v].event] = ev[wrk[v].event]
  BY <1>1, Alone DEF PutBack
<1>6. \A v \in Workers \ {w} : wrk[v].pc # "idle" => wrk'[w].event # wrk[v].event
  BY <1>2, Alone DEF NoWork
<1>7. wrk'[w].pc = "idle"
  BY <1>2 DEF NoWork
<1> QED BY <1>2, <1>3, <1>4, <1>5, <1>6, <1>7, NoWorkOk, WorkerMoves

LEMMA UnavailableInv ==
  ASSUME RefundsAssumption, RefundsInv, NEW w \in Workers, Unavailable(w)
  PROVE  RefundsInv'
<1>1. wrk[w].event \in 1 .. Len(ev) /\ ev[wrk[w].event].attempts < MaxAttempts /\ wrk[w].pc # "idle"
  BY DEF Unavailable, RefundsInv, ActorsOk, WorkerOk
<1>2. \A v \in Workers \ {w} : wrk[v].event # wrk[w].event
  BY <1>1, Alone
<1> QED BY <1>1, <1>2, FailInv DEF Unavailable, Fail, Quiet

LEMMA ClaimInv ==
  ASSUME RefundsAssumption, RefundsInv, NEW w \in Workers, NEW e \in 1 .. Len(ev), ProcessNext(w, e)
  PROVE  RefundsInv'
<1>1. /\ wrk[w].pc = "idle" /\ ~ev[e].done /\ ev[e].attempts < MaxAttempts
           /\ \A v \in Workers : wrk[v].event # e
      /\ UNCHANGED <<clock, deaths, gift, remote, stored, observed, cmd, req, lock>>
  BY DEF ProcessNext, NextStripeEvent, Quiet
<1>2. CASE gift
  <2>1. wrk' = [wrk EXCEPT ![w] = [NoWork EXCEPT !.pc = "read", !.event = e, !.seen = observed]]
          /\ ev' = ev
    BY <1>2 DEF ProcessNext, GiftRefundObservations
  <2>2. e \in Nat /\ observed \in Nat
    BY DEF RefundsInv, Shape
  <2>3. PICK z \in Work : z = NoWork
    BY NoWorkTyped
  <2>4. wrk'[w] = [z EXCEPT !.pc = "read", !.event = e, !.seen = observed]
          /\ \A v \in Workers \ {w} : wrk'[v] = wrk[v]
    BY <2>1, <2>3 DEF RefundsInv, Shape
  <2>5. wrk'[w] \in Work /\ wrk'[w].pc = "read" /\ wrk'[w].event = e /\ wrk'[w].seen = observed
    BY <2>2, <2>4 DEF Work
  <2>6. Shape'
    BY <1>1, <2>1, <2>5 DEF RefundsInv, Shape
  <2>7. WorkerOk(w)'
    BY <1>1, <2>1, <2>2, <2>5 DEF WorkerOk
  <2> QED BY <1>1, <2>1, <2>4, <2>5, <2>6, <2>7, SameEvents, WorkerMoves
<1>3. CASE ~gift
  <2>1. ev' = FailStripeEvent(e) /\ wrk' = wrk
    BY <1>3 DEF ProcessNext
  <2>2. PutBack(e)
    BY <1>1, <2>1, FailPutsBack
  <2>3. Shape'
    BY <1>1, <2>1, <2>2 DEF RefundsInv, Shape, PutBack
  <2>4. Rests
    BY <1>1, <2>2 DEF Rests, PutBack, RefundsInv, Shape
  <2>5. EventsHeld
    BY <1>1, <2>2 DEF EventsHeld, PutBack, RefundsInv, ActorsOk, WorkerOk
  <2>6. Onward /\ ProcessorOk' /\ LedgerOk' /\ CommandsOk' /\ WithinGift'
    BY <1>1, <2>3, <2>4, RestKeeps
  <2> QED BY <1>1, <2>1, <2>3, <2>5, <2>6, ActorsRest DEF RefundsInv
<1> QED BY <1>2, <1>3

LEMMA ApplyInv ==
  ASSUME RefundsAssumption, RefundsInv, NEW w \in Workers, applyEvent(w)
  PROVE  RefundsInv'
<1> DEFINE x == wrk[w].fact
<1>0. PICK e \in Nat : e = wrk[w].event
  BY DEF RefundsInv, Shape, Work
<1>1. PICK r : r = ev[e].refund
  OBVIOUS
<1>2. /\ lock = w /\ e \in 1 .. Len(ev) /\ ev[e].attempts < MaxAttempts /\ wrk[w].pc = "record"
           /\ RefundOf(w) = r
      /\ Was(x, r) /\ stored[r].version <= x.version /\ (LastOf(e) => x.version = remote[r].version)
  BY <1>0, <1>1 DEF applyEvent, RefundsInv, ActorsOk, WorkerOk, RefundOf
<1>3. r \in Refunds /\ ev[e] \in Event /\ x \in Fact /\ Len(ev) \in Nat
  BY <1>1, <1>2, EventTyped DEF RefundsInv, Shape, Work
<1>4. \A v \in Workers \ {w} : wrk[v].event # e /\ wrk[v].pc # "record"
  BY <1>0, <1>2, Alone DEF RefundsInv, ActorsOk, WorkerOk
<1>5. \A q \in Requests : req[q].pc # "record"
  BY <1>2 DEF RefundsInv, ActorsOk, RequestOk, RefundsAssumption
<1>6. lock' = "free" /\ UNCHANGED <<clock, deaths, gift, remote, cmd, req>>
  BY DEF applyEvent, Quiet
<1>7. CASE Fail(w) /\ UNCHANGED <<stored, observed>>
  BY <1>0, <1>2, <1>4, <1>6, <1>7, FailInv DEF Fail
<1>8. CASE recordRefund(r, x) /\ ev' = CompleteStripeEvent(e) /\ wrk' = [wrk EXCEPT ![w] = NoWork]
  <2>1. /\ StoredOnward /\ StoredOk' /\ WithinGift' /\ stored' \in [Refunds -> Fact]
             /\ observed' = observed + 1 /\ observed \in Nat
        /\ stored'[r] = x /\ \A q \in Refunds : q # r => stored'[q] = stored[q]
    BY <1>2, <1>3, <1>6, <1>8, RecordKeeps
  <2>2. PICK n \in 0 .. MaxAttempts : n = ev[e].attempts + 1
    BY <1>2, <1>3 DEF Event, RefundsAssumption
  <2>3. PICK z \in Event : z = [ev[e] EXCEPT !.done = TRUE, !.attempts = n]
    <3>1. \A t \in Times : [ev[e] EXCEPT !.done = TRUE, !.attempts = n] \in Event
      BY <1>3, EventSaved DEF RefundsInv
    <3>2. 0 \in Times
      BY DEF Times
    <3> QED BY <3>1, <3>2
  <2>4. z.refund = r
    BY <1>1, <1>3, <2>3 DEF Event
  <2>5. ev' = [ev EXCEPT ![e] = z]
    BY <1>8, <2>2, <2>3 DEF CompleteStripeEvent
  <2>6. /\ ev' \in Seq(Event) /\ Len(ev') = Len(ev) /\ Len(ev) \in Nat
        /\ \A f \in 1 .. Len(ev) : f # e => ev'[f] = ev[f]
        /\ \A f \in 1 .. Len(ev) : ev'[f].refund = ev[f].refund /\ (LastOf(f)' <=> LastOf(f))
    BY <1>1, <1>2, <2>4, <2>5, EventTried DEF RefundsInv
  <2>7. wrk'[w] = NoWork /\ wrk' \in [Workers -> Work] /\ \A v \in Workers \ {w} : wrk'[v] = wrk[v]
    BY <1>8, NoWorkTyped DEF RefundsInv, Shape
  <2>8. Shape'
    BY <1>6, <2>1, <2>6, <2>7 DEF RefundsInv, Shape
  <2>9. Onward
    <3>1. RemoteOnward
      BY <1>6, <2>6 DEF RemoteOnward, RefundsInv, Shape, Remote
    <3>2. EventsOnward /\ clock <= clock'
      BY <1>6, <2>6 DEF EventsOnward, RefundsInv, Shape
    <3>3. CommandsOnward
      BY <1>6 DEF CommandsOnward
    <3> QED BY <2>1, <3>1, <3>2, <3>3 DEF Onward
  <2>10. ProcessorOk'
    BY <1>6, <2>6 DEF RefundsInv, ProcessorOk, RemoteOk, MadeOk
  <2>11. LedgerOk'
    <3>1. ASSUME NEW f \in 1 .. Len(ev) PROVE EventOk(f)'
      <4>1. CASE f = e
        BY <1>1, <1>2, <1>6, <2>1, <2>6, <4>1 DEF EventOk
      <4>2. CASE f # e
        BY <1>6, <2>1, <2>6, <2>8, <4>2, RecordedStays DEF RefundsInv, LedgerOk, EventOk
      <4> QED BY <4>1, <4>2
    <3> QED BY <2>1, <2>6, <3>1 DEF LedgerOk
  <2>12. CommandsOk'
    <3>1. ASSUME NEW d \in Commands, cmd[d].refund
          PROVE  stored'[d].status # "NONE"
                   /\ (stored'[d].status = "PENDING" => stored[d].status = "PENDING")
      BY <2>1, <2>8, <3>1, StillPending DEF RefundsInv, LedgerOk
    <3>2. \A d \in Commands : CommandOk(d)'
      BY <1>6, <3>1 DEF RefundsInv, CommandsOk, CommandOk
    <3>3. \A d \in Commands : PendingStaffRefund(d)' => PendingStaffRefund(d)
      BY <1>6, <3>1 DEF PendingStaffRefund
    <3> QED BY <3>2, <3>3 DEF RefundsInv, CommandsOk, OneInProgress
  <2>13. \A q \in Requests : RequestOk(q)'
    <3>1. "free" \notin Requests
      BY DEF RefundsAssumption
    <3> QED BY <1>5, <1>6, <2>8, <2>9, <3>1, RequestsKeep
  <2>14. (\A v \in Workers : WorkerOk(v)') /\ OneWorkerEach'
    <3>1. \A v \in Workers \ {w} : wrk[v].pc # "idle" => ev'[wrk[v].event] = ev[wrk[v].event]
            /\ wrk[v].event # 0
      BY <1>4, <2>6, Alone
    <3>2. \A v \in Workers : WorkerOk(v)'
      BY <1>4, <2>7, <2>8, <2>9, <3>1, NoWorkOk, WorkersKeep
    <3> QED BY <2>7, <3>1, <3>2 DEF RefundsInv, ActorsOk, OneWorkerEach, NoWork
  <2> QED BY <2>1, <2>8, <2>10, <2>11, <2>12, <2>13, <2>14 DEF RefundsInv, ActorsOk
<1> QED BY <1>0, <1>2, <1>7, <1>8 DEF applyEvent

\* Steps that concern no actor: deliveries, an operator's retry, the gift, time.
LEMMA OutsideInv ==
  ASSUME RefundsAssumption, RefundsInv,
         recordGift \/ Tick \/ \E e \in 1 .. Len(ev) : SaveVerifiedEvent(e) \/ Retry(e)
  PROVE  RefundsInv'
<1>1. UNCHANGED <<remote, stored, observed, cmd, req, wrk, lock>>
  BY DEF recordGift, Tick, SaveVerifiedEvent, Retry, Outside
<1>2. Shape' /\ Rests /\ EventsHeld
  <2>1. CASE (recordGift \/ Tick) /\ ev' = ev
    <3>1. Shape'
      <4>1. clock' \in 0 .. MaxTime /\ deaths' = deaths
        BY <2>1 DEF RefundsInv, Shape, recordGift, Tick, Outside, RefundsAssumption
      <4>2. gift' \in BOOLEAN
        BY <2>1 DEF RefundsInv, Shape, recordGift, Tick
      <4> QED BY <1>1, <2>1, <4>1, <4>2 DEF RefundsInv, Shape
    <3>2. Rests
      BY <1>1, <2>1 DEF Rests, RefundsInv, Shape, recordGift, Tick, Outside
    <3> QED BY <2>1, <3>1, <3>2 DEF EventsHeld
  <2>2. ASSUME NEW e \in 1 .. Len(ev), SaveVerifiedEvent(e) \/ Retry(e)
        PROVE  Shape' /\ Rests /\ EventsHeld
    <3>1. PutBack(e) /\ (SaveVerifiedEvent(e) => ev'[e].attempts = ev[e].attempts)
      BY <2>2, RetryPutsBack DEF SaveVerifiedEvent, Retry
    <3>2. Shape'
      <4>1. clock' = clock /\ gift' = gift
        BY <2>2 DEF SaveVerifiedEvent, Retry
      <4>2. deaths' = deaths \/ (deaths < MaxDeaths /\ deaths' = deaths + 1)
        BY <2>2 DEF SaveVerifiedEvent, Retry, Outside
      <4>3. deaths' \in 0 .. MaxDeaths
        BY <4>2 DEF RefundsInv, Shape, RefundsAssumption
      <4> QED BY <1>1, <3>1, <4>1, <4>3 DEF RefundsInv, Shape, PutBack
    <3>3. Rests
      BY <1>1, <2>2, <3>1 DEF Rests, PutBack, SaveVerifiedEvent, Retry, RefundsInv, Shape
    <3>4. ASSUME NEW w \in Workers, wrk[w].pc # "idle"
          PROVE  ev'[wrk[w].event].done = ev[wrk[w].event].done
                   /\ ev'[wrk[w].event].attempts = ev[wrk[w].event].attempts
      <4>1. wrk[w].event \in 1 .. Len(ev) /\ ev[wrk[w].event].attempts < MaxAttempts
        BY <3>4 DEF RefundsInv, ActorsOk, WorkerOk
      <4>2. Retry(e) => wrk[w].event # e
        BY <4>1 DEF Retry, RefundsAssumption
      <4> QED BY <2>2, <3>1, <4>1, <4>2 DEF PutBack
    <3> QED BY <3>2, <3>3, <3>4 DEF EventsHeld
  <2> QED BY <2>1, <2>2 DEF recordGift, Tick
<1>3. Onward /\ ProcessorOk' /\ LedgerOk' /\ CommandsOk' /\ WithinGift'
  BY <1>1, <1>2, RestKeeps
<1> QED BY <1>1, <1>2, <1>3, ActorsRest DEF RefundsInv

-----------------------------------------------------------------------------
LEMMA SumOfNone == Sum({}) = 0
<1> DEFINE F(g) == [s \in SUBSET {} |->
                      IF s = {} THEN 0
                      ELSE Amount[CHOOSE x \in s : TRUE] + g[s \ {CHOOSE x \in s : TRUE}]]
           h == CHOOSE g : g = F(g)
<1>1. \E g : g = F(g)
  <2>1. F([s \in SUBSET {} |-> 0]) = [s \in SUBSET {} |-> 0]
    OBVIOUS
  <2> QED BY <2>1
<1>2. h = F(h)
  BY <1>1
<1>3. h[{}] = 0
  <2> HIDE DEF h
  <2>1. F(h)[{}] = 0
    OBVIOUS
  <2> QED BY <1>2, <2>1
<1> QED BY <1>3 DEF Sum, MapThenSumSet, MapThenFoldSet

LEMMA RefundsStart ==
  ASSUME RefundsAssumption, Init
  PROVE  RefundsInv
<1> USE DEF Init
<1>1. Shape
  <2>1. remote \in [Refunds -> Remote] /\ stored \in [Refunds -> Fact]
    BY DEF Remote, Status, NoRefund, Fact
  <2>2. cmd \in [Commands -> Command] /\ ev \in Seq(Event)
    BY DEF Command
  <2>3. gift \in BOOLEAN
    BY DEF RefundsAssumption
  <2>4. clock \in 0 .. MaxTime /\ deaths \in 0 .. MaxDeaths /\ observed \in Nat /\ lock = "free"
    BY DEF RefundsAssumption
  <2> QED BY <2>1, <2>2, <2>3, <2>4, NoReqTyped, NoWorkTyped DEF Shape
<1>2. Len(ev) = 0
  OBVIOUS
<1>3. ProcessorOk
  BY DEF ProcessorOk, RemoteOk, MadeOk, Kind, Refunds
<1>4. LedgerOk
  BY <1>2 DEF LedgerOk, StoredOk, Was, Kind, NoRefund
<1>5. ActorsOk
  <2>1. \A p \in Requests : RequestOk(p)
    BY DEF RequestOk, NoReq
  <2>2. \A w \in Workers : WorkerOk(w)
    BY DEF WorkerOk, NoWork
  <2> QED BY <2>1, <2>2 DEF ActorsOk, OneWorkerEach, NoWork
<1>6. CommandsOk
  BY DEF CommandsOk, CommandOk, OneInProgress, PendingStaffRefund
<1>7. WithinGift
  <2>1. {r \in Refunds : stored[r].status = "SUCCEEDED"} = {}
    BY DEF NoRefund
  <2>2. SucceededRefundAmounts(stored) = Sum({})
    BY <2>1 DEF SucceededRefundAmounts
  <2> QED BY <2>2, SumOfNone DEF WithinGift, RefundsAssumption
<1> QED BY <1>1, <1>3, <1>4, <1>5, <1>6, <1>7 DEF RefundsInv

LEMMA RefundsStep ==
  ASSUME RefundsAssumption, RefundsInv, [Next]_vars
  PROVE  RefundsInv'
<1>1. CASE \E p \in Requests : (\E c \in Commands : stage(p, c)) \/ RequestStep(p)
             \/ auditFailure(p)
  BY <1>1, StageInv, SnapshotInv, ListInv, CreateInv, LockInv, SubmitInv, FailureInv DEF RequestStep
<1>2. CASE \E w \in Workers : WorkerStep(w) \/ Unavailable(w) \/ Die(w)
  BY <1>2, ClaimInv, RetrieveInv, LockDonorInv, ApplyInv, UnavailableInv, DieInv DEF WorkerStep
<1>3. CASE (\E r \in Refunds : Succeed(r) \/ Fails(r)) \/ (\E r \in Dashboard : DashboardRefund(r))
  <2>1. Dashboard \subseteq Refunds
    BY DEF Refunds
  <2> QED BY <1>3, <2>1, ChangeInv
<1>4. CASE recordGift \/ Tick \/ \E e \in 1 .. Len(ev) : SaveVerifiedEvent(e) \/ Retry(e)
  BY <1>4, OutsideInv
<1>5. CASE UNCHANGED vars
  <2>1. Shape'
    BY <1>5 DEF RefundsInv, Shape, vars
  <2>2. Rests /\ UNCHANGED <<cmd, req, wrk, lock, stored>> /\ EventsHeld
    BY <1>5 DEF Rests, RefundsInv, Shape, vars, EventsHeld
  <2>3. Onward /\ ProcessorOk' /\ LedgerOk' /\ CommandsOk' /\ WithinGift'
    BY <2>1, <2>2, RestKeeps
  <2> QED BY <2>1, <2>2, <2>3, ActorsRest DEF RefundsInv
<1> QED BY <1>1, <1>2, <1>3, <1>4, <1>5 DEF Next

\* The invariant of the refunds of a gift.
THEOREM RefundsInvariant == ASSUME RefundsAssumption PROVE Spec => []RefundsInv
<1>1. Init => RefundsInv
  BY RefundsStart
<1>2. RefundsInv /\ [Next]_vars => RefundsInv'
  BY RefundsStep
<1> QED BY <1>1, <1>2, PTL DEF Spec

\* Rows have their types, and a command that names a refund has one stored: the
\* join of PendingStaffRefund finds it.
THEOREM RefundsTypeCorrect == ASSUME RefundsAssumption PROVE Spec => []TypeOK
<1>1. RefundsInv => TypeOK
  <2> SUFFICES ASSUME RefundsInv PROVE TypeOK
    OBVIOUS
  <2>1. \A r \in Refunds : stored[r].status \in {"NONE", "PENDING", "SUCCEEDED", "FAILED"}
    BY DEF RefundsInv, Shape, Fact, Status
  <2>2. \A e \in 1 .. Len(ev) : ev[e].attempts \in 0 .. MaxAttempts
    BY EventTyped DEF RefundsInv, Event
  <2>3. \A c \in Commands : (cmd[c].refund <=> cmd[c].status = "OBSERVED")
          /\ (cmd[c].refund => stored[c].status # "NONE")
    BY DEF RefundsInv, CommandsOk, CommandOk
  <2> QED BY <2>1, <2>2, <2>3 DEF TypeOK, RefundsInv, Shape
<1> QED BY <1>1, RefundsInvariant, PTL

\* A refund that is with the processor is in progress, and one command is.
LEMMA OnePending ==
  ASSUME RefundsInv
  PROVE  OneAtATime
<1> DEFINE S == {c \in Commands : cmd[c].status # "ABANDONED" /\ remote[c].status = "PENDING"}
<1>1. ASSUME NEW c \in S PROVE c \in Commands /\ PendingStaffRefund(c)
  <2>1. c \in Commands /\ c \in Refunds /\ remote[c].status = "PENDING"
          /\ cmd[c].status # "ABANDONED"
    BY DEF Refunds
  <2>2. remote[c] \in Remote /\ stored[c] \in Fact /\ Kind(remote[c]) /\ MadeOk(c)
          /\ Was(stored[c], c) /\ CommandOk(c)
    BY <2>1 DEF RefundsInv, Shape, ProcessorOk, RemoteOk, LedgerOk, StoredOk, CommandsOk
  <2>3. cmd[c].status # "NONE"
    BY <2>1, <2>2 DEF MadeOk, Remote
  <2>4. cmd[c].refund => stored[c].status = "PENDING"
    BY <2>1, <2>2 DEF CommandOk, Was, Kind, Remote, Fact
  <2> QED BY <2>1, <2>3, <2>4 DEF PendingStaffRefund
<1>2. \A c, d \in S : c = d
  BY <1>1 DEF RefundsInv, CommandsOk, OneInProgress
<1>3. Cardinality(S) <= 1
  <2> HIDE DEF S
  <2>1. CASE S = {}
    BY <2>1, FS_EmptySet
  <2>2. CASE S # {}
    <3>1. PICK c : S = {c}
      BY <1>2, <2>2
    <3> QED BY <3>1, FS_Singleton
  <2> QED BY <2>1, <2>2
<1> QED BY <1>3 DEF OneAtATime

\* The last event of a refund, once applied, left nothing out.
LEMMA LastCounts ==
  ASSUME RefundsInv
  PROVE  CaughtUp
<1> SUFFICES ASSUME NEW r \in Refunds, \A e \in 1 .. Len(ev) : ev[e].refund = r => ev[e].done
             PROVE  stored[r].status = remote[r].status
  BY DEF CaughtUp
<1>1. remote[r] \in Remote /\ stored[r] \in Fact /\ RemoteOk(r) /\ Was(stored[r], r)
  BY DEF RefundsInv, Shape, ProcessorOk, LedgerOk, StoredOk
<1>2. stored[r].version = remote[r].version
  <2>1. CASE remote[r].version = 0
    BY <1>1, <2>1 DEF Was, Fact
  <2>2. CASE remote[r].version > 0
    <3>1. PICK e \in 1 .. Len(ev) : ev[e].refund = r /\ LastOf(e)
      BY <1>1, <2>2 DEF RemoteOk
    <3> QED BY <3>1 DEF RefundsInv, LedgerOk, EventOk
  <2> QED BY <1>1, <2>1, <2>2 DEF Remote
<1> QED BY <1>1, <1>2 DEF Was

\* A staff command moves money at most once, whatever is retried, dies or loses
\* its answer (createRefund); two are never with the processor at once, so that
\* neither takes the balance the other was checked against (stage); what is
\* recorded as refunded never exceeds the gift (recordRefund); and once a refund's
\* events are applied, in whatever order, what is stored of it is what the
\* processor says (applyRefundEvent, submitRefund).
THEOREM RefundsTrue == ASSUME RefundsAssumption PROVE Spec => []RefundsExact
<1>1. RefundsInv => RefundsExact
  BY OnePending, LastCounts DEF RefundsExact, RefundedOnce, RefundsInv, ProcessorOk, MadeOk
<1> QED BY <1>1, RefundsInvariant, PTL
=============================================================================
