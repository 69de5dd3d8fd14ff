----------------------------- MODULE Projection -----------------------------
(***************************************************************************)
(* Donors' recognition projections and the referral totals they share      *)
(* (internal/store/financial.go, outbox.go, referral_signals.go).          *)
(*                                                                         *)
(* A projection is recomputed from the donor's facts in the transaction    *)
(* that records a fact, and by the projection worker when it falls due or  *)
(* its rules are old. A referred donor's transaction changes the totals on *)
(* its referrer's row by a difference, without the referrer's donor lock;  *)
(* the referrer's own transaction counts them again. Transactions hold the *)
(* rows they wrote until they commit and read what others committed (read  *)
(* committed); a gift is worth one unit.                                   *)
(***************************************************************************)
EXTENDS Integers, FiniteSets, FiniteSetsExt

CONSTANTS
  Donors,
  Gifts,     \* gifts that may be reported, each with its donor, paid time and candidate
  Cards,     \* card fingerprints and app installations
  Txs,       \* database transactions
  Poison,    \* donors whose facts cannot be projected
  Begun,     \* donors that have a projection of earlier rules at the start
  Batch,     \* ProjectionBatch
  Cap, FailCap,  \* refreshCap, and the longest backoff after a failure
  MaxTime, MaxMarks, MaxRefunds, MaxDeaths  \* bounds

ProjectionAssumption ==
  /\ {Cap, FailCap, MaxTime, MaxMarks, MaxRefunds, MaxDeaths} \subseteq Nat /\ Batch \in Nat \ {0}
  /\ Poison \cup Begun \subseteq Donors
  /\ \A g \in Gifts : g.donor \in Donors /\ g.referrer \in Donors \cup {"none"} /\ g.referrer # g.donor

VARIABLES
  clock, deaths,
  arrived, refunded, \* gifts recorded, and those refunded in full
  marks,             \* the cards and installations each donor has used
  proj,              \* donor_metric_projections
  tx                 \* open transactions: their locks, reads and writes

vars == <<clock, deaths, arrived, refunded, marks, proj, tx>>

(***************************************************************************)
(* Rows and totals.                                                        *)
(***************************************************************************)
Kinds == {"LINK", "IRL"}
NoOne == "none"
NoGift == [donor |-> NoOne, paid |-> 0, referrer |-> NoOne, kind |-> "LINK"]
Zero == [k \in Kinds |-> [count |-> 0, minor |-> 0]]
NoRow == [seeded |-> FALSE, first |-> NoGift, referrer |-> NoOne, kind |-> "LINK", net |-> 0, totals |-> Zero,
          next |-> 0, failures |-> 0, rules |-> 0]
NoTx == [pc |-> "idle", queue |-> {}, donor |-> NoOne, fact |-> [kind |-> "none"], donors |-> {}, rows |-> {},
         local |-> <<>>, old |-> NoRow, out |-> NoRow, todo |-> {}]

Row(t, d) == IF d \in tx[t].rows THEN tx[t].local[d] ELSE proj[d]
RowFree(t, d) == \A u \in Txs \ {t} : d \notin tx[u].rows
DonorFree(t, d) == \A u \in Txs \ {t} : d \notin tx[u].donors
Write(t, d, row) == [e \in tx[t].rows \cup {d} |-> IF e = d THEN row ELSE tx[t].local[e]]

SeedProjection(row) == IF row.seeded THEN row ELSE [NoRow EXCEPT !.seeded = TRUE, !.next = clock]

referralContribution(r) == [count |-> IF r.net > 0 THEN 1 ELSE 0, minor |-> r.net]
ReferralTotalsFromReferred(rows, owner) ==
  LET Of(k) == {d \in Donors : rows[d].referrer = owner /\ rows[d].kind = k} IN
  [k \in Kinds |-> [count |-> Cardinality({d \in Of(k) : rows[d].net > 0}),
                    minor |-> MapThenSumSet(LAMBDA d : rows[d].net, Of(k))]]

(* What one row's change from old to out adds to the totals of owner. *)
Delta(old, out, owner) ==
  LET Share(r, k) == IF r.referrer = owner /\ r.kind = k THEN referralContribution(r) ELSE [count |-> 0, minor |-> 0]
  IN [k \in Kinds |-> [count |-> Share(out, k).count - Share(old, k).count,
                       minor |-> Share(out, k).minor - Share(old, k).minor]]
ApplyReferralDelta(row, d) ==
  [row EXCEPT !.totals = [k \in Kinds |-> [count |-> @[k].count + d[k].count, minor |-> @[k].minor + d[k].minor]]]

DeferInPlace(row) == [row EXCEPT !.rules = 1]  \* mutant
DeferProjection(row) ==
  [row EXCEPT !.failures = @ + 1, !.rules = 1, !.next = clock + Min({2 ^ row.failures, FailCap})]

(***************************************************************************)
(* The facts a transaction sees: what is committed, and its own.           *)
(***************************************************************************)
GiftHistory(t, d) ==
  {g \in arrived : g.donor = d} \cup IF tx[t].fact.kind = "gift" /\ tx[t].donor = d THEN {tx[t].fact.gift} ELSE {}
RefundHistory(t) ==
  IF tx[t].fact.kind = "refund" THEN (refunded \ {tx[t].fact.gift}) \cup ({tx[t].fact.gift} \ refunded) ELSE refunded
Marks(t) == IF tx[t].fact.kind = "card" THEN [marks EXCEPT ![tx[t].fact.donor] = @ \cup {tx[t].fact.card}] ELSE marks
SharedSignalDonors(m, d) == {o \in Donors \ {d} : m[o] \cap m[d] # {}}

Earliest(S) == CHOOSE g \in S : \A h \in S : g.paid <= h.paid
withholdSharedReferrals(t, d, g) == IF g.referrer \in SharedSignalDonors(Marks(t), d) THEN NoOne ELSE g.referrer

(* Relationships: the first gift by paid time decides, whichever arrived first. *)
projectConversion(t, d) == LET S == GiftHistory(t, d) IN IF S = {} THEN NoGift ELSE Earliest(S)
netMinor(t, d) == Cardinality(GiftHistory(t, d) \ RefundHistory(t))

loadHistory(t, d, row) ==
  LET first == projectConversion(t, d) IN
  [row EXCEPT !.first = first, !.net = netMinor(t, d), !.rules = 1, !.failures = 0, !.next = clock + Cap,
     !.referrer = withholdSharedReferrals(t, d, first), !.kind = first.kind]

(***************************************************************************)
(* Transactions that record a fact: a gift, a refund or its failure, or a  *)
(* card or installation the donor used.                                    *)
(***************************************************************************)
Idle(t) == tx[t].pc = "idle"
Still == UNCHANGED <<clock, deaths, arrived, refunded, marks>>
Begin(t, d, fact) ==
  /\ Idle(t) /\ DonorFree(t, d)
  /\ tx' = [tx EXCEPT ![t] = [NoTx EXCEPT !.pc = IF fact.kind = "card" THEN "schedule" ELSE "project",
                                !.donor = d, !.donors = {d}, !.fact = fact]]
  /\ Still /\ UNCHANGED proj

RecordGift(t, g) == g \notin arrived /\ Begin(t, g.donor, [kind |-> "gift", gift |-> g])
RecordRefund(t, g) ==
  /\ g \in arrived /\ Cardinality(refunded) < MaxRefunds
  /\ Begin(t, g.donor, [kind |-> "refund", gift |-> g])
NewMark(t, d, c, device) ==
  /\ c \notin marks[d] /\ MapThenSumSet(LAMBDA e : Cardinality(marks[e]), Donors) < MaxMarks
  /\ Begin(t, d, [kind |-> "card", donor |-> d, card |-> c, device |-> device])
recordCard(t, d, c) == NewMark(t, d, c, FALSE)
recordDevice(t, d, c) == NewMark(t, d, c, TRUE)  \* projects nothing itself

(* The rows are those whose committed referrer the donor is. *)
ScheduleReferralRecheck(t) ==
  LET d == tx[t].donor
      rows == {e \in Donors : proj[e].seeded /\ (e = d \/ proj[e].referrer = d) /\ proj[e].next > clock} IN
  /\ tx[t].pc = "schedule" /\ \A e \in rows : RowFree(t, e)
  /\ tx' = [tx EXCEPT ![t].pc = IF tx[t].fact.device THEN "commit" ELSE "project", ![t].rows = rows,
              ![t].local = [e \in rows |-> [proj[e] EXCEPT !.next = clock]]]
  /\ Still /\ UNCHANGED proj

(***************************************************************************)
(* The projection worker: the donors due soonest, else those computed      *)
(* under earlier rules; a locked donor is skipped.                         *)
(***************************************************************************)
DueProjectionDonors(t) == {d \in Donors : proj[d].seeded /\ proj[d].next <= clock /\ DonorFree(t, d)}
OutdatedProjectionDonors(t) == {d \in Donors : proj[d].seeded /\ proj[d].rules < 1 /\ DonorFree(t, d)}
Soonest(S) == {Q \in SUBSET S : /\ Cardinality(Q) = Min({Batch, Cardinality(S)})
                                /\ \A d \in Q, e \in S \ Q : proj[d].next <= proj[e].next}
RefreshDueProjections(t) ==
  LET due == DueProjectionDonors(t) claim == IF due # {} THEN due ELSE OutdatedProjectionDonors(t) IN
  /\ Idle(t) /\ claim # {}
  /\ \E Q \in Soonest(claim) : \E d \in Q :
       tx' = [tx EXCEPT ![t] = [NoTx EXCEPT !.pc = "project", !.donor = d, !.donors = Q, !.queue = Q \ {d}]]
  /\ Still /\ UNCHANGED proj

(* projectFacts: the projection row is locked before anything is read. *)
Unlocked(t, d) == TRUE  \* mutant
LockProjection(t, d) == RowFree(t, d)
projectFacts(t) ==
  LET d == tx[t].donor row == SeedProjection(Row(t, d)) IN
  /\ tx[t].pc = "project" /\ d \notin Poison /\ LockProjection(t, d)
  /\ tx' = [tx EXCEPT ![t].pc = "totals", ![t].old = row, ![t].out = loadHistory(t, d, row),
              ![t].rows = @ \cup {d}, ![t].local = Write(t, d, row)]
  /\ Still /\ UNCHANGED proj

(* A donor whose facts fail: the worker records the failure and goes on,   *)
(* an event is undone and retried.                                         *)
Goes(t) ==  \* the next donor of the batch, or the commit
  IF tx[t].queue = {} THEN [pc |-> "commit", donor |-> tx[t].donor, queue |-> {}]
  ELSE LET d == CHOOSE e \in tx[t].queue : TRUE IN [pc |-> "project", donor |-> d, queue |-> tx[t].queue \ {d}]
projectionFailure(t) ==
  LET d == tx[t].donor IN
  /\ tx[t].pc = "project" /\ d \in Poison
  /\ \/ /\ tx[t].fact.kind = "none" /\ RowFree(t, d)
        /\ tx' = [tx EXCEPT ![t].pc = Goes(t).pc, ![t].donor = Goes(t).donor, ![t].queue = Goes(t).queue,
                    ![t].rows = @ \cup {d}, ![t].local = Write(t, d, DeferProjection(Row(t, d)))]
     \/ tx[t].fact.kind # "none" /\ tx' = [tx EXCEPT ![t] = NoTx]
  /\ Still /\ UNCHANGED proj

recomputeReferredTotals(t) ==
  LET d == tx[t].donor rows == [e \in Donors |-> Row(t, e)]
      out == [tx[t].out EXCEPT !.totals = ReferralTotalsFromReferred(rows, d)] IN
  /\ tx[t].pc = "totals"
  /\ tx' = [tx EXCEPT ![t].pc = "delta", ![t].out = out,
              ![t].todo = {r \in {tx[t].old.referrer, out.referrer} \ {NoOne} : Delta(tx[t].old, out, r) # Zero}]
  /\ Still /\ UNCHANGED proj

(* Both referrers are changed in a fixed order; the row is the one the     *)
(* holder before left.                                                     *)
FirstOf(S) == CHOOSE d \in S : TRUE
applyReferralDelta(t) ==
  LET r == FirstOf(tx[t].todo) IN
  /\ tx[t].pc = "delta" /\ tx[t].todo # {} /\ RowFree(t, r)
  /\ tx' = [tx EXCEPT ![t].todo = @ \ {r}, ![t].rows = @ \cup {r},
              ![t].local = Write(t, r, ApplyReferralDelta(SeedProjection(Row(t, r)), Delta(tx[t].old, tx[t].out, r)))]
  /\ Still /\ UNCHANGED proj

SaveProjection(t) ==
  /\ tx[t].pc = "delta" /\ tx[t].todo = {}
  /\ tx' = [tx EXCEPT ![t].pc = Goes(t).pc, ![t].donor = Goes(t).donor, ![t].queue = Goes(t).queue,
              ![t].local = Write(t, tx[t].donor, tx[t].out)]
  /\ Still /\ UNCHANGED proj

Commit(t) ==
  /\ tx[t].pc = "commit"
  /\ proj' = [d \in Donors |-> Row(t, d)]
  /\ arrived' = IF tx[t].fact.kind = "gift" THEN arrived \cup {tx[t].fact.gift} ELSE arrived
  /\ refunded' = RefundHistory(t)
  /\ marks' = Marks(t)
  /\ tx' = [tx EXCEPT ![t] = NoTx]
  /\ UNCHANGED <<clock, deaths>>

(* The database ends one of two transactions that wait for each other; any *)
(* may die. Nothing of it stays.                                           *)
Wants(t) ==
  CASE tx[t].pc = "project" -> {tx[t].donor}
    [] tx[t].pc = "delta" -> IF tx[t].todo = {} THEN {} ELSE {FirstOf(tx[t].todo)}
    [] OTHER -> {}
Deadlocked(t) == \E u \in Txs \ {t} : Wants(t) \cap tx[u].rows # {} /\ Wants(u) \cap tx[t].rows # {}
Abort(t) ==
  /\ ~Idle(t)
  /\ \/ Deadlocked(t) /\ UNCHANGED deaths
     \/ ~Deadlocked(t) /\ deaths < MaxDeaths /\ deaths' = deaths + 1
  /\ tx' = [tx EXCEPT ![t] = NoTx]
  /\ UNCHANGED <<clock, arrived, refunded, marks, proj>>

Tick == clock < MaxTime /\ clock' = clock + 1 /\ UNCHANGED <<deaths, arrived, refunded, marks, proj, tx>>

Init ==
  /\ clock = 0 /\ deaths = 0 /\ arrived = {} /\ refunded = {}
  /\ marks = [d \in Donors |-> {}]
  /\ proj = [d \in Donors |-> IF d \in Begun THEN [NoRow EXCEPT !.seeded = TRUE, !.next = Cap] ELSE NoRow]
  /\ tx = [t \in Txs |-> NoTx]

Step(t) == projectFacts(t) \/ projectionFailure(t) \/ recomputeReferredTotals(t) \/ applyReferralDelta(t) \/ SaveProjection(t) \/ Commit(t)
Next ==
  \/ \E t \in Txs :
       \/ \E g \in Gifts : RecordGift(t, g) \/ RecordRefund(t, g)
       \/ \E d \in Donors, c \in Cards : recordCard(t, d, c) \/ recordDevice(t, d, c)
       \/ ScheduleReferralRecheck(t) \/ RefreshDueProjections(t) \/ Step(t) \/ Abort(t)
  \/ Tick

Spec == Init /\ [][Next]_vars

(***************************************************************************)
(* Properties.                                                             *)
(***************************************************************************)

\* Every row has its type; a row that was never computed has no referrer.
TypeOK ==
  /\ clock \in 0 .. MaxTime /\ deaths \in 0 .. MaxDeaths
  /\ refunded \subseteq arrived /\ arrived \subseteq Gifts
  /\ \A d \in Donors : proj[d].referrer # NoOne => proj[d].seeded /\ proj[d].first # NoGift

\* A referrer's totals are what the committed projections of the donors
\* referred to them add up to: no difference is lost or applied twice when a
\* referrer and the referred are projected at once, credit moves from one
\* referrer to another, or a transaction dies.
TotalsExact == \A d \in Donors : proj[d].totals = ReferralTotalsFromReferred(proj, d)

\* The gift that decides a donor's attribution is the first one paid of those
\* recorded, in whatever order the events arrived.
FirstByPaidTime ==
  \A d \in Donors \ Poison :
    LET S == {g \in arrived : g.donor = d} IN S # {} => proj[d].first = Earliest(S)

\* A change of the rules reaches every donor whose facts can be projected,
\* although another donor's facts fail every time.
Behind == {d \in Donors \ Poison : proj[d].seeded /\ proj[d].rules = 0}

\* Credit between donors who share a card or an installation is withdrawn now
\* rather than at the next scheduled refresh: it does not outlast the open
\* transactions and the projections that are due.
SharedWithheld ==
  (\A t \in Txs : Idle(t)) /\ (\A d \in Donors : proj[d].seeded => proj[d].next > clock) =>
    \A d \in Donors : proj[d].referrer # NoOne => proj[d].referrer \notin SharedSignalDonors(marks, d)
=============================================================================
