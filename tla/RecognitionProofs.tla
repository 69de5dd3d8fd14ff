------------------------- MODULE RecognitionProofs --------------------------
(***************************************************************************)
(* What TLAPS proves of Recognition, for any number of donors, addresses   *)
(* and transactions: whoever qualifies for a badge holds it or is due for  *)
(* a refresh, a revoked badge comes back by staff only, a claim is lost in *)
(* two ways only (no key, or an import and a sign-up that overlap), and    *)
(* where neither happens every claim makes its donor a Founding Donor.     *)
(***************************************************************************)
EXTENDS Recognition, TLAPS

Awarding == {"refresh", "fact", "delta"}
Joining == {"join", "move"}
Counting == {"signals", "rules", "earn"}
None(S) == S \cup {"none"}
Tx == [kind : {"none", "rules", "import"} \cup Awarding \cup Joining,
       pc : {"idle", "project", "schedule", "grant", "done"} \cup Counting,
       donor : None(Donors), email : None(Emails), key : BOOLEAN, rows : SUBSET Donors,
       founding : BOOLEAN, refs : {-1, 0, 1}, checkins : {0, 1}, rules : [Counted -> Nat \ {0}],
       signals : [Codes -> Int], todo : SUBSET Codes, made : SUBSET Codes, told : SUBSET Codes,
       granted : SUBSET Donors, late : BOOLEAN]
Badge == [held : BOOLEAN, by : Sources, revoked : BOOLEAN, first : Sources]
Projected == [founding : BOOLEAN, refs : 0 .. MaxRefs, due : BOOLEAN]

Shape ==
  /\ email \in [Donors -> Emails \cup {NoEmail, Elsewhere}]
  /\ claims \in SUBSET Emails /\ grants \in SUBSET Donors
  /\ proj \in [Donors -> Projected]
  /\ checkins \in [Donors -> 0 .. MaxCheckins]
  /\ rules \in [Counted -> Thresholds]
  /\ badge \in [Donors -> [Codes -> Badge]]
  /\ tx \in [Txs -> Tx]

BadgeOk(b) == (b.held <=> b.first # "nobody") /\ (b.revoked => b.held)

\* What a transaction r holds, by its kind.
TxOk(r) ==
  /\ r.kind = "none" => r.pc = "idle"
  /\ r.kind = "refresh" => r.pc \in {"project"} \cup Counting
  /\ r.kind \in {"fact", "delta"} => r.pc \in Counting
  /\ r.kind = "rules" => r.pc = "schedule" /\ r.rules \in [Counted -> Thresholds]
  /\ r.kind \in {"import"} \cup Joining => r.pc \in {"grant", "done"} /\ r.email \in Emails
  /\ r.kind \in Awarding \cup Joining => r.donor \in Donors
  /\ r.kind \in Awarding => Exists(r.donor)
  /\ r.rows = {r.donor} \/ r.kind \notin {"refresh", "delta"} \/ (r.kind = "refresh" /\ r.pc = "project")
  /\ r.rows = {} \/ r.kind \in {"delta", "rules"} \/ (r.kind = "refresh" /\ r.pc # "project")
  /\ r.refs # 0 => r.kind = "delta"
  /\ r.checkins # 0 => r.kind = "fact"
  /\ r.founding => r.kind = "refresh"
  /\ r.kind \notin Awarding \/ r.pc # "earn" => r.made = {}
  /\ r.kind = "delta" => proj[r.donor].refs + r.refs \in 0 .. MaxRefs
  /\ r.kind = "fact" => checkins[r.donor] + r.checkins \in 0 .. MaxCheckins
  /\ r.told \subseteq r.made
  /\ r.told # {} => r.donor \in Devices
  /\ \A c \in r.made : ~badge[r.donor][c].held

\* Two transactions hold nothing in common.
Apart(r, q) ==
  /\ r.rows \cap q.rows = {}
  /\ r.kind \in Locking /\ q.kind \in Locking => r.donor # q.donor
  /\ r.donor = q.donor => r.made \cap q.made = {}

\* The badges that transaction r has to see to: those its own facts may earn.
Owes(r) == IF r.kind = "refresh" THEN Codes ELSE IF r.kind = "fact" THEN {"SU"} ELSE {"REF"}
\* What its donor will have once it commits.
Will(r, c) ==
  IF c = "F" THEN IF proj[r.donor].founding \/ r.founding THEN 1 ELSE 0
  ELSE IF c = "REF" THEN proj[r.donor].refs + r.refs
  ELSE checkins[r.donor] + r.checkins
AwardOk(r) ==
  r.kind \in Awarding =>
    \A c \in Owes(r) :
      /\ r.pc = "rules" => r.signals[c] = Will(r, c)
      /\ r.pc = "earn" /\ ruleEarned(c, Will(r, c), rules) =>
           c \in r.todo \/ c \in r.made \/ badge[r.donor][c].held
           \/ (r.kind = "fact" /\ proj[r.donor].due)

\* A claim and the donor of its address meet in the import, in the donor's own
\* transaction, or are noted not to have.
ClaimOk(r) ==
  /\ r.kind = "import" /\ r.pc = "done" =>
       \A d \in Donors : email[d] = r.email => d \in r.granted \/ <<d, r.email>> \in unseen
  /\ r.kind \in Joining /\ r.pc = "done" /\ r.key /\ r.email \in claims => r.donor \in r.granted \/ r.late

Ok(r) == TxOk(r) /\ AwardOk(r) /\ ClaimOk(r)

\* A donor who does not exist has no facts.
NothingYet(d) == ~Exists(d) => ~proj[d].founding /\ proj[d].refs = 0 /\ checkins[d] = 0
PushOk == \A p \in pushes : p[1] \in Devices /\ p[2] \in Codes /\ badge[p[1]][p[2]].first = "AUTO"

RecognitionInv ==
  /\ Shape /\ PushOk
  /\ \A d \in Donors : NothingYet(d) /\ \A c \in Codes : BadgeOk(badge[d][c])
  /\ \A t \in Txs : Ok(tx[t])
  /\ \A t, u \in Txs : t # u => Apart(tx[t], tx[u])
  /\ SettledIsAwarded /\ ClaimsGranted

-----------------------------------------------------------------------------
\* A transaction that only reads, takes locks or opens goes on as r.
LEMMA TxStep ==
  ASSUME RecognitionInv, NEW t \in Txs, NEW r \in Tx, tx' = [tx EXCEPT ![t] = r], Ok(r),
         \A u \in Txs \ {t} : Apart(r, tx[u]),
         UNCHANGED <<email, claims, grants, proj, checkins, rules, badge, pushes, unseen>>
  PROVE  RecognitionInv'
<1>1. tx' \in [Txs -> Tx] /\ tx'[t] = r /\ \A u \in Txs \ {t} : tx'[u] = tx[u]
  BY DEF RecognitionInv, Shape
<1>2. Shape'
  BY <1>1 DEF RecognitionInv, Shape
<1>3. \A u \in Txs : Ok(tx'[u])
  BY <1>1 DEF RecognitionInv
<1>4. \A q : Ok(q) => Ok(q)'
  <2> SUFFICES ASSUME NEW q, Ok(q) PROVE Ok(q)'
    OBVIOUS
  <2>1. TxOk(q)' /\ ClaimOk(q)'
    BY DEF Ok, TxOk, ClaimOk, Exists
  <2>2. \A c \in Codes : Will(q, c)' = Will(q, c) /\ ruleEarned(c, Will(q, c), rules)' = ruleEarned(c, Will(q, c), rules)
    BY DEF Will, ruleEarned
  <2>3. AwardOk(q)'
    BY <2>2 DEF Ok, AwardOk, Owes, Codes
  <2> QED BY <2>1, <2>3 DEF Ok
<1>5. \A u \in Txs : Ok(tx[u])'
  BY <1>3, <1>4
<1>6. \A u, v \in Txs : u # v => Apart(tx[u], tx[v])'
  <2> SUFFICES ASSUME NEW u \in Txs, NEW v \in Txs, u # v PROVE Apart(tx'[u], tx'[v])
    BY DEF Apart
  <2>1. CASE u = t
    BY <1>1, <2>1
  <2>2. CASE v = t
    BY <1>1, <2>2 DEF Apart
  <2>3. CASE u # t /\ v # t
    BY <1>1, <2>3 DEF RecognitionInv
  <2> QED BY <2>1, <2>2, <2>3
<1>7. PushOk' /\ SettledIsAwarded' /\ ClaimsGranted'
  BY DEF RecognitionInv, PushOk, SettledIsAwarded, Qualifies, ClaimsGranted, Waits
<1>8. \A d \in Donors : NothingYet(d)' /\ \A c \in Codes : BadgeOk(badge[d][c])'
  BY DEF RecognitionInv, NothingYet, Exists, BadgeOk
<1> QED BY <1>2, <1>5, <1>6, <1>7, <1>8 DEF RecognitionInv

LEMMA IdleTyped ==
  ASSUME RecognitionAssumption
  PROVE  Idle \in Tx
BY DEF Idle, Tx, None, NoEmail


\* A transaction that has just opened as r.
Fresh(r) == r.refs = 0 /\ r.checkins = 0 /\ ~r.founding /\ r.made = {} /\ r.told = {} /\ r.rows = {}

LEMMA IdleIs == Fresh(Idle)
BY DEF Idle, Fresh

LEMMA BeginRefreshStep ==
  ASSUME RecognitionAssumption, RecognitionInv, NEW t \in Txs, NEW d \in Donors, BeginRefresh(t, d)
  PROVE  RecognitionInv'
<1>1. PICK i \in Tx : i = Idle
  BY IdleTyped
<1> DEFINE r == [i EXCEPT !.kind = "refresh", !.pc = "project", !.donor = d]
<1>2. r \in Tx
  BY DEF Tx, None, Awarding
<1>3. /\ r.kind = "refresh" /\ r.pc = "project" /\ r.donor = d /\ r.refs = i.refs /\ r.checkins = i.checkins
      /\ r.founding = i.founding /\ r.made = i.made /\ r.told = i.told /\ r.rows = i.rows
  BY DEF Tx
<1>4. tx' = [tx EXCEPT ![t] = r] /\ Exists(d) /\ DonorFree(d)
  BY <1>1 DEF BeginRefresh, Open
<1> HIDE DEF r
<1>5. Fresh(r)
  BY <1>1, <1>3, IdleIs DEF Fresh
<1>6. Ok(r)
  BY <1>3, <1>4, <1>5 DEF Fresh, Ok, TxOk, AwardOk, ClaimOk, Awarding, Joining
<1>7. \A u \in Txs \ {t} : Apart(r, tx[u])
  BY <1>3, <1>4, <1>5 DEF Fresh, Apart, DonorFree
<1> QED BY <1>2, <1>4, <1>6, <1>7, TxStep DEF BeginRefresh

LEMMA BeginFactStep ==
  ASSUME RecognitionAssumption, RecognitionInv, NEW t \in Txs, NEW d \in Donors, NEW n \in {0, 1}, BeginFact(t, d, n)
  PROVE  RecognitionInv'
<1>1. PICK i \in Tx : i = Idle
  BY IdleTyped
<1> DEFINE r == [i EXCEPT !.kind = "fact", !.pc = "signals", !.donor = d, !.checkins = n]
<1>2. r \in Tx
  BY DEF Tx, None, Awarding, Counting
<1>3. /\ r.kind = "fact" /\ r.pc = "signals" /\ r.donor = d /\ r.refs = i.refs /\ r.checkins = n
      /\ r.founding = i.founding /\ r.made = i.made /\ r.told = i.told /\ r.rows = i.rows
  BY DEF Tx
<1>4. tx' = [tx EXCEPT ![t] = r] /\ Exists(d) /\ DonorFree(d) /\ checkins[d] + n <= MaxCheckins
  BY <1>1 DEF BeginFact, Open
<1> HIDE DEF r
<1>5. r.refs = 0 /\ ~r.founding /\ r.made = {} /\ r.told = {} /\ r.rows = {}
  BY <1>1, <1>3, IdleIs DEF Fresh
<1>6. checkins[d] + n \in 0 .. MaxCheckins
  BY <1>4 DEF RecognitionInv, Shape, RecognitionAssumption
<1>7. Ok(r)
  BY <1>3, <1>4, <1>5, <1>6 DEF Ok, TxOk, AwardOk, ClaimOk, Awarding, Joining, Counting
<1>8. \A u \in Txs \ {t} : Apart(r, tx[u])
  BY <1>3, <1>4, <1>5 DEF Apart, DonorFree
<1> QED BY <1>2, <1>4, <1>7, <1>8, TxStep DEF BeginFact

LEMMA DeltaStep ==
  ASSUME RecognitionAssumption, RecognitionInv, NEW t \in Txs, NEW d \in Donors, NEW n \in {-1, 1},
         ApplyReferralDelta(t, d, n)
  PROVE  RecognitionInv'
<1>1. PICK i \in Tx : i = Idle
  BY IdleTyped
<1> DEFINE r == [i EXCEPT !.kind = "delta", !.pc = "signals", !.donor = d, !.rows = {d}, !.refs = n]
<1>2. r \in Tx
  BY DEF Tx, None, Awarding, Counting
<1>3. /\ r.kind = "delta" /\ r.pc = "signals" /\ r.donor = d /\ r.refs = n /\ r.checkins = i.checkins
      /\ r.founding = i.founding /\ r.made = i.made /\ r.told = i.told /\ r.rows = {d}
  BY DEF Tx
<1>4. tx' = [tx EXCEPT ![t] = r] /\ Exists(d) /\ RowFree(t, d) /\ proj[d].refs + n \in 0 .. MaxRefs
  BY <1>1 DEF ApplyReferralDelta, Open
<1> HIDE DEF r
<1>5. r.checkins = 0 /\ ~r.founding /\ r.made = {} /\ r.told = {}
  BY <1>1, <1>3, IdleIs DEF Fresh
<1>6. Ok(r)
  BY <1>3, <1>4, <1>5 DEF Ok, TxOk, AwardOk, ClaimOk, Awarding, Joining, Counting
<1>7. \A u \in Txs \ {t} : Apart(r, tx[u])
  BY <1>3, <1>4, <1>5 DEF Apart, RowFree, Locking
<1> QED BY <1>2, <1>4, <1>6, <1>7, TxStep DEF ApplyReferralDelta

LEMMA SetRulesStep ==
  ASSUME RecognitionAssumption, RecognitionInv, NEW t \in Txs, NEW f \in [Counted -> Thresholds], SetRules(t, f)
  PROVE  RecognitionInv'
<1>1. PICK i \in Tx : i = Idle
  BY IdleTyped
<1> DEFINE r == [i EXCEPT !.kind = "rules", !.pc = "schedule", !.rules = f]
<1>2. r \in Tx
  <2>1. f \in [Counted -> Nat \ {0}]
    BY DEF RecognitionAssumption
  <2> QED BY <2>1 DEF Tx
<1>3. /\ r.kind = "rules" /\ r.pc = "schedule" /\ r.rules = f /\ r.refs = i.refs /\ r.checkins = i.checkins
      /\ r.founding = i.founding /\ r.made = i.made /\ r.told = i.told /\ r.rows = i.rows
  BY DEF Tx
<1>4. tx' = [tx EXCEPT ![t] = r]
  BY <1>1 DEF SetRules, Open
<1> HIDE DEF r
<1>5. Fresh(r)
  BY <1>1, <1>3, IdleIs DEF Fresh
<1>6. Ok(r)
  BY <1>3, <1>5 DEF Fresh, Ok, TxOk, AwardOk, ClaimOk, Awarding, Joining
<1>7. \A u \in Txs \ {t} : Apart(r, tx[u])
  BY <1>3, <1>5 DEF Fresh, Apart, Locking
<1> QED BY <1>2, <1>4, <1>6, <1>7, TxStep DEF SetRules

LEMMA ImportStep ==
  ASSUME RecognitionAssumption, RecognitionInv, NEW t \in Txs, NEW e \in Emails, ImportFoundingClaims(t, e)
  PROVE  RecognitionInv'
<1>1. PICK i \in Tx : i = Idle
  BY IdleTyped
<1> DEFINE r == [i EXCEPT !.kind = "import", !.pc = "grant", !.email = e]
<1>2. r \in Tx
  BY DEF Tx, None
<1>3. /\ r.kind = "import" /\ r.pc = "grant" /\ r.email = e /\ r.refs = i.refs /\ r.checkins = i.checkins
      /\ r.founding = i.founding /\ r.made = i.made /\ r.told = i.told /\ r.rows = i.rows
  BY DEF Tx
<1>4. tx' = [tx EXCEPT ![t] = r]
  BY <1>1 DEF ImportFoundingClaims, Open
<1> HIDE DEF r
<1>5. Fresh(r)
  BY <1>1, <1>3, IdleIs DEF Fresh
<1>6. Ok(r)
  BY <1>3, <1>5 DEF Fresh, Ok, TxOk, AwardOk, ClaimOk, Awarding, Joining
<1>7. \A u \in Txs \ {t} : Apart(r, tx[u])
  BY <1>3, <1>5 DEF Fresh, Apart, Locking
<1> QED BY <1>2, <1>4, <1>6, <1>7, TxStep DEF ImportFoundingClaims

\* A donor comes to an address, by signing up or by changing theirs.
LEMMA ComesStep ==
  ASSUME RecognitionAssumption, RecognitionInv, NEW t \in Txs, NEW d \in Donors, NEW e \in Emails,
         NEW key \in BOOLEAN, NEW k \in Joining, DonorFree(d),
         Open(t, [Idle EXCEPT !.kind = k, !.pc = "grant", !.donor = d, !.email = e, !.key = key]),
         UNCHANGED <<email, claims, grants, proj, checkins, rules, badge, pushes, unseen>>
  PROVE  RecognitionInv'
<1>1. PICK i \in Tx : i = Idle
  BY IdleTyped
<1> DEFINE r == [i EXCEPT !.kind = k, !.pc = "grant", !.donor = d, !.email = e, !.key = key]
<1>2. r \in Tx
  BY DEF Tx, None
<1>3. /\ r.kind = k /\ r.pc = "grant" /\ r.donor = d /\ r.email = e /\ r.refs = i.refs /\ r.checkins = i.checkins
      /\ r.founding = i.founding /\ r.made = i.made /\ r.told = i.told /\ r.rows = i.rows
  BY DEF Tx
<1>4. tx' = [tx EXCEPT ![t] = r]
  BY <1>1 DEF Open
<1> HIDE DEF r
<1>5. Fresh(r)
  BY <1>1, <1>3, IdleIs DEF Fresh
<1>6. Ok(r)
  BY <1>3, <1>5 DEF Fresh, Ok, TxOk, AwardOk, ClaimOk, Awarding, Joining
<1>7. \A u \in Txs \ {t} : Apart(r, tx[u])
  BY <1>3, <1>5 DEF Fresh, Apart, DonorFree
<1> QED BY <1>2, <1>4, <1>6, <1>7, TxStep

LEMMA ArrivalStep ==
  ASSUME RecognitionAssumption, RecognitionInv, NEW t \in Txs, NEW d \in Donors, NEW e \in Emails,
         completeEmailChange(t, d, e) \/ \E key \in Keys : lockGuest(t, d, e, key)
  PROVE  RecognitionInv'
<1>1. CASE completeEmailChange(t, d, e)
  BY <1>1, ComesStep DEF completeEmailChange, Joining
<1>2. ASSUME NEW key \in Keys, lockGuest(t, d, e, key) PROVE RecognitionInv'
  <2>1. key \in BOOLEAN
    BY DEF RecognitionAssumption
  <2> QED BY <1>2, <2>1, ComesStep DEF lockGuest, Joining
<1> QED BY <1>1, <1>2

-----------------------------------------------------------------------------
\* A transaction goes on without committing.
LEMMA ProjectStep ==
  ASSUME RecognitionInv, NEW t \in Txs, projectFacts(t)
  PROVE  RecognitionInv'
<1>1. PICK q \in Tx : q = tx[t]
  BY DEF RecognitionInv, Shape
<1>2. Ok(q) /\ q.pc = "project" /\ RowFree(t, q.donor)
  BY <1>1 DEF RecognitionInv, projectFacts
<1>3. q.kind = "refresh" /\ q.donor \in Donors
  BY <1>2 DEF Ok, TxOk, Awarding, Joining, Counting, Tx
<1> PICK f \in BOOLEAN : f = (proj[q.donor].founding \/ FoundingClaimed(q.donor))
  OBVIOUS
<1> DEFINE r == [q EXCEPT !.pc = "signals", !.rows = {q.donor}, !.founding = f]
<1>4. r \in Tx
  BY <1>3 DEF Tx, Counting
<1>5. /\ r.kind = "refresh" /\ r.pc = "signals" /\ r.donor = q.donor /\ r.rows = {q.donor} /\ r.refs = q.refs
      /\ r.checkins = q.checkins /\ r.made = q.made /\ r.told = q.told
  BY <1>3 DEF Tx
<1>6. tx' = [tx EXCEPT ![t] = r]
  BY <1>1 DEF projectFacts, Set
<1> HIDE DEF r
<1>7. Ok(r)
  BY <1>2, <1>3, <1>5 DEF Ok, TxOk, AwardOk, ClaimOk, Awarding, Joining, Counting
<1>8. \A u \in Txs \ {t} : Apart(r, tx[u])
  BY <1>1, <1>2, <1>3, <1>5 DEF RecognitionInv, Apart, RowFree, Locking
<1> QED BY <1>4, <1>6, <1>7, <1>8, TxStep DEF projectFacts

LEMMA SignalsStep ==
  ASSUME RecognitionAssumption, RecognitionInv, NEW t \in Txs, signalsFor(t)
  PROVE  RecognitionInv'
<1>1. PICK q \in Tx : q = tx[t]
  BY DEF RecognitionInv, Shape
<1>2. Ok(q) /\ q.pc = "signals"
  BY <1>1 DEF RecognitionInv, signalsFor
<1>3. q.kind \in Awarding /\ q.donor \in Donors
  BY <1>2 DEF Ok, TxOk, Awarding, Joining, Counting, Tx
<1>4. proj[q.donor] \in Projected /\ checkins[q.donor] \in Nat
  BY <1>3 DEF RecognitionInv, Shape, RecognitionAssumption
<1>5. PICK g : g = Signals(t)
  OBVIOUS
<1>6. g \in [Codes -> Int]
  BY <1>1, <1>4, <1>5 DEF Signals, Codes, Projected, Tx
<1>7. \A c \in Owes(q) : g[c] = Will(q, c)
  <2> TAKE c \in Owes(q)
  <2>1. c \in Codes /\ (q.kind = "fact" => c = "SU") /\ (q.kind = "delta" => c = "REF")
    BY DEF Owes, Codes
  <2>2. g[c] = CASE c = "F" -> IF q.kind # "delta" /\ (proj[q.donor].founding \/ q.founding) THEN 1 ELSE 0
                 [] c = "REF" -> proj[q.donor].refs + q.refs
                 [] c = "SU" -> IF q.kind = "delta" THEN 0 ELSE checkins[q.donor] + q.checkins
    BY <1>1, <1>5, <2>1 DEF Signals
  <2>3. CASE c = "F"
    BY <1>3, <2>1, <2>2, <2>3 DEF Will, Awarding
  <2>4. CASE c = "REF"
    BY <2>2, <2>4 DEF Will
  <2>5. CASE c = "SU"
    BY <1>3, <2>1, <2>2, <2>5 DEF Will, Awarding
  <2> QED BY <2>1, <2>3, <2>4, <2>5 DEF Codes
<1> DEFINE r == [q EXCEPT !.pc = "rules", !.signals = g]
<1>8. r \in Tx
  BY <1>6 DEF Tx, Counting
<1>9. /\ r.kind = q.kind /\ r.pc = "rules" /\ r.donor = q.donor /\ r.rows = q.rows /\ r.refs = q.refs
      /\ r.checkins = q.checkins /\ r.founding = q.founding /\ r.made = q.made /\ r.told = q.told /\ r.signals = g
  BY <1>6 DEF Tx
<1>10. tx' = [tx EXCEPT ![t] = r]
  BY <1>1, <1>5 DEF signalsFor, Set
<1> HIDE DEF r
<1>11. Owes(r) = Owes(q) /\ \A c : Will(r, c) = Will(q, c)
  BY <1>9 DEF Owes, Will
<1>12. AwardOk(r)
  BY <1>7, <1>9, <1>11 DEF AwardOk
<1>13. TxOk(r) /\ ClaimOk(r)
  BY <1>2, <1>3, <1>9 DEF Ok, TxOk, ClaimOk, Awarding, Joining, Counting
<1>14. \A u \in Txs \ {t} : Apart(r, tx[u])
  BY <1>1, <1>9 DEF RecognitionInv, Apart
<1> QED BY <1>8, <1>10, <1>12, <1>13, <1>14, TxStep DEF signalsFor, Ok

LEMMA RulesReadStep ==
  ASSUME RecognitionInv, NEW t \in Txs, recognitionRules(t)
  PROVE  RecognitionInv'
<1>1. PICK q \in Tx : q = tx[t]
  BY DEF RecognitionInv, Shape
<1>2. Ok(q) /\ q.pc = "rules"
  BY <1>1 DEF RecognitionInv, recognitionRules
<1>3. q.kind \in Awarding
  BY <1>2 DEF Ok, TxOk, Awarding, Joining, Counting, Tx
<1>4. PICK T \in SUBSET Codes : T = {c \in Codes : ruleEarned(c, q.signals[c], rules)}
  OBVIOUS
<1> DEFINE r == [q EXCEPT !.pc = "earn", !.todo = T]
<1>5. r \in Tx
  BY DEF Tx, Counting
<1>6. /\ r.kind = q.kind /\ r.pc = "earn" /\ r.donor = q.donor /\ r.rows = q.rows /\ r.refs = q.refs
      /\ r.checkins = q.checkins /\ r.founding = q.founding /\ r.made = q.made /\ r.told = q.told /\ r.todo = T
  BY DEF Tx
<1>7. tx' = [tx EXCEPT ![t] = r]
  BY <1>1, <1>4 DEF recognitionRules, Set
<1> HIDE DEF r
<1>8. Owes(r) = Owes(q) /\ \A c : Will(r, c) = Will(q, c)
  BY <1>6 DEF Owes, Will
<1>9. AwardOk(r)
  <2>1. \A c \in Owes(q) : c \in Codes /\ q.signals[c] = Will(q, c)
    BY <1>2, <1>3 DEF Ok, AwardOk, Owes, Codes
  <2> QED BY <1>4, <1>6, <1>8, <2>1 DEF AwardOk
<1>10. TxOk(r) /\ ClaimOk(r)
  BY <1>2, <1>3, <1>6 DEF Ok, TxOk, ClaimOk, Awarding, Joining, Counting
<1>11. \A u \in Txs \ {t} : Apart(r, tx[u])
  BY <1>1, <1>6 DEF RecognitionInv, Apart
<1> QED BY <1>5, <1>7, <1>9, <1>10, <1>11, TxStep DEF recognitionRules, Ok

\* Whoever has the badge is left as they are: the others are noted, and told.
LEMMA EarnsIfNew ==
  ASSUME NEW b \in Badge
  PROVE  EarnBadge(b) = b <=> b.held
BY DEF Badge, Sources, EarnBadge

LEMMA EarnStep ==
  ASSUME RecognitionInv, NEW t \in Txs, NEW c \in Codes, earnBadge(t, c)
  PROVE  RecognitionInv'
<1>1. PICK q \in Tx : q = tx[t]
  BY DEF RecognitionInv, Shape
<1>2. Ok(q) /\ q.pc = "earn" /\ c \in q.todo /\ BadgeFree(t, q.donor, c)
  BY <1>1 DEF RecognitionInv, earnBadge
<1>3. q.kind \in Awarding /\ q.donor \in Donors
  BY <1>2 DEF Ok, TxOk, Awarding, Joining, Counting, Tx
<1>4. PICK b \in Badge : b = badge[q.donor][c]
  BY <1>3 DEF RecognitionInv, Shape
<1>5. PICK M \in SUBSET Codes : M = IF EarnBadge(b) = b THEN {} ELSE {c}
  BY DEF Codes
<1>6. PICK N \in SUBSET Codes : N = IF IsNew(b) /\ q.donor \in Devices THEN {c} ELSE {}
  BY DEF Codes
<1>7. (b.held <=> M = {}) /\ N \subseteq M /\ M \subseteq {c} /\ (N # {} => q.donor \in Devices)
  BY <1>5, <1>6, EarnsIfNew DEF IsNew
<1> DEFINE r == [q EXCEPT !.todo = q.todo \ {c}, !.made = q.made \cup M, !.told = q.told \cup N]
<1>8. r \in Tx
  BY DEF Tx
<1>9. /\ r.kind = q.kind /\ r.pc = "earn" /\ r.donor = q.donor /\ r.rows = q.rows /\ r.refs = q.refs
      /\ r.checkins = q.checkins /\ r.founding = q.founding
      /\ r.made = q.made \cup M /\ r.told = q.told \cup N /\ r.todo = q.todo \ {c}
  BY <1>2 DEF Tx
<1>10. tx' = [tx EXCEPT ![t] = r]
  BY <1>1, <1>4, <1>5, <1>6 DEF earnBadge, Set
<1> HIDE DEF r
<1>11. Owes(r) = Owes(q) /\ \A x : Will(r, x) = Will(q, x)
  BY <1>9 DEF Owes, Will
<1>12. AwardOk(r)
  <2> SUFFICES ASSUME NEW x \in Owes(q), ruleEarned(x, Will(q, x), rules)
               PROVE  x \in r.todo \/ x \in r.made \/ badge[q.donor][x].held
                      \/ (q.kind = "fact" /\ proj[q.donor].due)
    BY <1>9, <1>11 DEF AwardOk
  <2>1. x \in q.todo \/ x \in q.made \/ badge[q.donor][x].held \/ (q.kind = "fact" /\ proj[q.donor].due)
    BY <1>2, <1>3 DEF Ok, AwardOk
  <2>2. x = c => x \in M \/ badge[q.donor][x].held
    BY <1>4, <1>7
  <2> QED BY <1>9, <2>1, <2>2
<1>13. \A x \in r.made : ~badge[r.donor][x].held
  BY <1>2, <1>4, <1>7, <1>9 DEF Ok, TxOk
<1>14. r.told \subseteq r.made /\ (r.told # {} => r.donor \in Devices)
  BY <1>2, <1>7, <1>9 DEF Ok, TxOk
<1>15. TxOk(r) /\ ClaimOk(r)
  BY <1>2, <1>3, <1>9, <1>13, <1>14 DEF Ok, TxOk, ClaimOk, Awarding, Joining
<1>16. \A u \in Txs \ {t} : Apart(r, tx[u])
  <2> TAKE u \in Txs \ {t}
  <2>1. Apart(q, tx[u])
    BY <1>1 DEF RecognitionInv
  <2>2. tx[u].donor = q.donor => c \notin tx[u].made
    BY <1>2 DEF BadgeFree
  <2> QED BY <1>7, <1>9, <2>1, <2>2 DEF Apart
<1> QED BY <1>8, <1>10, <1>12, <1>15, <1>16, TxStep DEF earnBadge, Ok

LEMMA ScheduleStep ==
  ASSUME RecognitionInv, NEW t \in Txs, NEW d \in Donors, RefreshRecognitionSchedule(t, d)
  PROVE  RecognitionInv'
<1>1. PICK q \in Tx : q = tx[t]
  BY DEF RecognitionInv, Shape
<1>2. Ok(q) /\ q.pc = "schedule" /\ RowFree(t, d)
  BY <1>1 DEF RecognitionInv, RefreshRecognitionSchedule
<1>3. q.kind = "rules"
  BY <1>2 DEF Ok, TxOk, Awarding, Joining, Counting, Tx
<1> DEFINE r == [q EXCEPT !.rows = q.rows \cup {d}]
<1>4. r \in Tx
  BY DEF Tx
<1>5. /\ r.kind = "rules" /\ r.pc = "schedule" /\ r.donor = q.donor /\ r.rows = q.rows \cup {d} /\ r.refs = q.refs
      /\ r.checkins = q.checkins /\ r.founding = q.founding /\ r.made = q.made /\ r.told = q.told /\ r.rules = q.rules
  BY <1>2, <1>3 DEF Tx
<1>6. tx' = [tx EXCEPT ![t] = r]
  BY <1>1 DEF RefreshRecognitionSchedule, Set
<1> HIDE DEF r
<1>7. Ok(r)
  BY <1>2, <1>3, <1>5 DEF Ok, TxOk, AwardOk, ClaimOk, Awarding, Joining
<1>8. \A u \in Txs \ {t} : Apart(r, tx[u])
  BY <1>1, <1>2, <1>3, <1>5 DEF RecognitionInv, Apart, RowFree
<1> QED BY <1>4, <1>6, <1>7, <1>8, TxStep DEF RefreshRecognitionSchedule

\* An import, or a donor's own transaction, has looked for the other.
LEMMA LookStep ==
  ASSUME RecognitionInv, NEW t \in Txs, ImportGrants(t) \/ ClaimGrant(t)
  PROVE  RecognitionInv'
<1>1. PICK q \in Tx : q = tx[t]
  BY DEF RecognitionInv, Shape
<1>2. Ok(q) /\ q.kind \in {"import"} \cup Joining /\ q.pc = "grant"
  BY <1>1 DEF RecognitionInv, ImportGrants, ClaimGrant, Joining
<1>3. PICK G \in SUBSET Donors :
        /\ tx' = [tx EXCEPT ![t] = [q EXCEPT !.pc = "done", !.granted = G]]
        /\ q.kind = "import" => G = Holder(q.email)
        /\ q.kind \in Joining => G = IF q.key /\ q.email \in claims THEN {q.donor} ELSE {}
  <2>1. CASE ImportGrants(t)
    <3>1. Holder(q.email) \in SUBSET Donors
      BY DEF Holder
    <3> QED BY <1>1, <2>1, <3>1 DEF ImportGrants, Set, GrantFoundingClaimsByEmail, Joining
  <2>2. CASE ClaimGrant(t)
    <3>1. q.donor \in Donors
      BY <1>1, <1>2, <2>2 DEF Ok, TxOk, ClaimGrant, Joining
    <3>2. PICK G \in SUBSET Donors : G = IF q.key /\ q.email \in claims THEN {q.donor} ELSE {}
      BY <3>1
    <3>3. q.kind # "import" /\ G = GrantFoundingClaim(t)
      BY <1>1, <2>2, <3>2 DEF ClaimGrant, GrantFoundingClaim
    <3>4. tx' = [tx EXCEPT ![t] = [q EXCEPT !.pc = "done", !.granted = G]]
      BY <1>1, <2>2, <3>3 DEF ClaimGrant, Set
    <3> QED BY <3>2, <3>3, <3>4
  <2> QED BY <2>1, <2>2
<1> DEFINE r == [q EXCEPT !.pc = "done", !.granted = G]
<1>4. r \in Tx
  BY DEF Tx
<1>5. /\ r.kind = q.kind /\ r.pc = "done" /\ r.donor = q.donor /\ r.rows = q.rows /\ r.refs = q.refs
      /\ r.checkins = q.checkins /\ r.founding = q.founding /\ r.made = q.made /\ r.told = q.told
      /\ r.email = q.email /\ r.key = q.key /\ r.granted = G
  BY DEF Tx
<1>6. tx' = [tx EXCEPT ![t] = r]
  BY <1>3
<1> HIDE DEF r
<1>7. ClaimOk(r)
  BY <1>2, <1>3, <1>5 DEF ClaimOk, Holder
<1>8. TxOk(r) /\ AwardOk(r)
  BY <1>2, <1>5 DEF Ok, TxOk, AwardOk, Awarding, Joining
<1>9. \A u \in Txs \ {t} : Apart(r, tx[u])
  BY <1>1, <1>5 DEF RecognitionInv, Apart
<1> QED BY <1>4, <1>6, <1>7, <1>8, <1>9, TxStep DEF ImportGrants, ClaimGrant, Ok

-----------------------------------------------------------------------------
\* What is left alone by whoever else commits.
LEMMA IdleOk ==
  /\ Ok(Idle) /\ Idle.made = {} /\ Idle.rows = {} /\ Idle.kind = "none"
BY DEF Idle, Ok, TxOk, AwardOk, ClaimOk, Awarding, Joining

LEMMA ApartFromIdle == ASSUME NEW q PROVE Apart(Idle, q) /\ Apart(q, Idle)
BY IdleOk DEF Apart, Locking

\* One transaction commits, and the others keep what they hold.
LEMMA CommitKeeps ==
  ASSUME RecognitionAssumption, RecognitionInv, NEW t \in Txs, tx' = [tx EXCEPT ![t] = Idle],
         \A u \in Txs \ {t} : Ok(tx[u])'
  PROVE  /\ tx' \in [Txs -> Tx] /\ \A u \in Txs : Ok(tx[u])'
         /\ \A u, v \in Txs : u # v => Apart(tx[u], tx[v])'
<1>1. tx' \in [Txs -> Tx] /\ tx'[t] = Idle /\ \A u \in Txs \ {t} : tx'[u] = tx[u]
  BY IdleTyped DEF RecognitionInv, Shape
<1>2. \A u \in Txs : Ok(tx[u])'
  <2>1. Ok(Idle)'
    BY DEF Idle, Ok, TxOk, AwardOk, ClaimOk, Awarding, Joining
  <2>2. Ok(tx[t])'
    BY <1>1, <2>1 DEF Ok, TxOk, AwardOk, ClaimOk, Idle, Awarding, Joining
  <2> QED BY <2>2
<1>3. \A u, v \in Txs : u # v => Apart(tx[u], tx[v])'
  <2> SUFFICES ASSUME NEW u \in Txs, NEW v \in Txs, u # v PROVE Apart(tx'[u], tx'[v])
    BY DEF Apart
  <2>1. CASE u = t \/ v = t
    BY <1>1, <2>1, ApartFromIdle
  <2>2. CASE u # t /\ v # t
    BY <1>1, <2>2 DEF RecognitionInv
  <2> QED BY <2>1, <2>2
<1> QED BY <1>1, <1>2, <1>3

\* The facts of another donor, or others than those a transaction depends on,
\* change: it keeps what it holds.
LEMMA Undisturbed ==
  ASSUME RecognitionInv, NEW q \in Tx, Ok(q),
         \A d \in Donors : Exists(d) => Exists(d)',
         q.kind \in Awarding /\ proj[q.donor].due => proj'[q.donor].due,
         q.kind \in Awarding /\ q.pc # "project" => \A c \in Owes(q) : Will(q, c)' = Will(q, c),
         \/ rules' = rules
         \/ q.kind \in Awarding => q.pc = "project" \/ (q.kind = "fact" /\ proj'[q.donor].due),
         q.kind = "delta" => proj'[q.donor].refs = proj[q.donor].refs,
         q.kind = "fact" => checkins'[q.donor] = checkins[q.donor],
         q.kind \in Awarding => \A c \in Codes :
           /\ badge[q.donor][c].held => badge'[q.donor][c].held
           /\ c \in q.made => badge'[q.donor][c].held = badge[q.donor][c].held,
         ClaimOk(q)'
  PROVE  Ok(q)'
<1>1. TxOk(q)'
  <2>1. q.kind \in Awarding => Exists(q.donor)' /\ q.donor \in Donors
    BY DEF Ok, TxOk
  <2>2. \A c \in q.made : ~badge'[q.donor][c].held
    <3> TAKE c \in q.made
    <3>1. q.kind \in Awarding /\ c \in Codes /\ ~badge[q.donor][c].held
      BY DEF Ok, TxOk, Tx
    <3> QED BY <3>1
  <2>3. q.kind = "delta" => (proj[q.donor].refs + q.refs \in 0 .. MaxRefs)'
    BY DEF Ok, TxOk
  <2>4. q.kind = "fact" => (checkins[q.donor] + q.checkins \in 0 .. MaxCheckins)'
    BY DEF Ok, TxOk
  <2> QED BY <2>1, <2>2, <2>3, <2>4 DEF Ok, TxOk
<1>2. AwardOk(q)'
  <2> SUFFICES ASSUME q.kind \in Awarding, NEW c \in Owes(q)
               PROVE  /\ q.pc = "rules" => q.signals[c] = Will(q, c)'
                      /\ q.pc = "earn" /\ ruleEarned(c, Will(q, c)', rules') =>
                           c \in q.todo \/ c \in q.made \/ badge'[q.donor][c].held
                           \/ (q.kind = "fact" /\ proj'[q.donor].due)
    BY DEF AwardOk, ruleEarned, Owes
  <2>1. c \in Codes
    BY DEF Owes, Codes
  <2> QED BY <2>1 DEF Ok, AwardOk
<1> QED BY <1>1, <1>2 DEF Ok

\* Two transactions work on the same donor only if one is of a fact and the other
\* of a referral, or one has yet to take the donor's row.
LEMMA SameDonor ==
  ASSUME RecognitionInv, NEW q, NEW z, Ok(q), Ok(z), Apart(q, z), q.kind \in Awarding, z.kind \in Awarding,
         q.donor = z.donor, q.pc = "earn", z.pc # "project"
  PROVE  (q.kind = "fact" /\ z.kind = "delta") \/ (q.kind = "delta" /\ z.kind = "fact")
BY DEF Ok, TxOk, Apart, Locking, Awarding

LEMMA NeverWithRefresh ==
  ASSUME RecognitionInv, NEW q, NEW z, Ok(q), Ok(z), Apart(q, z), q.kind = "refresh", z.kind \in Awarding,
         q.donor = z.donor, q.pc = "earn"
  PROVE  FALSE
BY DEF Ok, TxOk, Apart, Locking, Awarding

\* What an award changes.
LEMMA AwardsChange ==
  ASSUME RecognitionAssumption, RecognitionInv, NEW q \in Tx, Ok(q), q.pc = "earn", NEW d \in Donors, d = q.donor,
         proj' = [proj EXCEPT ![d] = [founding |-> @.founding \/ q.founding, refs |-> @.refs + q.refs,
                                     due |-> @.due /\ q.kind # "refresh"]],
         checkins' = [checkins EXCEPT ![d] = @ + q.checkins],
         badge' = [badge EXCEPT ![d] = [c \in Codes |-> IF c \in q.made THEN EarnBadge(@[c]) ELSE @[c]]]
  PROVE  /\ proj' \in [Donors -> Projected] /\ \A x \in Donors \ {d} : proj'[x] = proj[x]
         /\ proj'[d].founding = (proj[d].founding \/ q.founding) /\ proj'[d].refs = proj[d].refs + q.refs
         /\ proj'[d].due = (proj[d].due /\ q.kind # "refresh")
         /\ checkins' \in [Donors -> 0 .. MaxCheckins] /\ checkins'[d] = checkins[d] + q.checkins
         /\ \A x \in Donors \ {d} : checkins'[x] = checkins[x]
         /\ badge' \in [Donors -> [Codes -> Badge]] /\ \A x \in Donors \ {d} : badge'[x] = badge[x]
         /\ \A c \in Codes : badge'[d][c] = IF c \in q.made THEN EarnBadge(badge[d][c]) ELSE badge[d][c]
<1>1. proj \in [Donors -> Projected] /\ proj[d] \in Projected
  BY DEF RecognitionInv, Shape
<1>2. PICK p \in Projected : p = proj[d]
  BY <1>1
<1>3. p.refs + q.refs \in 0 .. MaxRefs
  BY <1>2 DEF Ok, TxOk, Projected
<1>4. PICK r : r = [founding |-> p.founding \/ q.founding, refs |-> p.refs + q.refs,
                    due |-> p.due /\ q.kind # "refresh"]
  OBVIOUS
<1>5. r \in Projected /\ r.founding = (p.founding \/ q.founding) /\ r.refs = p.refs + q.refs
      /\ r.due = (p.due /\ q.kind # "refresh")
  BY <1>3, <1>4 DEF Projected
<1>14. proj' = [proj EXCEPT ![d] = r]
  BY <1>2, <1>4
<1>6. proj' \in [Donors -> Projected] /\ proj'[d] = r /\ \A x \in Donors \ {d} : proj'[x] = proj[x]
  BY <1>1, <1>5, <1>14
<1>7. checkins[d] + q.checkins \in 0 .. MaxCheckins
  <2>1. q.checkins # 0 => q.kind = "fact"
    BY DEF Ok, TxOk
  <2>2. checkins[d] \in 0 .. MaxCheckins
    BY DEF RecognitionInv, Shape
  <2> QED BY <2>1, <2>2 DEF Ok, TxOk, Tx
<1>8. /\ checkins' \in [Donors -> 0 .. MaxCheckins] /\ checkins'[d] = checkins[d] + q.checkins
      /\ \A x \in Donors \ {d} : checkins'[x] = checkins[x]
  BY <1>7 DEF RecognitionInv, Shape
<1>9. badge \in [Donors -> [Codes -> Badge]]
  BY DEF RecognitionInv, Shape
<1>10. \A b \in Badge : EarnBadge(b) \in Badge
  BY DEF EarnBadge, Badge, Sources
<1> DEFINE h == [c \in Codes |-> IF c \in q.made THEN EarnBadge(badge[d][c]) ELSE badge[d][c]]
<1>11. h \in [Codes -> Badge]
  BY <1>9, <1>10
<1>12. badge' = [badge EXCEPT ![d] = h]
  BY <1>9
<1>13. /\ badge' \in [Donors -> [Codes -> Badge]] /\ \A x \in Donors \ {d} : badge'[x] = badge[x]
       /\ badge'[d] = h
  <2> HIDE DEF h
  <2> QED BY <1>9, <1>11, <1>12
<1> QED BY <1>2, <1>5, <1>6, <1>8, <1>13

LEMMA CommitAwardsStep ==
  ASSUME RecognitionAssumption, RecognitionInv, NEW t \in Txs, CommitAwards(t)
  PROVE  RecognitionInv'
<1>1. PICK q \in Tx : q = tx[t]
  BY DEF RecognitionInv, Shape
<1>2. Ok(q) /\ q.pc = "earn" /\ q.todo = {}
  BY <1>1 DEF RecognitionInv, CommitAwards
<1>3. q.kind \in Awarding /\ q.donor \in Donors
  BY <1>2 DEF Ok, TxOk, Awarding, Joining, Counting, Tx
<1> PICK d \in Donors : d = q.donor
  BY <1>3
<1>4. /\ UNCHANGED <<email, claims, grants, rules, unseen>> /\ tx' = [tx EXCEPT ![t] = Idle]
      /\ pushes' = pushes \cup {<<d, c>> : c \in q.told}
  BY <1>1 DEF CommitAwards, Set
<1>15. /\ proj' = [proj EXCEPT ![d] = [founding |-> @.founding \/ q.founding, refs |-> @.refs + q.refs,
                                     due |-> @.due /\ q.kind # "refresh"]]
       /\ checkins' = [checkins EXCEPT ![d] = @ + q.checkins]
       /\ badge' = [badge EXCEPT ![d] = [c \in Codes |-> IF c \in q.made THEN EarnBadge(@[c]) ELSE @[c]]]
  BY <1>1 DEF CommitAwards, Set
<1>5. /\ proj' \in [Donors -> Projected] /\ \A x \in Donors \ {d} : proj'[x] = proj[x]
      /\ proj'[d].founding = (proj[d].founding \/ q.founding) /\ proj'[d].refs = proj[d].refs + q.refs
      /\ proj'[d].due = (proj[d].due /\ q.kind # "refresh")
      /\ checkins' \in [Donors -> 0 .. MaxCheckins] /\ checkins'[d] = checkins[d] + q.checkins
      /\ \A x \in Donors \ {d} : checkins'[x] = checkins[x]
      /\ badge' \in [Donors -> [Codes -> Badge]] /\ \A x \in Donors \ {d} : badge'[x] = badge[x]
      /\ \A c \in Codes : badge'[d][c] = IF c \in q.made THEN EarnBadge(badge[d][c]) ELSE badge[d][c]
  BY <1>2, <1>15, AwardsChange
<1>6. proj[d] \in Projected /\ checkins[d] \in Nat /\ badge[d] \in [Codes -> Badge] /\ Exists(d)
  BY <1>2, <1>3 DEF RecognitionInv, Shape, Ok, TxOk, RecognitionAssumption
<1>7. \A c \in Codes : /\ c \in q.made => ~badge[d][c].held /\ badge'[d][c].held /\ badge'[d][c].first = "AUTO"
                                          /\ ~badge'[d][c].revoked
                       /\ badge[d][c].held => badge'[d][c] = badge[d][c]
  <2> TAKE c \in Codes
  <2>1. c \in q.made => ~badge[d][c].held
    BY <1>2 DEF Ok, TxOk
  <2> QED BY <1>5, <2>1 DEF EarnBadge
<1>8. \A u \in Txs \ {t} : Ok(tx[u])'
  <2> TAKE u \in Txs \ {t}
  <2> PICK z \in Tx : z = tx[u]
    BY DEF RecognitionInv, Shape
  <2> SUFFICES Ok(z)'
    <3>1. tx'[u] = z
      BY <1>4 DEF RecognitionInv, Shape
    <3> QED BY <3>1 DEF Ok, TxOk, AwardOk, ClaimOk
  <2>1. Ok(z) /\ Apart(q, z)
    BY <1>1 DEF RecognitionInv
  <2>2. \A x \in Donors : Exists(x)' = Exists(x)
    BY <1>4 DEF Exists
  <2>3. z.kind \in Awarding => z.donor \in Donors
    BY <2>1 DEF Ok, TxOk
  <2>4. z.kind \in Awarding /\ proj[z.donor].due => proj'[z.donor].due
    <3>1. z.kind \in Awarding /\ z.donor = d => q.kind # "refresh"
      BY <1>2, <2>1, NeverWithRefresh
    <3> QED BY <1>5, <2>3, <3>1
  <2>5. z.kind \in Awarding /\ z.pc # "project" /\ z.donor = d =>
          (q.kind = "fact" /\ z.kind = "delta") \/ (q.kind = "delta" /\ z.kind = "fact")
    BY <1>2, <1>3, <2>1, SameDonor
  <2>6. (q.kind = "fact" => q.refs = 0) /\ (q.kind = "delta" => q.checkins = 0)
    BY <1>2 DEF Ok, TxOk
  <2>7. z.kind = "delta" => z.pc # "project"
    BY <2>1 DEF Ok, TxOk, Counting
  <2>8. z.kind = "fact" => z.pc # "project"
    BY <2>1 DEF Ok, TxOk, Counting
  <2>9. z.kind = "delta" => proj'[z.donor].refs = proj[z.donor].refs
    BY <1>5, <1>6, <2>3, <2>5, <2>6, <2>7 DEF Awarding, Projected
  <2>10. z.kind = "fact" => checkins'[z.donor] = checkins[z.donor]
    BY <1>5, <1>6, <2>3, <2>5, <2>6, <2>8 DEF Awarding
  <2>11. z.kind \in Awarding /\ z.pc # "project" => \A c \in Owes(z) : Will(z, c)' = Will(z, c)
    <3> SUFFICES ASSUME z.kind \in Awarding, z.pc # "project", NEW c \in Owes(z) PROVE Will(z, c)' = Will(z, c)
      OBVIOUS
    <3>1. CASE z.donor = d
      BY <2>5, <2>9, <2>10, <3>1 DEF Owes, Will
    <3>2. CASE z.donor # d
      BY <1>5, <2>3, <3>2 DEF Owes, Will
    <3> QED BY <3>1, <3>2
  <2>12. z.kind \in Awarding => \A c \in Codes :
           /\ badge[z.donor][c].held => badge'[z.donor][c].held
           /\ c \in z.made => badge'[z.donor][c].held = badge[z.donor][c].held
    <3> SUFFICES ASSUME z.kind \in Awarding, NEW c \in Codes
                 PROVE  /\ badge[z.donor][c].held => badge'[z.donor][c].held
                        /\ c \in z.made => badge'[z.donor][c].held = badge[z.donor][c].held
      OBVIOUS
    <3>1. CASE z.donor = d
      BY <1>5, <1>7, <2>1, <3>1 DEF Apart
    <3>2. CASE z.donor # d
      BY <1>5, <2>3, <3>2
    <3> QED BY <3>1, <3>2
  <2>13. ClaimOk(z)'
    BY <1>4, <2>1 DEF Ok, ClaimOk
  <2> QED BY <1>4, <2>1, <2>2, <2>4, <2>9, <2>10, <2>11, <2>12, <2>13, Undisturbed
<1>9. /\ tx' \in [Txs -> Tx] /\ \A u \in Txs : Ok(tx[u])'
      /\ \A u, v \in Txs : u # v => Apart(tx[u], tx[v])'
  BY <1>4, <1>8, CommitKeeps
<1>10. Shape'
  BY <1>4, <1>5, <1>9 DEF RecognitionInv, Shape
<1>11. SettledIsAwarded'
  <2> SUFFICES ASSUME NEW x \in Donors, NEW c \in Codes, ~proj'[x].due, Qualifies(x, c)' PROVE badge'[x][c].held
    BY DEF SettledIsAwarded
  <2>1. CASE x # d
    BY <1>4, <1>5, <2>1 DEF RecognitionInv, SettledIsAwarded, Qualifies
  <2>2. CASE x = d /\ c \in Owes(q)
    <3>1. ruleEarned(c, Will(q, c), rules)
      <4>1. CASE c = "F"
        <5>1. proj[d].founding \/ q.founding
          BY <1>5, <2>2, <4>1 DEF Qualifies
        <5>2. Will(q, c) = 1
          BY <4>1, <5>1 DEF Will
        <5> QED BY <4>1, <5>2 DEF ruleEarned, Counted
      <4>2. CASE c = "REF"
        BY <1>4, <1>5, <2>2, <4>2 DEF Qualifies, ruleEarned, Will, Counted
      <4>3. CASE c = "SU"
        BY <1>4, <1>5, <2>2, <4>3 DEF Qualifies, ruleEarned, Will, Counted
      <4> QED BY <4>1, <4>2, <4>3 DEF Codes
    <3>2. c \in q.made \/ badge[d][c].held \/ (q.kind = "fact" /\ proj[d].due)
      BY <1>2, <1>3, <2>2, <3>1 DEF Ok, AwardOk
    <3>3. ~(q.kind = "fact" /\ proj[d].due)
      BY <1>5, <2>2
    <3> QED BY <1>7, <2>2, <3>2, <3>3
  <2>3. CASE x = d /\ c \notin Owes(q)
    <3>1. q.kind # "refresh" /\ ~proj[d].due
      BY <1>5, <1>6, <2>3 DEF Owes, Projected
    <3>2. ~q.founding
      BY <1>2, <3>1 DEF Ok, TxOk
    <3>3. c = "REF" => q.refs = 0
      BY <1>2, <1>3, <2>3 DEF Owes, Ok, TxOk, Awarding
    <3>4. c = "SU" => q.checkins = 0
      BY <1>2, <1>3, <2>3 DEF Owes, Ok, TxOk, Awarding
    <3>5. Qualifies(d, c)
      BY <1>4, <1>5, <1>6, <2>3, <3>2, <3>3, <3>4 DEF Qualifies, Codes, Projected
    <3> QED BY <1>7, <2>3, <3>1, <3>5 DEF RecognitionInv, SettledIsAwarded
  <2> QED BY <2>1, <2>2, <2>3
<1>12. PushOk'
  <2> SUFFICES ASSUME NEW p \in pushes'
               PROVE  p[1] \in Devices /\ p[2] \in Codes /\ badge'[p[1]][p[2]].first = "AUTO"
    BY DEF PushOk
  <2>1. CASE p \in pushes
    <3> PICK x \in Donors, c \in Codes : x = p[1] /\ c = p[2]
      BY <2>1 DEF RecognitionInv, PushOk, RecognitionAssumption
    <3>1. x \in Devices /\ badge[x][c].first = "AUTO" /\ badge[x][c].held
      BY <2>1 DEF RecognitionInv, PushOk, BadgeOk
    <3> QED BY <1>5, <1>7, <3>1
  <2>2. CASE p \notin pushes
    <3>1. PICK c \in q.told : p = <<d, c>>
      BY <1>4, <2>2
    <3>2. c \in q.made /\ c \in Codes /\ d \in Devices
      BY <1>2 DEF Ok, TxOk, Tx
    <3> QED BY <1>7, <3>1, <3>2
  <2> QED BY <2>1, <2>2
<1>13. \A x \in Donors : NothingYet(x)' /\ \A c \in Codes : BadgeOk(badge[x][c])'
  <2> TAKE x \in Donors
  <2>1. NothingYet(x)'
    BY <1>4, <1>5, <1>6 DEF RecognitionInv, NothingYet, Exists
  <2>2. \A c \in Codes : BadgeOk(badge[x][c])'
    <3> TAKE c \in Codes
    <3>1. BadgeOk(badge[x][c])
      BY DEF RecognitionInv
    <3>2. CASE x = d
      BY <1>5, <1>7, <3>1, <3>2 DEF BadgeOk
    <3>3. CASE x # d
      BY <1>5, <3>1, <3>3 DEF BadgeOk
    <3> QED BY <3>2, <3>3
  <2> QED BY <2>1, <2>2
<1>14. ClaimsGranted'
  BY <1>4 DEF RecognitionInv, ClaimsGranted, Waits
<1> QED BY <1>9, <1>10, <1>11, <1>12, <1>13, <1>14 DEF RecognitionInv

\* New rules are scheduled for whoever exists, so that nobody is settled under
\* them but who has no facts.
LEMMA CommitRulesStep ==
  ASSUME RecognitionAssumption, RecognitionInv, NEW t \in Txs, CommitRules(t)
  PROVE  RecognitionInv'
<1>1. PICK q \in Tx : q = tx[t]
  BY DEF RecognitionInv, Shape
<1>2. Ok(q) /\ q.pc = "schedule" /\ Unscheduled(t) = {}
  BY <1>1 DEF RecognitionInv, CommitRules
<1>3. q.kind = "rules" /\ q.rules \in [Counted -> Thresholds]
  BY <1>2 DEF Ok, TxOk, Awarding, Joining, Counting, Tx
<1>4. /\ UNCHANGED <<email, claims, grants, checkins, badge, pushes, unseen>> /\ tx' = [tx EXCEPT ![t] = Idle]
      /\ rules' = q.rules /\ proj' = [d \in Donors |-> [proj[d] EXCEPT !.due = @ \/ d \in q.rows]]
  BY <1>1 DEF CommitRules, Set
<1>5. proj' \in [Donors -> Projected] /\ \A x \in Donors : /\ proj'[x].founding = proj[x].founding
                                                         /\ proj'[x].refs = proj[x].refs
                                                         /\ proj'[x].due = (proj[x].due \/ x \in q.rows)
  <2>1. \A x \in Donors : [proj[x] EXCEPT !.due = proj[x].due \/ x \in q.rows] \in Projected
    <3> TAKE x \in Donors
    <3>1. PICK p \in Projected : p = proj[x]
      BY DEF RecognitionInv, Shape
    <3>2. PICK g \in BOOLEAN : g = (p.due \/ x \in q.rows)
      OBVIOUS
    <3> QED BY <3>1, <3>2 DEF Projected
  <2>2. \A x \in Donors : proj[x] \in Projected
    BY DEF RecognitionInv, Shape
  <2> QED BY <1>4, <2>1, <2>2 DEF Projected
<1>6. \A x \in Donors : Exists(x) => x \in q.rows
  BY <1>1, <1>2 DEF Unscheduled
<1>7. \A u \in Txs \ {t} : Ok(tx[u])'
  <2> TAKE u \in Txs \ {t}
  <2> PICK z \in Tx : z = tx[u]
    BY DEF RecognitionInv, Shape
  <2> SUFFICES Ok(z)'
    <3>1. tx'[u] = z
      BY <1>4 DEF RecognitionInv, Shape
    <3> QED BY <3>1 DEF Ok, TxOk, AwardOk, ClaimOk
  <2>1. Ok(z) /\ Apart(q, z)
    BY <1>1 DEF RecognitionInv
  <2>2. \A x \in Donors : Exists(x)' = Exists(x)
    BY <1>4 DEF Exists
  <2>3. z.kind \in Awarding => z.donor \in Donors /\ z.donor \in q.rows
    BY <1>6, <2>1 DEF Ok, TxOk
  <2>4. z.kind \in Awarding => proj'[z.donor].due
    BY <1>5, <2>3
  <2>5. z.kind \in Awarding => z.pc = "project" \/ z.kind = "fact"
    BY <2>1, <2>3 DEF Ok, TxOk, Apart, Awarding
  <2>6. z.kind \in Awarding => /\ proj'[z.donor].refs = proj[z.donor].refs
                               /\ checkins'[z.donor] = checkins[z.donor]
                               /\ \A c \in Owes(z) : Will(z, c)' = Will(z, c)
    BY <1>4, <1>5, <2>3 DEF Will, Owes
  <2>7. ClaimOk(z)'
    BY <1>4, <2>1 DEF Ok, ClaimOk
  <2> QED BY <1>4, <2>1, <2>2, <2>4, <2>5, <2>6, <2>7, Undisturbed DEF Awarding
<1>8. /\ tx' \in [Txs -> Tx] /\ \A u \in Txs : Ok(tx[u])'
      /\ \A u, v \in Txs : u # v => Apart(tx[u], tx[v])'
  BY <1>4, <1>7, CommitKeeps
<1>9. Shape'
  BY <1>3, <1>4, <1>5, <1>8 DEF RecognitionInv, Shape
<1>10. SettledIsAwarded'
  <2> SUFFICES ASSUME NEW x \in Donors, NEW c \in Codes, ~proj'[x].due, Qualifies(x, c)' PROVE FALSE
    BY DEF SettledIsAwarded
  <2>1. ~Exists(x)
    BY <1>5, <1>6
  <2>2. ~proj'[x].founding /\ proj'[x].refs = 0 /\ checkins'[x] = 0
    BY <1>4, <1>5, <2>1 DEF RecognitionInv, NothingYet
  <2>3. \A b \in Counted : rules'[b] \in Nat \ {0}
    BY <1>3, <1>4 DEF RecognitionAssumption
  <2> QED BY <2>2, <2>3 DEF Qualifies, Counted
<1>11. PushOk' /\ ClaimsGranted'
  BY <1>4 DEF RecognitionInv, PushOk, ClaimsGranted, Waits
<1>12. \A x \in Donors : NothingYet(x)' /\ \A c \in Codes : BadgeOk(badge[x][c])'
  BY <1>4, <1>5 DEF RecognitionInv, NothingYet, Exists, BadgeOk
<1> QED BY <1>8, <1>9, <1>10, <1>11, <1>12 DEF RecognitionInv

\* Badges or due dates change outside the transactions.
LEMMA OutsideStep ==
  ASSUME RecognitionAssumption, RecognitionInv,
         UNCHANGED <<email, claims, grants, checkins, rules, pushes, tx, unseen>>,
         proj' \in [Donors -> Projected], badge' \in [Donors -> [Codes -> Badge]],
         \A x \in Donors : /\ proj'[x].founding = proj[x].founding /\ proj'[x].refs = proj[x].refs
                           /\ proj[x].due => proj'[x].due
                           /\ \A c \in Codes :
                                /\ badge[x][c].held => badge'[x][c].held /\ badge'[x][c].first = badge[x][c].first
                                /\ BadgeOk(badge'[x][c])
                                /\ badge'[x][c].held = badge[x][c].held
                                   \/ \A u \in Txs : tx[u].donor = x => c \notin tx[u].made
  PROVE  RecognitionInv'
<1>1. Shape'
  BY DEF RecognitionInv, Shape
<1>2. \A u \in Txs : Ok(tx[u])'
  <2> TAKE u \in Txs
  <2> PICK z \in Tx : z = tx[u]
    BY DEF RecognitionInv, Shape
  <2> SUFFICES Ok(z)'
    BY DEF Ok, TxOk, AwardOk, ClaimOk
  <2>1. Ok(z)
    BY DEF RecognitionInv
  <2>2. z.kind \in Awarding => z.donor \in Donors
    BY <2>1 DEF Ok, TxOk
  <2>3. \A x \in Donors : Exists(x)' = Exists(x)
    BY DEF Exists
  <2>4. z.kind \in Awarding => /\ proj'[z.donor].refs = proj[z.donor].refs
                               /\ \A c \in Owes(z) : Will(z, c)' = Will(z, c)
    BY <2>2 DEF Will, Owes
  <2>5. ClaimOk(z)'
    BY <2>1 DEF Ok, ClaimOk
  <2>6. z.kind = "delta" => z.kind \in Awarding
    BY DEF Awarding
  <2> QED BY <2>1, <2>2, <2>3, <2>4, <2>5, <2>6, Undisturbed
<1>3. \A u, v \in Txs : u # v => Apart(tx[u], tx[v])'
  BY DEF RecognitionInv, Apart
<1>4. SettledIsAwarded'
  <2> SUFFICES ASSUME NEW x \in Donors, NEW c \in Codes, ~proj'[x].due, Qualifies(x, c)' PROVE badge'[x][c].held
    BY DEF SettledIsAwarded
  <2>1. Qualifies(x, c)
    BY DEF Qualifies
  <2>2. badge[x][c].held
    BY <2>1 DEF RecognitionInv, SettledIsAwarded
  <2> QED BY <2>2
<1>5. PushOk'
  <2> SUFFICES ASSUME NEW p \in pushes
               PROVE  p[1] \in Devices /\ p[2] \in Codes /\ badge'[p[1]][p[2]].first = "AUTO"
    BY DEF PushOk
  <2>1. p[1] \in Devices /\ p[2] \in Codes /\ badge[p[1]][p[2]].first = "AUTO"
    BY DEF RecognitionInv, PushOk
  <2>2. p[1] \in Donors => badge[p[1]][p[2]].held
    BY <2>1 DEF RecognitionInv, BadgeOk
  <2>3. p[1] \in Donors => badge'[p[1]][p[2]].first = badge[p[1]][p[2]].first
    BY <2>1, <2>2
  <2> QED BY <2>1, <2>3 DEF RecognitionAssumption
<1>6. ClaimsGranted' /\ \A x \in Donors : NothingYet(x)' /\ \A c \in Codes : BadgeOk(badge[x][c])'
  BY DEF RecognitionInv, ClaimsGranted, Waits, NothingYet, Exists, BadgeOk
<1> QED BY <1>1, <1>2, <1>3, <1>4, <1>5, <1>6 DEF RecognitionInv

LEMMA OneBadge ==
  ASSUME NEW B \in [Donors -> [Codes -> Badge]], NEW d \in Donors, NEW c \in Codes, NEW b \in Badge,
         NEW A, A = [B EXCEPT ![d][c] = b]
  PROVE  /\ A \in [Donors -> [Codes -> Badge]] /\ A[d][c] = b
         /\ \A x \in Donors, k \in Codes : x # d \/ k # c => A[x][k] = B[x][k]
OBVIOUS

LEMMA StaffStep ==
  ASSUME RecognitionAssumption, RecognitionInv, NEW d \in Donors, NEW c \in Codes, Grant(d, c) \/ Revoke(d, c)
  PROVE  RecognitionInv'
<1>1. PICK b \in Badge : b = badge[d][c] /\ BadgeOk(b)
  BY DEF RecognitionInv, Shape
<1>2. PICK n : n = IF Grant(d, c) THEN GrantBadge(b) ELSE RevokeBadge(b)
  OBVIOUS
<1>3. n \in Badge /\ BadgeOk(n) /\ (b.held => n.held /\ n.first = b.first) /\ (Revoke(d, c) /\ ~Grant(d, c) => n.held = b.held)
  <2>1. GrantBadge(b) \in Badge /\ BadgeOk(GrantBadge(b)) /\ GrantBadge(b).held
        /\ (b.held => GrantBadge(b).first = b.first)
    BY <1>1 DEF GrantBadge, Badge, Sources, BadgeOk
  <2>2. PICK g \in BOOLEAN : g = (b.revoked \/ b.held)
    OBVIOUS
  <2>3. RevokeBadge(b) = [b EXCEPT !.revoked = g]
    BY <2>2 DEF RevokeBadge
  <2>4. RevokeBadge(b) \in Badge /\ BadgeOk(RevokeBadge(b)) /\ RevokeBadge(b).held = b.held
        /\ RevokeBadge(b).first = b.first
    BY <1>1, <2>2, <2>3 DEF Badge, Sources, BadgeOk
  <2> QED BY <1>2, <2>1, <2>4
<1>4. badge' = [badge EXCEPT ![d][c] = n]
  BY <1>1, <1>2 DEF Grant, Revoke
<1>5. badge \in [Donors -> [Codes -> Badge]]
  BY DEF RecognitionInv, Shape
<1>6. /\ badge' \in [Donors -> [Codes -> Badge]] /\ badge'[d][c] = n
      /\ \A x \in Donors, k \in Codes : x # d \/ k # c => badge'[x][k] = badge[x][k]
  BY <1>3, <1>4, <1>5, OneBadge
<1>7. Grant(d, c) => \A u \in Txs : tx[u].donor = d => c \notin tx[u].made
  BY DEF Grant, BadgeFree, RecognitionAssumption
<1>8. /\ UNCHANGED <<email, claims, grants, checkins, rules, pushes, tx, unseen>> /\ proj' = proj
      /\ proj \in [Donors -> Projected]
  BY DEF Grant, Revoke, RecognitionInv, Shape
<1>9. \A x \in Donors : \A k \in Codes :
        /\ badge[x][k].held => badge'[x][k].held /\ badge'[x][k].first = badge[x][k].first
        /\ BadgeOk(badge'[x][k])
        /\ badge'[x][k].held = badge[x][k].held \/ \A u \in Txs : tx[u].donor = x => k \notin tx[u].made
  <2> TAKE x \in Donors
  <2> TAKE k \in Codes
  <2>1. BadgeOk(badge[x][k])
    BY DEF RecognitionInv
  <2>2. CASE x = d /\ k = c
    BY <1>1, <1>3, <1>6, <1>7, <2>2
  <2>3. CASE ~(x = d /\ k = c)
    BY <1>6, <2>1, <2>3
  <2> QED BY <2>2, <2>3
<1> QED BY <1>6, <1>8, <1>9, OutsideStep

LEMMA TickStep ==
  ASSUME RecognitionAssumption, RecognitionInv, NEW d \in Donors, Tick(d)
  PROVE  RecognitionInv'
<1>1. PICK p \in Projected : p = proj[d]
  BY DEF RecognitionInv, Shape
<1>2. PICK r : r = [p EXCEPT !.due = TRUE]
  OBVIOUS
<1>3. r \in Projected /\ r.founding = p.founding /\ r.refs = p.refs /\ r.due
  BY <1>2 DEF Projected
<1>4. proj' = [proj EXCEPT ![d] = r] /\ UNCHANGED <<email, claims, grants, checkins, rules, badge, pushes, tx, unseen>>
  BY <1>1, <1>2 DEF Tick
<1>5. proj \in [Donors -> Projected] /\ badge \in [Donors -> [Codes -> Badge]]
  BY DEF RecognitionInv, Shape
<1>6. proj' \in [Donors -> Projected] /\ proj'[d] = r /\ \A x \in Donors \ {d} : proj'[x] = proj[x]
  BY <1>3, <1>4, <1>5
<1>7. \A x \in Donors : /\ proj'[x].founding = proj[x].founding /\ proj'[x].refs = proj[x].refs
                        /\ proj[x].due => proj'[x].due
  BY <1>1, <1>3, <1>6
<1>8. \A x \in Donors : \A c \in Codes : BadgeOk(badge[x][c])
  BY DEF RecognitionInv
<1> QED BY <1>4, <1>5, <1>6, <1>7, <1>8, OutsideStep

-----------------------------------------------------------------------------
\* An import commits: a donor's transaction that has looked for the claim is
\* noted to have missed it.
LEMMA CommitImportStep ==
  ASSUME RecognitionAssumption, RecognitionInv, NEW t \in Txs, CommitImport(t)
  PROVE  RecognitionInv'
<1>1. PICK q \in Tx : q = tx[t]
  BY DEF RecognitionInv, Shape
<1>2. Ok(q) /\ q.kind = "import" /\ q.pc = "done" /\ q.email \in Emails
  BY <1>1 DEF RecognitionInv, CommitImport, Ok, TxOk
<1> DEFINE Late(z) == z.late \/ (z.kind \in Joining /\ z.pc = "done" /\ z.email = q.email)
           After(u) == IF u = t THEN Idle ELSE [tx[u] EXCEPT !.late = Late(tx[u])]
<1>3. /\ UNCHANGED <<email, proj, checkins, rules, badge, pushes, unseen>>
      /\ claims' = claims \cup {q.email} /\ grants' = grants \cup q.granted
      /\ tx' = [u \in Txs |-> After(u)]
  BY <1>1 DEF CommitImport, Joining
<1>4. \A u \in Txs \ {t} : /\ After(u) \in Tx /\ After(u).late = Late(tx[u])
                          /\ \A z \in Tx : z = tx[u] =>
                               /\ After(u).kind = z.kind /\ After(u).pc = z.pc /\ After(u).donor = z.donor
                               /\ After(u).email = z.email /\ After(u).key = z.key /\ After(u).rows = z.rows
                               /\ After(u).founding = z.founding /\ After(u).refs = z.refs
                               /\ After(u).checkins = z.checkins /\ After(u).rules = z.rules
                               /\ After(u).signals = z.signals /\ After(u).todo = z.todo
                               /\ After(u).made = z.made /\ After(u).told = z.told /\ After(u).granted = z.granted
  <2> TAKE u \in Txs \ {t}
  <2>1. PICK z \in Tx : z = tx[u]
    BY DEF RecognitionInv, Shape
  <2>2. PICK l \in BOOLEAN : l = Late(z)
    BY DEF Tx
  <2>3. After(u) = [z EXCEPT !.late = l]
    BY <2>1, <2>2
  <2> HIDE DEF After, Late
  <2>4. After(u) \in Tx
    BY <2>3 DEF Tx
  <2>5. After(u).late = l
    BY <2>3 DEF Tx
  <2>6. /\ After(u).kind = z.kind /\ After(u).pc = z.pc /\ After(u).donor = z.donor
        /\ After(u).email = z.email /\ After(u).key = z.key /\ After(u).rows = z.rows
        /\ After(u).founding = z.founding
    BY <2>3 DEF Tx
  <2>7. /\ After(u).refs = z.refs
        /\ After(u).checkins = z.checkins /\ After(u).rules = z.rules
        /\ After(u).signals = z.signals /\ After(u).todo = z.todo
        /\ After(u).made = z.made /\ After(u).told = z.told /\ After(u).granted = z.granted
    BY <2>3 DEF Tx
  <2> QED BY <2>1, <2>2, <2>4, <2>5, <2>6, <2>7
<1>5. After(t) = Idle
  OBVIOUS
<1> HIDE DEF After
<1>6. tx' \in [Txs -> Tx] /\ tx'[t] = Idle /\ \A u \in Txs \ {t} : tx'[u] = After(u)
  BY <1>3, <1>4, <1>5, IdleTyped
<1>7. Shape'
  BY <1>2, <1>3, <1>6 DEF RecognitionInv, Shape, Tx
<1>8. \A u \in Txs : Ok(tx[u])'
  <2> TAKE u \in Txs
  <2>1. CASE u = t
    <3>1. Ok(Idle)'
      BY DEF Idle, Ok, TxOk, AwardOk, ClaimOk, Awarding, Joining
    <3> QED BY <1>6, <2>1, <3>1 DEF Ok, TxOk, AwardOk, ClaimOk, Idle, Awarding, Joining
  <2>2. CASE u # t
    <3>1. PICK z \in Tx : z = tx[u] /\ Ok(z)
      BY DEF RecognitionInv, Shape
    <3>2. PICK r \in Tx : r = tx'[u]
      BY <1>6
    <3>3. /\ r.kind = z.kind /\ r.pc = z.pc /\ r.donor = z.donor /\ r.email = z.email /\ r.key = z.key
          /\ r.rows = z.rows /\ r.founding = z.founding /\ r.refs = z.refs /\ r.checkins = z.checkins
          /\ r.rules = z.rules /\ r.signals = z.signals /\ r.todo = z.todo /\ r.made = z.made /\ r.told = z.told
          /\ r.granted = z.granted /\ r.late = Late(z)
      BY <1>4, <1>6, <2>2, <3>1, <3>2
    <3> HIDE DEF Late
    <3>4. TxOk(r)'
      BY <1>3, <3>1, <3>3 DEF Ok, TxOk, Exists
    <3>5. AwardOk(r)'
      <4>1. Owes(r) = Owes(z) /\ \A c : Will(r, c)' = Will(z, c)
        BY <1>3, <3>3 DEF Owes, Will
      <4>2. r.kind \in Awarding => \A c \in Owes(r) :
              /\ r.pc = "rules" => r.signals[c] = Will(r, c)'
              /\ r.pc = "earn" /\ ruleEarned(c, Will(r, c)', rules') =>
                   c \in r.todo \/ c \in r.made \/ badge'[r.donor][c].held \/ (r.kind = "fact" /\ proj'[r.donor].due)
        BY <1>3, <3>1, <3>3, <4>1 DEF Ok, AwardOk
      <4> QED BY <4>2 DEF AwardOk, ruleEarned, Owes
    <3>6. ClaimOk(r)'
      BY <1>3, <3>1, <3>3 DEF Ok, ClaimOk, Late
    <3> QED BY <3>2, <3>4, <3>5, <3>6 DEF Ok, TxOk, AwardOk, ClaimOk
  <2> QED BY <2>1, <2>2
<1>9. \A u, v \in Txs : u # v => Apart(tx[u], tx[v])'
  <2> SUFFICES ASSUME NEW u \in Txs, NEW v \in Txs, u # v PROVE Apart(tx'[u], tx'[v])
    BY DEF Apart
  <2>1. CASE u = t \/ v = t
    BY <1>6, <2>1, ApartFromIdle
  <2>2. CASE u # t /\ v # t
    <3>1. Apart(tx[u], tx[v]) /\ tx[u] \in Tx /\ tx[v] \in Tx
      BY DEF RecognitionInv, Shape
    <3> QED BY <1>4, <1>6, <2>2, <3>1 DEF Apart
  <2> QED BY <2>1, <2>2
<1>10. ClaimsGranted'
  <2> SUFFICES ASSUME NEW d \in Donors, NEW e \in Emails, email[d] = e, e \in claims', d \notin grants'
               PROVE  <<d, e>> \in unseen
    BY <1>3 DEF ClaimsGranted, Waits
  <2>1. CASE e \in claims
    BY <1>3, <2>1 DEF RecognitionInv, ClaimsGranted, Waits
  <2>2. CASE e = q.email
    BY <1>2, <1>3, <2>2 DEF Ok, ClaimOk
  <2> QED BY <1>3, <2>1, <2>2
<1>11. PushOk' /\ SettledIsAwarded'
  BY <1>3 DEF RecognitionInv, PushOk, SettledIsAwarded, Qualifies
<1>12. \A x \in Donors : NothingYet(x)' /\ \A c \in Codes : BadgeOk(badge[x][c])'
  BY <1>3 DEF RecognitionInv, NothingYet, Exists, BadgeOk
<1> QED BY <1>7, <1>8, <1>9, <1>10, <1>11, <1>12 DEF RecognitionInv

\* A donor's own transaction commits: an import that has looked for the donor of
\* the address is noted to have missed them.
LEMMA CommitDonorStep ==
  ASSUME RecognitionAssumption, RecognitionInv, NEW t \in Txs, CommitDonor(t)
  PROVE  RecognitionInv'
<1>1. PICK q \in Tx : q = tx[t]
  BY DEF RecognitionInv, Shape
<1>2. /\ Ok(q) /\ q.kind \in Joining /\ q.pc = "done" /\ q.email \in Emails /\ q.donor \in Donors
  BY <1>1 DEF RecognitionInv, CommitDonor, Ok, TxOk, Joining
<1> PICK d \in Donors : d = q.donor
  BY <1>2
<1> PICK e \in Emails : e = q.email
  BY <1>2
<1>3. PICK missed \in BOOLEAN :
        missed = (\/ ~q.key /\ e \in claims
                  \/ q.late
                  \/ \E u \in Txs : tx[u].kind = "import" /\ tx[u].pc = "done" /\ tx[u].email = e /\ d \notin tx[u].granted)
  OBVIOUS
<1>14. UNCHANGED <<claims, checkins, rules, badge, pushes>>
  BY DEF CommitDonor
<1>4. /\ UNCHANGED <<claims, checkins, rules, badge, pushes>> /\ tx' = [tx EXCEPT ![t] = Idle]
      /\ email' = [email EXCEPT ![d] = e] /\ grants' = grants \cup q.granted
      /\ unseen' = IF missed THEN unseen \cup {<<d, e>>} ELSE unseen
  BY <1>1, <1>3 DEF CommitDonor, Set
<1>5. /\ email' \in [Donors -> Emails \cup {NoEmail, Elsewhere}] /\ email'[d] = e
      /\ \A x \in Donors \ {d} : email'[x] = email[x]
  BY <1>4 DEF RecognitionInv, Shape
<1>6. /\ proj' \in [Donors -> Projected]
      /\ \A x \in Donors : proj'[x].founding = proj[x].founding /\ proj'[x].refs = proj[x].refs
      /\ \A x \in Donors : proj[x].due => proj'[x].due
  <2>1. PICK p \in Projected : p = proj[d]
    BY DEF RecognitionInv, Shape
  <2>2. PICK g \in BOOLEAN : g = (p.due \/ ~Exists(d))
    OBVIOUS
  <2>3. PICK r : r = [p EXCEPT !.due = g]
    OBVIOUS
  <2>4. r \in Projected /\ r.founding = p.founding /\ r.refs = p.refs /\ (p.due => r.due)
    BY <2>2, <2>3 DEF Projected
  <2>5. proj' = [proj EXCEPT ![d] = r]
    BY <1>1, <2>1, <2>2, <2>3 DEF CommitDonor
  <2>6. proj \in [Donors -> Projected]
    BY DEF RecognitionInv, Shape
  <2>7. proj' \in [Donors -> Projected] /\ proj'[d] = r /\ \A x \in Donors \ {d} : proj'[x] = proj[x]
    BY <2>4, <2>5, <2>6
  <2> QED BY <2>1, <2>4, <2>7
<1>7. \A x \in Donors : Exists(x) => Exists(x)'
  BY <1>5 DEF Exists, NoEmail, RecognitionAssumption
<1>8. \A u \in Txs \ {t} : Ok(tx[u])'
  <2> TAKE u \in Txs \ {t}
  <2> PICK z \in Tx : z = tx[u]
    BY DEF RecognitionInv, Shape
  <2> SUFFICES Ok(z)'
    <3>1. tx'[u] = z
      BY <1>4 DEF RecognitionInv, Shape
    <3> QED BY <3>1 DEF Ok, TxOk, AwardOk, ClaimOk
  <2>1. Ok(z)
    BY DEF RecognitionInv
  <2>2. z.kind \in Awarding => z.donor \in Donors
    BY <2>1 DEF Ok, TxOk
  <2>3. z.kind \in Awarding => /\ proj'[z.donor].refs = proj[z.donor].refs
                               /\ (proj[z.donor].due => proj'[z.donor].due)
                               /\ checkins'[z.donor] = checkins[z.donor]
                               /\ \A c \in Owes(z) : Will(z, c)' = Will(z, c)
    BY <1>6, <1>14, <2>2 DEF Will, Owes
  <2>4. z.kind = "import" /\ z.pc = "done" /\ z.email = e => d \in z.granted \/ <<d, e>> \in unseen'
    BY <1>3, <1>4
  <2>5. ClaimOk(z)'
    <3>1. ASSUME z.kind = "import", z.pc = "done", NEW x \in Donors, email'[x] = z.email
          PROVE  x \in z.granted \/ <<x, z.email>> \in unseen'
      BY <1>4, <1>5, <2>1, <2>4, <3>1 DEF Ok, ClaimOk
    <3>2. z.kind \in Joining /\ z.pc = "done" /\ z.key /\ z.email \in claims' => z.donor \in z.granted \/ z.late
      BY <1>4, <2>1 DEF Ok, ClaimOk
    <3> QED BY <3>1, <3>2 DEF ClaimOk
  <2> QED BY <1>4, <1>7, <2>1, <2>3, <2>5, Undisturbed DEF Awarding
<1>9. /\ tx' \in [Txs -> Tx] /\ \A u \in Txs : Ok(tx[u])'
      /\ \A u, v \in Txs : u # v => Apart(tx[u], tx[v])'
  BY <1>4, <1>8, CommitKeeps
<1>10. Shape'
  BY <1>4, <1>5, <1>6, <1>9 DEF RecognitionInv, Shape, Tx
<1>11. ClaimsGranted'
  <2> SUFFICES ASSUME NEW x \in Donors, NEW y \in Emails, email'[x] = y, y \in claims, x \notin grants'
               PROVE  <<x, y>> \in unseen'
    BY <1>4 DEF ClaimsGranted, Waits
  <2>1. CASE x # d
    BY <1>4, <1>5, <2>1 DEF RecognitionInv, ClaimsGranted, Waits
  <2>2. CASE x = d
    <3>1. y = e /\ d \notin q.granted
      BY <1>4, <1>5, <2>2
    <3>2. missed
      BY <1>2, <1>3, <3>1 DEF Ok, ClaimOk
    <3> QED BY <1>4, <2>2, <3>1, <3>2
  <2> QED BY <2>1, <2>2
<1>12. SettledIsAwarded' /\ PushOk'
  BY <1>6, <1>14 DEF RecognitionInv, PushOk, SettledIsAwarded, Qualifies
<1>13. \A x \in Donors : NothingYet(x)' /\ \A c \in Codes : BadgeOk(badge[x][c])'
  BY <1>6, <1>7, <1>14 DEF RecognitionInv, NothingYet, BadgeOk
<1> QED BY <1>9, <1>10, <1>11, <1>12, <1>13 DEF RecognitionInv

-----------------------------------------------------------------------------
LEMMA InitIsSafe ==
  ASSUME RecognitionAssumption, Init
  PROVE  RecognitionInv
<1>1. Shape
  <2>1. tx \in [Txs -> Tx]
    BY IdleTyped DEF Init
  <2>2. email \in [Donors -> Emails \cup {NoEmail, Elsewhere}]
    BY DEF Init
  <2>3. proj \in [Donors -> Projected] /\ checkins \in [Donors -> 0 .. MaxCheckins]
    BY DEF Init, Projected, RecognitionAssumption
  <2>4. badge \in [Donors -> [Codes -> Badge]]
    <3>1. NoBadge \in Badge
      BY DEF NoBadge, Badge, Sources
    <3> QED BY <3>1 DEF Init
  <2> QED BY <2>1, <2>2, <2>3, <2>4 DEF Shape, Init
<1>2. \A t \in Txs : tx[t] = Idle
  BY DEF Init
<1>3. \A t \in Txs : Ok(tx[t])
  BY <1>2, IdleOk
<1>4. \A t, u \in Txs : t # u => Apart(tx[t], tx[u])
  BY <1>2, ApartFromIdle
<1>5. \A d \in Donors : NothingYet(d) /\ \A c \in Codes : BadgeOk(badge[d][c])
  BY DEF Init, NothingYet, BadgeOk, NoBadge
<1>6. SettledIsAwarded
  <2>1. \A c \in Counted : rules[c] \in Nat \ {0}
    BY DEF Init, RecognitionAssumption
  <2> QED BY <2>1 DEF Init, SettledIsAwarded, Qualifies, Counted
<1>7. PushOk /\ ClaimsGranted
  BY DEF Init, PushOk, ClaimsGranted, Waits
<1> QED BY <1>1, <1>3, <1>4, <1>5, <1>6, <1>7 DEF RecognitionInv

LEMMA NothingHappens ==
  ASSUME RecognitionInv, UNCHANGED vars
  PROVE  RecognitionInv'
<1>1. Shape' /\ PushOk' /\ SettledIsAwarded' /\ ClaimsGranted'
  BY DEF vars, RecognitionInv, Shape, PushOk, SettledIsAwarded, Qualifies, ClaimsGranted, Waits
<1>2. \A d \in Donors : NothingYet(d)' /\ \A c \in Codes : BadgeOk(badge[d][c])'
  BY DEF vars, RecognitionInv, NothingYet, Exists, BadgeOk
<1>3. \A t \in Txs : Ok(tx[t])'
  <2> TAKE t \in Txs
  <2>1. Ok(tx[t])
    BY DEF RecognitionInv
  <2>2. TxOk(tx[t])' /\ ClaimOk(tx[t])'
    BY <2>1 DEF vars, Ok, TxOk, ClaimOk, Exists
  <2>3. AwardOk(tx[t])'
    BY <2>1 DEF vars, Ok, AwardOk, Owes, Will, ruleEarned
  <2> QED BY <2>2, <2>3 DEF Ok
<1>4. \A t, u \in Txs : t # u => Apart(tx[t], tx[u])'
  BY DEF vars, RecognitionInv, Apart
<1> QED BY <1>1, <1>2, <1>3, <1>4 DEF RecognitionInv

LEMMA StepIsSafe ==
  ASSUME RecognitionAssumption, RecognitionInv, [Next]_vars
  PROVE  RecognitionInv'
<1>1. ASSUME NEW t \in Txs, Step(t) PROVE RecognitionInv'
  BY <1>1, ProjectStep, SignalsStep, RulesReadStep, EarnStep, CommitAwardsStep, ScheduleStep, CommitRulesStep,
     LookStep, CommitImportStep, CommitDonorStep DEF Step
<1>2. ASSUME NEW t \in Txs, NEW d \in Donors,
             \/ BeginRefresh(t, d)
             \/ \E n \in {0, 1} : BeginFact(t, d, n)
             \/ \E n \in {-1, 1} : ApplyReferralDelta(t, d, n)
             \/ \E e \in Emails : completeEmailChange(t, d, e) \/ \E key \in Keys : lockGuest(t, d, e, key)
      PROVE  RecognitionInv'
  BY <1>2, BeginRefreshStep, BeginFactStep, DeltaStep, ArrivalStep
<1>3. ASSUME NEW d \in Donors, Tick(d) \/ \E c \in Codes : Grant(d, c) \/ Revoke(d, c) PROVE RecognitionInv'
  BY <1>3, TickStep, StaffStep
<1>4. ASSUME NEW t \in Txs,
             (\E r \in [Counted -> Thresholds] : SetRules(t, r)) \/ \E e \in Emails : ImportFoundingClaims(t, e)
      PROVE  RecognitionInv'
  BY <1>4, SetRulesStep, ImportStep
<1> QED BY <1>1, <1>2, <1>3, <1>4, NothingHappens DEF Next

-----------------------------------------------------------------------------
\* In every state what the transactions hold is apart, an award under way sees to
\* every badge its own facts may earn, and an import and the donor of its address
\* have met or are noted not to have (awardBadges, SetRules, ImportFoundingClaims).
THEOREM AwardsInvariant == ASSUME RecognitionAssumption PROVE Spec => []RecognitionInv
<1>1. Init => RecognitionInv
  BY InitIsSafe
<1>2. RecognitionInv /\ [Next]_vars => RecognitionInv'
  BY StepIsSafe
<1> QED BY <1>1, <1>2, PTL DEF Spec

\* Projected counts stay within their ranges although a referred donor's
\* transaction moves them, and a notification was queued only for a badge that was
\* recorded by earning it, whatever staff granted or revoked since
\* (ApplyReferralDelta, earnBadge, GrantBadge).
THEOREM RecognitionTypeCorrect == ASSUME RecognitionAssumption PROVE Spec => []TypeOK
<1>1. RecognitionInv => TypeOK
  BY DEF RecognitionInv, Shape, PushOk, TypeOK, Projected, Badge, Sources
<1> QED BY <1>1, AwardsInvariant, PTL

\* Whoever qualifies for a badge under the rules in force holds it or is due for a
\* refresh, however facts, referrals and changes of the rules overlap
\* (awardBadges, refreshRecognitionSchedule).
THEOREM NoAwardLost == ASSUME RecognitionAssumption PROVE Spec => []SettledIsAwarded
<1>1. RecognitionInv => SettledIsAwarded
  BY DEF RecognitionInv
<1> QED BY <1>1, AwardsInvariant, PTL

\* A donor who holds a claimed address is a Founding Donor, or signed up without
\* the key when it was claimed, or their transaction and the import overlapped and
\* missed each other: those two ways of losing a claim are the only ones
\* (GrantFoundingClaim, ImportFoundingClaims).
THEOREM ClaimsMeetOrAreMissed == ASSUME RecognitionAssumption PROVE Spec => []ClaimsGranted
<1>1. RecognitionInv => ClaimsGranted
  BY DEF RecognitionInv
<1> QED BY <1>1, AwardsInvariant, PTL

-----------------------------------------------------------------------------
\* Nothing was missed so far, and no transaction under way is about to be.
Met == unseen = {} /\ \A t \in Txs : ~tx[t].late /\ (tx[t].kind \in Joining => tx[t].key)

LEMMA MetGoesOn ==
  ASSUME RecognitionInv, Met, NEW t \in Txs, NEW r, tx' = [tx EXCEPT ![t] = r], unseen' = unseen,
         ~r.late, r.kind \in Joining => r.key
  PROVE  Met'
<1>1. tx'[t] = r /\ \A u \in Txs \ {t} : tx'[u] = tx[u]
  BY DEF RecognitionInv, Shape
<1> QED BY <1>1 DEF Met

LEMMA IdleIsNotLate == ~Idle.late /\ Idle.kind = "none"
BY DEF Idle

\* A transaction that opens or goes on misses nothing.
LEMMA MetWhenOpened ==
  ASSUME RecognitionAssumption, RecognitionInv, Met, Keys = {TRUE}, NEW t \in Txs, NEW d \in Donors,
         \/ BeginRefresh(t, d)
         \/ \E n \in {0, 1} : BeginFact(t, d, n)
         \/ \E n \in {-1, 1} : ApplyReferralDelta(t, d, n)
         \/ \E e \in Emails : completeEmailChange(t, d, e) \/ \E key \in Keys : lockGuest(t, d, e, key)
  PROVE  Met'
<1>1. PICK i \in Tx : i = Idle /\ ~i.late
  BY IdleTyped, IdleIsNotLate
<1>2. ASSUME BeginRefresh(t, d) PROVE Met'
  <2>1. PICK r : r = [i EXCEPT !.kind = "refresh", !.pc = "project", !.donor = d]
    OBVIOUS
  <2>2. ~r.late /\ r.kind = "refresh"
    BY <1>1, <2>1 DEF Tx
  <2>3. tx' = [tx EXCEPT ![t] = r] /\ unseen' = unseen
    BY <1>1, <1>2, <2>1 DEF BeginRefresh, Open
  <2> QED BY <2>2, <2>3, MetGoesOn DEF Joining
<1>3. ASSUME NEW n \in {0, 1}, BeginFact(t, d, n) PROVE Met'
  <2>1. PICK r : r = [i EXCEPT !.kind = "fact", !.pc = "signals", !.donor = d, !.checkins = n]
    OBVIOUS
  <2>2. ~r.late /\ r.kind = "fact"
    BY <1>1, <2>1 DEF Tx
  <2>3. tx' = [tx EXCEPT ![t] = r] /\ unseen' = unseen
    BY <1>1, <1>3, <2>1 DEF BeginFact, Open
  <2> QED BY <2>2, <2>3, MetGoesOn DEF Joining
<1>4. ASSUME NEW n \in {-1, 1}, ApplyReferralDelta(t, d, n) PROVE Met'
  <2>1. PICK r : r = [i EXCEPT !.kind = "delta", !.pc = "signals", !.donor = d, !.rows = {d}, !.refs = n]
    OBVIOUS
  <2>2. ~r.late /\ r.kind = "delta"
    BY <1>1, <2>1 DEF Tx
  <2>3. tx' = [tx EXCEPT ![t] = r] /\ unseen' = unseen
    BY <1>1, <1>4, <2>1 DEF ApplyReferralDelta, Open
  <2> QED BY <2>2, <2>3, MetGoesOn DEF Joining
<1>5. ASSUME NEW e \in Emails, completeEmailChange(t, d, e) PROVE Met'
  <2>1. PICK r : r = [i EXCEPT !.kind = "move", !.pc = "grant", !.donor = d, !.email = e, !.key = TRUE]
    OBVIOUS
  <2>2. ~r.late /\ r.kind = "move" /\ r.key
    BY <1>1, <2>1 DEF Tx
  <2>3. tx' = [tx EXCEPT ![t] = r] /\ unseen' = unseen
    BY <1>1, <1>5, <2>1 DEF completeEmailChange, Open
  <2> QED BY <2>2, <2>3, MetGoesOn DEF Joining
<1>6. ASSUME NEW e \in Emails, lockGuest(t, d, e, TRUE) PROVE Met'
  <2>1. PICK r : r = [i EXCEPT !.kind = "join", !.pc = "grant", !.donor = d, !.email = e, !.key = TRUE]
    OBVIOUS
  <2>2. ~r.late /\ r.kind = "join" /\ r.key
    BY <1>1, <2>1 DEF Tx
  <2>3. tx' = [tx EXCEPT ![t] = r] /\ unseen' = unseen
    BY <1>1, <1>6, <2>1 DEF lockGuest, Open
  <2> QED BY <2>2, <2>3, MetGoesOn DEF Joining
<1> QED BY <1>2, <1>3, <1>4, <1>5, <1>6

LEMMA MetOnTheWay ==
  ASSUME RecognitionInv, Met, NEW t \in Txs,
         \/ projectFacts(t) \/ signalsFor(t) \/ recognitionRules(t) \/ (\E c \in Codes : earnBadge(t, c))
         \/ (\E d \in Donors : RefreshRecognitionSchedule(t, d)) \/ ImportGrants(t) \/ ClaimGrant(t)
  PROVE  Met'
<1>1. PICK q \in Tx : q = tx[t]
  BY DEF RecognitionInv, Shape
<1>2. ~q.late /\ (q.kind \in Joining => q.key)
  BY <1>1 DEF Met
<1>3. PICK r : tx' = [tx EXCEPT ![t] = r] /\ r.late = q.late /\ r.kind = q.kind /\ r.key = q.key /\ unseen' = unseen
  <2>1. CASE projectFacts(t)
    BY <1>1, <2>1 DEF projectFacts, Set, Tx
  <2>2. CASE signalsFor(t)
    BY <1>1, <2>2 DEF signalsFor, Set, Tx
  <2>3. CASE recognitionRules(t)
    BY <1>1, <2>3 DEF recognitionRules, Set, Tx
  <2>4. ASSUME NEW c \in Codes, earnBadge(t, c)
        PROVE  \E r : /\ tx' = [tx EXCEPT ![t] = r] /\ r.late = q.late /\ r.kind = q.kind
                      /\ r.key = q.key /\ unseen' = unseen
    BY <1>1, <2>4 DEF earnBadge, Set, Tx
  <2>5. ASSUME NEW d \in Donors, RefreshRecognitionSchedule(t, d)
        PROVE  \E r : /\ tx' = [tx EXCEPT ![t] = r] /\ r.late = q.late /\ r.kind = q.kind
                      /\ r.key = q.key /\ unseen' = unseen
    BY <1>1, <2>5 DEF RefreshRecognitionSchedule, Set, Tx
  <2>6. CASE ImportGrants(t)
    BY <1>1, <2>6 DEF ImportGrants, Set, Tx
  <2>7. CASE ClaimGrant(t)
    BY <1>1, <2>7 DEF ClaimGrant, Set, Tx
  <2> QED BY <2>1, <2>2, <2>3, <2>4, <2>5, <2>6, <2>7
<1> QED BY <1>2, <1>3, MetGoesOn

LEMMA MetStep ==
  ASSUME RecognitionAssumption, RecognitionInv, Met, ~Overlapping, Keys = {TRUE}, [Next]_vars
  PROVE  Met'
<1>1. ASSUME NEW t \in Txs, Step(t) PROVE Met'
  <2>1. CASE CommitAwards(t) \/ CommitRules(t)
    <3>1. tx' = [tx EXCEPT ![t] = Idle] /\ unseen' = unseen
      BY <2>1 DEF CommitAwards, CommitRules, Set
    <3> QED BY <3>1, IdleIsNotLate, MetGoesOn DEF Joining
  <2>2. CASE CommitImport(t)
    <3>1. \A u \in Txs \ {t} : ~(tx[u].kind \in {"join", "move"} /\ tx[u].pc = "done" /\ tx[u].email = tx[t].email)
      BY <2>2 DEF CommitImport, Overlapping
    <3>2. \A u \in Txs : tx'[u] = IF u = t THEN Idle ELSE [tx[u] EXCEPT !.late = FALSE]
      BY <2>2, <3>1 DEF CommitImport, Met
    <3>3. \A u \in Txs \ {t} : ~tx'[u].late /\ (tx'[u].kind \in Joining => tx'[u].key)
      <4> TAKE u \in Txs \ {t}
      <4>1. PICK z \in Tx : z = tx[u]
        BY DEF RecognitionInv, Shape
      <4> QED BY <3>2, <4>1 DEF Met, Tx
    <3>4. ~tx'[t].late /\ (tx'[t].kind \in Joining => tx'[t].key) /\ unseen' = unseen
      BY <2>2, <3>2, IdleIsNotLate DEF CommitImport, Joining
    <3> QED BY <3>3, <3>4 DEF Met
  <2>3. CASE CommitDonor(t)
    <3>1. ~(~tx[t].key /\ tx[t].email \in claims) /\ ~tx[t].late
      BY <2>3 DEF CommitDonor, Met, Joining
    <3>2. \A u \in Txs : ~(tx[u].kind = "import" /\ tx[u].pc = "done" /\ tx[u].email = tx[t].email)
      BY <2>3 DEF CommitDonor, Overlapping
    <3>3. unseen' = unseen /\ tx' = [tx EXCEPT ![t] = Idle]
      BY <2>3, <3>1, <3>2 DEF CommitDonor, Set
    <3> QED BY <3>3, IdleIsNotLate, MetGoesOn DEF Joining
  <2> QED BY <1>1, <2>1, <2>2, <2>3, MetOnTheWay DEF Step
<1>2. ASSUME NEW t \in Txs, NEW d \in Donors,
             \/ BeginRefresh(t, d)
             \/ \E n \in {0, 1} : BeginFact(t, d, n)
             \/ \E n \in {-1, 1} : ApplyReferralDelta(t, d, n)
             \/ \E e \in Emails : completeEmailChange(t, d, e) \/ \E key \in Keys : lockGuest(t, d, e, key)
      PROVE  Met'
  BY <1>2, MetWhenOpened
<1>3. ASSUME NEW d \in Donors, Tick(d) \/ \E c \in Codes : Grant(d, c) \/ Revoke(d, c) PROVE Met'
  BY <1>3 DEF Tick, Grant, Revoke, Met
<1>4. ASSUME NEW t \in Txs, NEW s \in [Counted -> Thresholds], SetRules(t, s) PROVE Met'
  <2>1. PICK i \in Tx : i = Idle /\ ~i.late
    BY IdleTyped, IdleIsNotLate
  <2>2. PICK r : r = [i EXCEPT !.kind = "rules", !.pc = "schedule", !.rules = s]
    OBVIOUS
  <2>3. ~r.late /\ r.kind = "rules"
    BY <2>1, <2>2 DEF Tx
  <2>4. tx' = [tx EXCEPT ![t] = r] /\ unseen' = unseen
    BY <1>4, <2>1, <2>2 DEF SetRules, Open
  <2> QED BY <2>3, <2>4, MetGoesOn DEF Joining
<1>5. ASSUME NEW t \in Txs, NEW e \in Emails, ImportFoundingClaims(t, e) PROVE Met'
  <2>1. PICK i \in Tx : i = Idle /\ ~i.late
    BY IdleTyped, IdleIsNotLate
  <2>2. PICK r : r = [i EXCEPT !.kind = "import", !.pc = "grant", !.email = e]
    OBVIOUS
  <2>3. ~r.late /\ r.kind = "import"
    BY <2>1, <2>2 DEF Tx
  <2>4. tx' = [tx EXCEPT ![t] = r] /\ unseen' = unseen
    BY <1>5, <2>1, <2>2 DEF ImportFoundingClaims, Open
  <2> QED BY <2>3, <2>4, MetGoesOn DEF Joining
<1>6. CASE UNCHANGED vars
  BY <1>6 DEF vars, Met
<1> QED BY <1>1, <1>2, <1>3, <1>4, <1>5, <1>6 DEF Next

\* Where every sign-up passes the key, and no import has looked for the donor of an
\* address while a transaction that brings one there has looked for the claim,
\* every donor of an imported address is a Founding Donor, whichever of the two
\* came first: what the domain document promises, with nobody left out
\* (GrantFoundingClaim, ImportFoundingClaims).
THEOREM WaitlistIsFoundingApart ==
  ASSUME RecognitionAssumption, Keys = {TRUE}
  PROVE  Spec /\ []~Overlapping => []WaitlistIsFounding
<1>1. Init => Met
  BY DEF Init, Met, Idle, Joining
<1>2. RecognitionInv /\ Met /\ ~Overlapping /\ [Next]_vars => Met'
  BY MetStep
<1>3. Met /\ ClaimsGranted => WaitlistIsFounding
  BY DEF Met, ClaimsGranted, WaitlistIsFounding
<1> QED BY <1>1, <1>2, <1>3, AwardsInvariant, ClaimsMeetOrAreMissed, PTL DEF Spec

\* The counters of the bounded inputs.
Spent == [writes : Nat, rules : Nat, staff : Nat]

LEMMA SpentStep ==
  ASSUME [Next]_vars
  PROVE  \/ spent' = spent
         \/ spent' = [spent EXCEPT !.writes = @ + 1]
         \/ spent' = [spent EXCEPT !.rules = @ + 1]
         \/ spent' = [spent EXCEPT !.staff = @ + 1]
<1>1. CASE \E t \in Txs : Step(t)
  BY <1>1 DEF Step, projectFacts, signalsFor, recognitionRules, earnBadge, CommitAwards, RefreshRecognitionSchedule,
             CommitRules, ImportGrants, CommitImport, ClaimGrant, CommitDonor
<1>2. CASE \E t \in Txs, d \in Donors :
             \/ BeginRefresh(t, d)
             \/ \E n \in {0, 1} : BeginFact(t, d, n)
             \/ \E n \in {-1, 1} : ApplyReferralDelta(t, d, n)
             \/ \E e \in Emails : completeEmailChange(t, d, e) \/ \E key \in Keys : lockGuest(t, d, e, key)
  BY <1>2 DEF BeginRefresh, BeginFact, ApplyReferralDelta, completeEmailChange, lockGuest, Write
<1>3. CASE \E d \in Donors : Tick(d) \/ \E c \in Codes : Grant(d, c) \/ Revoke(d, c)
  BY <1>3 DEF Tick, Grant, Revoke, Staff
<1>4. CASE \E t \in Txs : (\E r \in [Counted -> Thresholds] : SetRules(t, r)) \/ \E e \in Emails : ImportFoundingClaims(t, e)
  BY <1>4 DEF SetRules, ImportFoundingClaims
<1>5. CASE UNCHANGED vars
  BY <1>5 DEF vars
<1> QED BY <1>1, <1>2, <1>3, <1>4, <1>5 DEF Next

\* What a step does to a badge.
LEMMA BadgeStep ==
  ASSUME RecognitionInv, spent \in Spent, [Next]_vars, NEW d \in Donors, NEW c \in Codes
  PROVE  \/ badge'[d][c] = badge[d][c]
         \/ ~badge[d][c].held
         \/ badge'[d][c] = RevokeBadge(badge[d][c])
         \/ badge'[d][c] = GrantBadge(badge[d][c]) /\ spent'.staff = spent.staff + 1
<1>1. badge \in [Donors -> [Codes -> Badge]]
  BY DEF RecognitionInv, Shape
<1>2. ASSUME NEW t \in Txs, CommitAwards(t) PROVE badge[d][c].held => badge'[d][c] = badge[d][c]
  <2>1. badge' = [badge EXCEPT ![tx[t].donor] = [k \in Codes |-> IF k \in tx[t].made THEN EarnBadge(@[k]) ELSE @[k]]]
    BY <1>2 DEF CommitAwards
  <2> DEFINE h == [k \in Codes |-> IF k \in tx[t].made THEN EarnBadge(badge[tx[t].donor][k])
                                   ELSE badge[tx[t].donor][k]]
  <2>2. badge' = [badge EXCEPT ![tx[t].donor] = h]
    BY <2>1
  <2>3. tx[t].donor = d => badge'[d] = h
    BY <1>1, <2>2
  <2>4. tx[t].donor # d => badge'[d] = badge[d]
    BY <1>1, <2>2
  <2>5. badge[d][c].held /\ tx[t].donor = d => h[c] = badge[d][c]
    BY DEF EarnBadge
  <2> QED BY <2>3, <2>4, <2>5
<1>3. ASSUME NEW x \in Donors, NEW k \in Codes, Grant(x, k) \/ Revoke(x, k), NEW b, badge' = [badge EXCEPT ![x][k] = b]
      PROVE  badge'[d][c] = IF x = d /\ k = c THEN b ELSE badge[d][c]
  BY <1>1, <1>3
<1>4. ASSUME NEW x \in Donors, NEW k \in Codes, Grant(x, k)
      PROVE  badge'[d][c] = badge[d][c] \/ (badge'[d][c] = GrantBadge(badge[d][c]) /\ spent'.staff = spent.staff + 1)
  <2>1. badge' = [badge EXCEPT ![x][k] = GrantBadge(badge[x][k])]
    BY <1>4 DEF Grant
  <2>2. spent' = [spent EXCEPT !.staff = spent.staff + 1]
    BY <1>4 DEF Grant, Staff
  <2>3. spent'.staff = spent.staff + 1
    BY <2>2 DEF Spent
  <2> QED BY <1>3, <1>4, <2>1, <2>3
<1>5. ASSUME NEW x \in Donors, NEW k \in Codes, Revoke(x, k)
      PROVE  badge'[d][c] = badge[d][c] \/ badge'[d][c] = RevokeBadge(badge[d][c])
  <2>1. badge' = [badge EXCEPT ![x][k] = RevokeBadge(badge[x][k])]
    BY <1>5 DEF Revoke
  <2> QED BY <1>3, <1>5, <2>1
<1>6. ASSUME NEW t \in Txs, Step(t) PROVE badge' = badge \/ CommitAwards(t)
  BY <1>6 DEF Step, projectFacts, signalsFor, recognitionRules, earnBadge, RefreshRecognitionSchedule, CommitRules,
              ImportGrants, CommitImport, ClaimGrant, CommitDonor
<1>7. ASSUME NEW t \in Txs, NEW x \in Donors,
             \/ BeginRefresh(t, x)
             \/ \E n \in {0, 1} : BeginFact(t, x, n)
             \/ \E n \in {-1, 1} : ApplyReferralDelta(t, x, n)
             \/ \E e \in Emails : completeEmailChange(t, x, e) \/ \E key \in Keys : lockGuest(t, x, e, key)
      PROVE  badge' = badge
  BY <1>7 DEF BeginRefresh, BeginFact, ApplyReferralDelta, completeEmailChange, lockGuest
<1>8. ASSUME NEW x \in Donors, Tick(x) PROVE badge' = badge
  BY <1>8 DEF Tick
<1>9. ASSUME NEW t \in Txs,
             (\E r \in [Counted -> Thresholds] : SetRules(t, r)) \/ \E e \in Emails : ImportFoundingClaims(t, e)
      PROVE  badge' = badge
  BY <1>9 DEF SetRules, ImportFoundingClaims
<1>10. CASE UNCHANGED vars
  BY <1>10 DEF vars
<1> QED BY <1>2, <1>4, <1>5, <1>6, <1>7, <1>8, <1>9, <1>10 DEF Next

\* A badge is not lost, and one that staff revoked comes back by staff only
\* (earnBadge, RevokeBadge).
THEOREM RevocationsStay == ASSUME RecognitionAssumption PROVE Spec => RevokedStays
<1>1. Init => spent \in Spent
  BY DEF Init, Spent
<1>2. spent \in Spent /\ [Next]_vars => (spent \in Spent)'
  <2> SUFFICES ASSUME NEW s \in Spent, s = spent, [Next]_vars PROVE spent' \in Spent
    OBVIOUS
  <2>1. \/ spent' = s \/ spent' = [s EXCEPT !.writes = @ + 1] \/ spent' = [s EXCEPT !.rules = @ + 1]
        \/ spent' = [s EXCEPT !.staff = @ + 1]
    BY SpentStep
  <2> QED BY <2>1 DEF Spent
<1> DEFINE Stays == \A d \in Donors, c \in Codes :
                      /\ badge[d][c].held => badge'[d][c].held
                      /\ badge[d][c].revoked /\ ~badge'[d][c].revoked => spent'.staff = spent.staff + 1
<1>3. RecognitionInv /\ spent \in Spent /\ [Next]_vars => Stays
  <2> SUFFICES ASSUME RecognitionInv, spent \in Spent, [Next]_vars, NEW d \in Donors, NEW c \in Codes
               PROVE  /\ badge[d][c].held => badge'[d][c].held
                      /\ badge[d][c].revoked /\ ~badge'[d][c].revoked => spent'.staff = spent.staff + 1
    OBVIOUS
  <2>1. PICK b \in Badge : b = badge[d][c] /\ BadgeOk(b)
    BY DEF RecognitionInv, Shape
  <2>2. ~b.held => ~b.revoked
    BY <2>1 DEF BadgeOk
  <2>3. RevokeBadge(b).held = b.held /\ (b.revoked => RevokeBadge(b).revoked)
    <3>1. PICK g \in BOOLEAN : g = (b.revoked \/ b.held)
      OBVIOUS
    <3>2. RevokeBadge(b) = [b EXCEPT !.revoked = g]
      BY <3>1 DEF RevokeBadge
    <3> QED BY <3>1, <3>2 DEF Badge, Sources
  <2>4. b.held => GrantBadge(b).held
    BY DEF GrantBadge, Badge, Sources
  <2> QED BY <2>1, <2>2, <2>3, <2>4, BadgeStep
<1>4. Spec => []RecognitionInv
  BY AwardsInvariant
<1> QED BY <1>1, <1>2, <1>3, <1>4, PTL DEF Spec, RevokedStays
=============================================================================
