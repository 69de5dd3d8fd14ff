----------------------------- MODULE Recognition -----------------------------
(***************************************************************************)
(* Badges, the rules that earn them and the imported Founding Donor claims *)
(* (internal/store/badges.go, recognition_rules.go, founding_claims.go and *)
(* the callers of awardBadges and lockGuest).                              *)
(*                                                                         *)
(* Three badges stand for the catalog: "F" is earned by a projected fact,  *)
(* "REF" by a projected count that another donor's transaction also moves, *)
(* "SU" by a count kept outside the projection. A transaction's writes are *)
(* applied when it commits; until then it holds the rows it wrote, and     *)
(* each of its statements reads what others have committed.                *)
(***************************************************************************)
EXTENDS Integers, FiniteSets

CONSTANTS
  Donors, Known,     \* donors, and those that exist at the start
  Emails,            \* addresses on the website waitlist
  Txs,               \* database transactions
  Devices,           \* donors with a live app device
  Keys,              \* whether a sign-up passes the claim key: {TRUE}, or {TRUE, FALSE}
  Thresholds,        \* the thresholds staff may choose
  MaxRefs, MaxCheckins, MaxWrites, MaxRules, MaxStaff  \* bounds

RecognitionAssumption ==
  /\ Known \subseteq Donors /\ Devices \subseteq Donors /\ Keys \subseteq BOOLEAN
  /\ Thresholds \subseteq Nat \ {0} /\ Thresholds # {}
  /\ {MaxRefs, MaxCheckins, MaxWrites, MaxRules, MaxStaff} \subseteq Nat
  /\ "none" \notin Donors \cup Emails \cup Txs

VARIABLES
  email,      \* the address of each donor
  claims,     \* donor_founding_claims
  grants,     \* donor_founding_grants
  proj,       \* the projected signals of each donor, and whether a refresh is due
  checkins,   \* events each donor checked in to
  rules,      \* donor_badge_rules
  badge,      \* donor_badges
  pushes,     \* badge-earned notifications queued
  tx,         \* open transactions
  unseen,     \* history: donors and addresses whose sign-up and import did not see each other
  spent       \* how often the bounded inputs happened

vars == <<email, claims, grants, proj, checkins, rules, badge, pushes, tx, unseen, spent>>

Codes == {"F", "REF", "SU"}
Counted == {"REF", "SU"}
NoEmail == "none"
Elsewhere == "elsewhere"   \* an address that was never on the waitlist
\* A badge row that is not there; `first` is history, what recorded the row.
NoBadge == [held |-> FALSE, by |-> "nobody", revoked |-> FALSE, first |-> "nobody"]
Idle == [kind |-> "none", pc |-> "idle", donor |-> "none", email |-> NoEmail, key |-> FALSE, rows |-> {}, founding |-> FALSE,
         refs |-> 0, checkins |-> 0, rules |-> [c \in Counted |-> 1], signals |-> [c \in Codes |-> 0], todo |-> {}, made |-> {},
         told |-> {}, granted |-> {}, late |-> FALSE]

Init ==
  /\ email = [d \in Donors |-> IF d \in Known THEN Elsewhere ELSE NoEmail]
  /\ claims = {} /\ grants = {} /\ pushes = {} /\ unseen = {}
  /\ proj = [d \in Donors |-> [founding |-> FALSE, refs |-> 0, due |-> FALSE]]
  /\ checkins = [d \in Donors |-> 0]
  /\ rules \in [Counted -> Thresholds]
  /\ badge = [d \in Donors |-> [c \in Codes |-> NoBadge]]
  /\ tx = [t \in Txs |-> Idle]
  /\ spent = [writes |-> 0, rules |-> 0, staff |-> 0]

(***************************************************************************)
(* Locks.                                                                  *)
(***************************************************************************)
Locking == {"refresh", "fact", "join", "move"}   \* transactions that hold their donor's lock
Exists(d) == email[d] # NoEmail
Holder(e) == {d \in Donors : email[d] = e}
DonorFree(d) == \A t \in Txs : tx[t].kind \in Locking => tx[t].donor # d
RowFree(t, d) == \A u \in Txs \ {t} : d \notin tx[u].rows
BadgeFree(t, d, c) == \A u \in Txs \ {t} : ~(tx[u].donor = d /\ c \in tx[u].made)
reserveEmailIdentity(e) == \A t \in Txs : tx[t].kind \in {"join", "move"} => tx[t].email # e

Open(t, r) == tx[t].pc = "idle" /\ tx' = [tx EXCEPT ![t] = r]
Write == spent.writes < MaxWrites /\ spent' = [spent EXCEPT !.writes = @ + 1]
Set(t, r) == tx' = [tx EXCEPT ![t] = r]

(***************************************************************************)
(* Facts, and the refresh of a projection.                                 *)
(***************************************************************************)

\* refreshProjection, for a new fact or by the worker when it is due.
BeginRefresh(t, d) ==
  /\ Exists(d) /\ DonorFree(d)
  /\ Open(t, [Idle EXCEPT !.kind = "refresh", !.pc = "project", !.donor = d])
  /\ UNCHANGED <<email, claims, grants, proj, checkins, rules, badge, pushes, unseen, spent>>

\* A check-in, a team, a volunteer opt-in, or with n = 0 the donor's reading of their badges.
BeginFact(t, d, n) ==
  /\ Exists(d) /\ DonorFree(d) /\ checkins[d] + n <= MaxCheckins /\ Write
  /\ Open(t, [Idle EXCEPT !.kind = "fact", !.pc = "signals", !.donor = d, !.checkins = n])
  /\ UNCHANGED <<email, claims, grants, proj, checkins, rules, badge, pushes, unseen>>

FoundingClaimed(d) == d \in grants

\* LockProjection, FoundingClaimed and SaveProjection.
projectFacts(t) ==
  LET d == tx[t].donor IN
  /\ tx[t].pc = "project" /\ RowFree(t, d)
  /\ Set(t, [tx[t] EXCEPT !.pc = "signals", !.rows = {d}, !.founding = proj[d].founding \/ FoundingClaimed(d)])
  /\ UNCHANGED <<email, claims, grants, proj, checkins, rules, badge, pushes, unseen, spent>>

\* A referred donor's transaction moves this donor's count by n, without the donor's lock.
ApplyReferralDelta(t, d, n) ==
  /\ Exists(d) /\ RowFree(t, d) /\ proj[d].refs + n \in 0..MaxRefs /\ Write
  /\ Open(t, [Idle EXCEPT !.kind = "delta", !.pc = "signals", !.donor = d, !.rows = {d}, !.refs = n])
  /\ UNCHANGED <<email, claims, grants, proj, checkins, rules, badge, pushes, unseen>>

Tick(d) ==
  /\ Exists(d) /\ ~proj[d].due
  /\ proj' = [proj EXCEPT ![d].due = TRUE]
  /\ UNCHANGED <<email, claims, grants, checkins, rules, badge, pushes, tx, unseen, spent>>

(***************************************************************************)
(* Awards.                                                                 *)
(***************************************************************************)
Signals(t) ==
  LET d == tx[t].donor
      founding == proj[d].founding \/ tx[t].founding IN
  [c \in Codes |->
     CASE c = "F" -> IF tx[t].kind # "delta" /\ founding THEN 1 ELSE 0
       [] c = "REF" -> proj[d].refs + tx[t].refs
       [] c = "SU" -> IF tx[t].kind = "delta" THEN 0 ELSE checkins[d] + tx[t].checkins]

signalsFor(t) ==
  /\ tx[t].pc = "signals"
  /\ Set(t, [tx[t] EXCEPT !.pc = "rules", !.signals = Signals(t)])
  /\ UNCHANGED <<email, claims, grants, proj, checkins, rules, badge, pushes, unseen, spent>>

ruleEarned(c, n, r) == IF c \in Counted THEN n >= r[c] ELSE n >= 1

recognitionRules(t) ==
  /\ tx[t].pc = "rules"
  /\ Set(t, [tx[t] EXCEPT !.pc = "earn", !.todo = {c \in Codes : ruleEarned(c, tx[t].signals[c], rules)}])
  /\ UNCHANGED <<email, claims, grants, proj, checkins, rules, badge, pushes, unseen, spent>>

EarnBadge(row) == IF row.held THEN row ELSE [held |-> TRUE, by |-> "AUTO", revoked |-> FALSE, first |-> "AUTO"]

IsNew(row) == ~row.held

earnBadge(t, c) ==
  LET d == tx[t].donor
      row == badge[d][c] IN
  /\ tx[t].pc = "earn" /\ c \in tx[t].todo /\ BadgeFree(t, d, c)
  /\ Set(t, [tx[t] EXCEPT !.todo = @ \ {c}, !.made = @ \cup (IF EarnBadge(row) = row THEN {} ELSE {c}),
                          !.told = @ \cup (IF IsNew(row) /\ d \in Devices THEN {c} ELSE {})])
  /\ UNCHANGED <<email, claims, grants, proj, checkins, rules, badge, pushes, unseen, spent>>

CommitAwards(t) ==
  LET d == tx[t].donor
      r == tx[t] IN
  /\ r.pc = "earn" /\ r.todo = {}
  /\ proj' = [proj EXCEPT ![d] = [founding |-> @.founding \/ r.founding, refs |-> @.refs + r.refs,
                                  due |-> @.due /\ r.kind # "refresh"]]
  /\ checkins' = [checkins EXCEPT ![d] = @ + r.checkins]
  /\ badge' = [badge EXCEPT ![d] = [c \in Codes |-> IF c \in r.made THEN EarnBadge(@[c]) ELSE @[c]]]
  /\ pushes' = pushes \cup {<<d, c>> : c \in r.told}
  /\ Set(t, Idle)
  /\ UNCHANGED <<email, claims, grants, rules, unseen, spent>>

(***************************************************************************)
(* Staff: grants, revocations, rules.                                      *)
(***************************************************************************)
\* Whatever the row held, the grant is its source from now on.
GrantBadge(row) == [held |-> TRUE, by |-> "GRANT", revoked |-> FALSE, first |-> IF row.held THEN row.first ELSE "GRANT"]
RevokeBadge(row) == [row EXCEPT !.revoked = @ \/ row.held]
Staff(d) == Exists(d) /\ DonorFree(d) /\ spent.staff < MaxStaff /\ spent' = [spent EXCEPT !.staff = @ + 1]

\* An uncommitted earn of the badge is waited for by the upsert, and not seen by the update.
Grant(d, c) ==
  /\ Staff(d) /\ BadgeFree("none", d, c)
  /\ badge' = [badge EXCEPT ![d][c] = GrantBadge(@)]
  /\ UNCHANGED <<email, claims, grants, proj, checkins, rules, pushes, tx, unseen>>

Revoke(d, c) ==
  /\ Staff(d)
  /\ badge' = [badge EXCEPT ![d][c] = RevokeBadge(@)]
  /\ UNCHANGED <<email, claims, grants, proj, checkins, rules, pushes, tx, unseen>>

\* SetBadgeRule: one change of the rules at a time.
SetRules(t, r) ==
  /\ spent.rules < MaxRules /\ \A u \in Txs : tx[u].kind # "rules"
  /\ Open(t, [Idle EXCEPT !.kind = "rules", !.pc = "schedule", !.rules = r])
  /\ spent' = [spent EXCEPT !.rules = @ + 1]
  /\ UNCHANGED <<email, claims, grants, proj, checkins, rules, badge, pushes, unseen>>

SkipLocked(t) == {d \in Donors : Exists(d) /\ RowFree(t, d)} \ tx[t].rows  \* mutant
\* The rows the schedule has yet to update: it waits for those that are locked.
Unscheduled(t) == {d \in Donors : Exists(d)} \ tx[t].rows

RefreshRecognitionSchedule(t, d) ==
  /\ tx[t].pc = "schedule" /\ d \in Unscheduled(t) /\ RowFree(t, d)
  /\ Set(t, [tx[t] EXCEPT !.rows = @ \cup {d}])
  /\ UNCHANGED <<email, claims, grants, proj, checkins, rules, badge, pushes, unseen, spent>>

CommitRules(t) ==
  /\ tx[t].pc = "schedule" /\ Unscheduled(t) = {}
  /\ rules' = tx[t].rules
  /\ proj' = [d \in Donors |-> [proj[d] EXCEPT !.due = @ \/ d \in tx[t].rows]]
  /\ Set(t, Idle)
  /\ UNCHANGED <<email, claims, grants, checkins, badge, pushes, unseen, spent>>

(***************************************************************************)
(* Founding claims: the import, and the donors who come to an address.     *)
(***************************************************************************)
ImportFoundingClaims(t, e) ==
  /\ \A u \in Txs : tx[u].kind = "import" => tx[u].email # e
  /\ Open(t, [Idle EXCEPT !.kind = "import", !.pc = "grant", !.email = e])
  /\ UNCHANGED <<email, claims, grants, proj, checkins, rules, badge, pushes, unseen, spent>>

GrantFoundingClaimsByEmail(t) == Holder(tx[t].email)

ImportGrants(t) ==
  /\ tx[t].kind = "import" /\ tx[t].pc = "grant"
  /\ Set(t, [tx[t] EXCEPT !.pc = "done", !.granted = GrantFoundingClaimsByEmail(t)])
  /\ UNCHANGED <<email, claims, grants, proj, checkins, rules, badge, pushes, unseen, spent>>

\* A sign-up or an email change that has looked for the claim and has not committed misses it.
CommitImport(t) ==
  LET e == tx[t].email IN
  /\ tx[t].kind = "import" /\ tx[t].pc = "done"
  /\ claims' = claims \cup {e} /\ grants' = grants \cup tx[t].granted
  /\ tx' = [u \in Txs |-> IF u = t THEN Idle
                          ELSE [tx[u] EXCEPT !.late = @ \/ (tx[u].kind \in {"join", "move"} /\ tx[u].pc = "done" /\ tx[u].email = e)]]
  /\ UNCHANGED <<email, proj, checkins, rules, badge, pushes, unseen, spent>>

\* lockGuest: the donor of the address, created if there is none. Only the OIDC
\* sign-up passes no key, and it looks for a donor first.
lockGuest(t, d, e, key) ==
  /\ reserveEmailIdentity(e) /\ DonorFree(d) /\ Write
  /\ \/ Holder(e) = {} /\ email[d] = NoEmail
     \/ Holder(e) = {d} /\ key
  /\ Open(t, [Idle EXCEPT !.kind = "join", !.pc = "grant", !.donor = d, !.email = e, !.key = key])
  /\ UNCHANGED <<email, claims, grants, proj, checkins, rules, badge, pushes, unseen>>

\* completeEmailChange, with the key.
completeEmailChange(t, d, e) ==
  /\ Exists(d) /\ DonorFree(d) /\ Holder(e) = {} /\ reserveEmailIdentity(e) /\ Write
  /\ Open(t, [Idle EXCEPT !.kind = "move", !.pc = "grant", !.donor = d, !.email = e, !.key = TRUE])
  /\ UNCHANGED <<email, claims, grants, proj, checkins, rules, badge, pushes, unseen>>

GrantFoundingClaim(t) == IF tx[t].key /\ tx[t].email \in claims THEN {tx[t].donor} ELSE {}

ClaimGrant(t) ==
  /\ tx[t].kind \in {"join", "move"} /\ tx[t].pc = "grant"
  /\ Set(t, [tx[t] EXCEPT !.pc = "done", !.granted = GrantFoundingClaim(t)])
  /\ UNCHANGED <<email, claims, grants, proj, checkins, rules, badge, pushes, unseen, spent>>

\* An import that has looked for the address's donor and has not committed misses it;
\* so does a sign-up without the key that finds the address claimed.
CommitDonor(t) ==
  LET d == tx[t].donor
      e == tx[t].email
      missed == \/ ~tx[t].key /\ e \in claims
                \/ tx[t].late
                \/ \E u \in Txs : tx[u].kind = "import" /\ tx[u].pc = "done" /\ tx[u].email = e /\ d \notin tx[u].granted IN
  /\ tx[t].kind \in {"join", "move"} /\ tx[t].pc = "done"
  /\ email' = [email EXCEPT ![d] = e]
  /\ grants' = grants \cup tx[t].granted
  /\ proj' = [proj EXCEPT ![d].due = @ \/ ~Exists(d)]   \* SeedProjection
  /\ unseen' = IF missed THEN unseen \cup {<<d, e>>} ELSE unseen
  /\ Set(t, Idle)
  /\ UNCHANGED <<claims, checkins, rules, badge, pushes, spent>>

(***************************************************************************)
(* Behaviours.                                                             *)
(***************************************************************************)
Step(t) ==
  \/ projectFacts(t) \/ signalsFor(t) \/ recognitionRules(t) \/ (\E c \in Codes : earnBadge(t, c)) \/ CommitAwards(t)
  \/ (\E d \in Donors : RefreshRecognitionSchedule(t, d)) \/ CommitRules(t)
  \/ ImportGrants(t) \/ CommitImport(t) \/ ClaimGrant(t) \/ CommitDonor(t)

Next ==
  \/ \E t \in Txs : Step(t)
  \/ \E t \in Txs, d \in Donors :
       \/ BeginRefresh(t, d)
       \/ \E n \in {0, 1} : BeginFact(t, d, n)
       \/ \E n \in {-1, 1} : ApplyReferralDelta(t, d, n)
       \/ \E e \in Emails : completeEmailChange(t, d, e) \/ \E key \in Keys : lockGuest(t, d, e, key)
  \/ \E d \in Donors : Tick(d) \/ \E c \in Codes : Grant(d, c) \/ Revoke(d, c)
  \/ \E t \in Txs : (\E r \in [Counted -> Thresholds] : SetRules(t, r)) \/ \E e \in Emails : ImportFoundingClaims(t, e)

Spec == Init /\ [][Next]_vars

(***************************************************************************)
(* Properties.                                                             *)
(***************************************************************************)

\* Shapes; a notification was queued only for a donor with a device, and only
\* for a badge that was recorded by earning it: one that staff granted first is
\* not announced when the donor qualifies for it later, and one that staff grant
\* again keeps how it was recorded, though its source becomes the grant.
Sources == {"nobody", "AUTO", "GRANT"}
TypeOK ==
  /\ email \in [Donors -> Emails \cup {NoEmail, Elsewhere}] /\ claims \subseteq Emails /\ grants \subseteq Donors
  /\ proj \in [Donors -> [founding : BOOLEAN, refs : 0..MaxRefs, due : BOOLEAN]]
  /\ checkins \in [Donors -> 0..MaxCheckins] /\ rules \in [Counted -> Thresholds]
  /\ badge \in [Donors -> [Codes -> [held : BOOLEAN, by : Sources, revoked : BOOLEAN, first : Sources]]]
  /\ \A p \in pushes : p[1] \in Devices /\ badge[p[1]][p[2]].first = "AUTO"

Qualifies(d, c) ==
  \/ c = "F" /\ proj[d].founding
  \/ c = "REF" /\ proj[d].refs >= rules["REF"]
  \/ c = "SU" /\ checkins[d] >= rules["SU"]

\* A donor whose projection is not due holds every badge their facts and the
\* rules in force call for (unless staff revoked it): no overlap of a fact, a
\* referral and a change of the rules loses an award.
SettledIsAwarded == \A d \in Donors, c \in Codes : ~proj[d].due /\ Qualifies(d, c) => badge[d][c].held

\* A revoked badge comes back by a staff grant only, and a badge once recorded
\* is never lost (B-2).
RevokedStays ==
  [][\A d \in Donors, c \in Codes :
       /\ badge[d][c].held => badge'[d][c].held
       /\ badge[d][c].revoked /\ ~badge'[d][c].revoked => spent'.staff = spent.staff + 1]_vars

Waits(d, e) == email[d] = e /\ e \in claims /\ d \notin grants

\* A donor who holds a claimed address has the Founding Donor grant, or is one
\* of those whose claim the code loses: they signed up without the key when the
\* address was claimed, or their transaction and the import of the address
\* overlapped so that neither saw the other. Nobody else is left waiting: not a
\* donor whom an import met, before or after, in any number of moves.
ClaimsGranted == \A d \in Donors, e \in Emails : Waits(d, e) => <<d, e>> \in unseen

\* An import and the transaction of a donor with its address have both looked for
\* the other, and neither has committed.
Overlapping ==
  \E t, u \in Txs :
    /\ tx[t].kind = "import" /\ tx[t].pc = "done"
    /\ tx[u].kind \in {"join", "move"} /\ tx[u].pc = "done" /\ tx[u].email = tx[t].email

\* What the domain document says: a donor whose address was imported is a
\* Founding Donor. It holds of behaviours that are never Overlapping, in which
\* every sign-up passes the key.
WaitlistIsFounding == \A d \in Donors, e \in Emails : ~Waits(d, e)
==============================================================================
