-------------------------------- MODULE Teams --------------------------------
(***************************************************************************)
(* Employee giving (internal/store/employee.go, team_months.go and the     *)
(* company codes of donor.go): a donor is linked to the employer whose     *)
(* code they bring, joins one of its teams, the worker closes each month   *)
(* and awards the winning team, and staff keep the ledger of matching      *)
(* payments.                                                               *)
(*                                                                         *)
(* A donor's own writes are serialized by the donor lock and are one step. *)
(* The worker's and the ledger's transactions take one step per statement, *)
(* each reading what others have committed. Matching is for one year.      *)
(***************************************************************************)
EXTENDS Integers, FiniteSets, FiniteSetsExt

CONSTANTS
  Donors,
  Partners,          \* numbered, in the order of their ids
  Names,             \* team names, numbered in their order
  Visitors,          \* app installations and browsers that captured a code
  Workers,           \* projection workers
  Staff, Requests,   \* staff sessions, and the ids of payment requests
  Minimum,           \* minimumGroup
  Batch,             \* teamMonthBatch
  Pledges, Terms, Amounts, Gifts,  \* monthly gifts, match terms, payments, each donor's net gifts in the year
  MaxInt,            \* the largest integer of the amounts' width
  MaxMonth, MaxMoves \* bounds: months, and donors' changes

TeamsAssumption ==
  /\ IsFiniteSet(Donors)
  /\ {Minimum, Batch} \subseteq Nat \ {0} /\ {MaxInt, MaxMonth, MaxMoves} \subseteq Nat
  /\ Partners \subseteq Nat \ {0} /\ Names \subseteq Nat \ {0} /\ Pledges \subseteq Nat /\ Gifts \in [Donors -> 0..MaxInt]
  /\ Amounts \subseteq 1..MaxInt /\ Terms \subseteq [rate : Nat, cap : 0..MaxInt]

None == 0
NoTeam == <<None, None>>

VARIABLES
  approved,   \* partners approved, whose company codes are known
  touch,      \* donor_company_touches: the code each visitor last captured, until it expires
  deleted,    \* donors whose account is gone
  code,       \* donors.company_code
  link,       \* donor_partner_employees: employer and team
  teams,      \* donor_partner_teams
  pledge,     \* the projected active monthly gift
  month,      \* the current calendar month
  months,     \* donor_team_months closed: the winner, and (history) its counted members who stayed
  wt,         \* donors holding Winning Team
  awarded,    \* history: who was awarded for which team and month
  work,       \* the workers' transactions
  terms,      \* each partner's match terms
  payments,   \* donor_partner_match_payments
  audits,     \* history: audit entries written for each request
  answered,   \* history: payment requests answered with success
  status,     \* history: the last matching view of each partner
  matched,    \* history: partners whose match counted the donor
  entry,      \* the staff sessions' transactions
  moves

donorVars == <<approved, touch, deleted, code, link, teams, pledge, moves>>
monthVars == <<month, months, wt, awarded, work>>
ledgerVars == <<terms, payments, audits, answered, status, matched, entry>>
vars == <<donorVars, monthVars, ledgerVars>>

Idle == [pc |-> "idle", month |-> 0, todo |-> {}, partner |-> None, won |-> [p \in Partners |-> NoTeam],
         members |-> [p \in Partners |-> {}], closed |-> {}, earned |-> {}]
NoEntry == [pc |-> "idle", request |-> "none", partner |-> None, amount |-> 0, gifts |-> 0, counted |-> {},
            terms |-> [rate |-> 0, cap |-> 0]]
NoPayment == [partner |-> None, amount |-> 0]
NoStatus == [gifts |-> 0, owed |-> 0, paid |-> 0, outstanding |-> 0, rate |-> 0, cap |-> 0]
Unclosed == [closed |-> FALSE, winner |-> NoTeam, members |-> {}]

Init ==
  /\ approved \in SUBSET Partners
  /\ touch = [v \in Visitors |-> None] /\ deleted = {} /\ code = [d \in Donors |-> None]
  /\ link = [d \in Donors |-> [partner |-> None, team |-> NoTeam]] /\ teams = {}
  /\ pledge \in [Donors -> Pledges]
  /\ month = 1 /\ months = [p \in Partners |-> [m \in 0..MaxMonth |-> Unclosed]]
  /\ wt = {} /\ awarded = {} /\ work = [w \in Workers |-> Idle]
  /\ terms \in [Partners -> Terms] /\ payments = [r \in Requests |-> NoPayment] /\ audits = [r \in Requests |-> 0]
  /\ answered = {} /\ status = [p \in Partners |-> NoStatus] /\ matched = [d \in Donors |-> {}]
  /\ entry = [s \in Staff |-> NoEntry] /\ moves = 0

Move == moves < MaxMoves /\ moves' = moves + 1

(***************************************************************************)
(* Donors.                                                                 *)
(***************************************************************************)
Approve(p) ==
  /\ p \notin approved /\ approved' = approved \cup {p}
  /\ UNCHANGED <<touch, deleted, code, link, teams, pledge, moves, monthVars, ledgerVars>>

\* The last code a visitor enters wins; a touch may expire at any time.
CaptureCompanyCode(v, p) ==
  /\ Move /\ touch' = [touch EXCEPT ![v] = p]
  /\ UNCHANGED <<approved, deleted, code, link, teams, pledge, monthVars, ledgerVars>>
Expire(v) ==
  /\ touch[v] # None /\ touch' = [touch EXCEPT ![v] = None]
  /\ UNCHANGED <<approved, deleted, code, link, teams, pledge, moves, monthVars, ledgerVars>>

PartnerByCompanyCode(p) == p \in approved
Rehired(l, p) == [partner |-> p, team |-> NoTeam]  \* mutant
UpsertEmployeeLink(l, p) == IF l.partner = None THEN [partner |-> p, team |-> NoTeam] ELSE l
BindDonorCompanyCode(c, p) == IF c = None THEN p ELSE c

\* A sign-in, or the app's binding, with an unexpired touch.
bindCompanyCode(d, v) ==
  /\ d \notin deleted /\ touch[v] # None /\ Move
  /\ code' = [code EXCEPT ![d] = BindDonorCompanyCode(@, touch[v])]
  /\ link' = [link EXCEPT ![d] = IF PartnerByCompanyCode(touch[v]) THEN UpsertEmployeeLink(@, touch[v]) ELSE @]
  /\ UNCHANGED <<approved, touch, deleted, teams, pledge, monthVars, ledgerVars>>

\* The code of another employer is refused: the transaction is rolled back.
Enroll(d, p) ==
  /\ d \notin deleted /\ PartnerByCompanyCode(p) /\ UpsertEmployeeLink(link[d], p).partner = p /\ Move
  /\ link' = [link EXCEPT ![d] = UpsertEmployeeLink(@, p)]
  /\ UNCHANGED <<approved, touch, deleted, code, teams, pledge, monthVars, ledgerVars>>

\* Found or created; the badge of joining a team is Recognition's.
teamByName(p, n) == teams \cup {<<p, n>>}
JoinTeam(d, n) ==
  LET p == link[d].partner IN
  /\ d \notin deleted /\ p # None /\ Move
  /\ teams' = teamByName(p, n)
  /\ link' = [link EXCEPT ![d].team = <<p, n>>]
  /\ UNCHANGED <<approved, touch, deleted, code, pledge, monthVars, ledgerVars>>

ChangePledge(d, a) ==
  /\ d \notin deleted /\ pledge[d] # a /\ Move
  /\ pledge' = [pledge EXCEPT ![d] = a]
  /\ UNCHANGED <<approved, touch, deleted, code, link, teams, monthVars, ledgerVars>>

DeleteEmployeeLink(d) ==
  /\ d \notin deleted /\ Move
  /\ deleted' = deleted \cup {d} /\ code' = [code EXCEPT ![d] = None]
  /\ link' = [link EXCEPT ![d] = [partner |-> None, team |-> NoTeam]]
  /\ UNCHANGED <<approved, touch, teams, pledge, monthVars, ledgerVars>>

(***************************************************************************)
(* Standings.                                                              *)
(***************************************************************************)
Members(team) == {d \in Donors : link[d].team = team}
Annualized(team) == 12 * MapThenSumSet(LAMBDA d : pledge[d], Members(team))
ActiveGivers(team) == Cardinality({d \in Members(team) : pledge[d] > 0})
Ranked(p) == {t \in {link[d].team : d \in Donors} : t[1] = p /\ Cardinality(Members(t)) >= Minimum}
PerMember(team) == Annualized(team) \div Cardinality(Members(team))

\* The order of the displayed leaderboard: annualized giving, then active givers, then the name.
LeaderboardBefore(t, u) ==
  \/ Annualized(t) > Annualized(u)
  \/ Annualized(t) = Annualized(u) /\ ActiveGivers(t) > ActiveGivers(u)
  \/ Annualized(t) = Annualized(u) /\ ActiveGivers(t) = ActiveGivers(u) /\ t[2] < u[2]
TeamLeaderboard(p) == {t \in Ranked(p) : \A u \in Ranked(p) \ {t} : LeaderboardBefore(t, u)}  \* its first row

RankOne(p, t) ==
  \A u \in Ranked(p) \ {t} :
    LET key(x) == <<Annualized(x), ActiveGivers(x), -x[2]>> IN
    \E i \in 1..3 : key(t)[i] > key(u)[i] /\ \A j \in 1..(i - 1) : key(t)[j] = key(u)[j]
Winners(p) == {t \in Ranked(p) : RankOne(p, t) /\ PerMember(t) # 0}

(***************************************************************************)
(* The month's close: one transaction for a batch of partners.             *)
(***************************************************************************)
Due(m) == {p \in approved : ~months[p][m].closed /\ \E d \in Donors : link[d].partner = p /\ link[d].team # NoTeam}
FirstFew(S) == {p \in S : Cardinality({q \in S : q < p}) < Batch}

CloseDue(w) ==
  /\ work[w].pc = "idle" /\ month > 1 /\ Due(month - 1) # {}
  /\ work' = [work EXCEPT ![w] = [Idle EXCEPT !.pc = "close", !.month = month - 1, !.todo = FirstFew(Due(month - 1))]]
  /\ UNCHANGED <<month, months, wt, awarded, donorVars, ledgerVars>>

\* The insert of the month waits for another worker's; a month that is closed is skipped.
CloseTeamMonth(p, m) == ~months[p][m].closed

closeTeamMonth(w) ==
  LET r == work[w]
      p == Min(r.todo) IN
  /\ r.pc = "close" /\ r.todo # {}
  /\ \A v \in Workers \ {w} : ~(work[v].month = r.month /\ p \in work[v].closed)
  /\ work' = [work EXCEPT ![w] = IF CloseTeamMonth(p, r.month)
                                 THEN [r EXCEPT !.pc = "rank", !.partner = p, !.todo = @ \ {p}, !.closed = @ \cup {p}]
                                 ELSE [r EXCEPT !.todo = @ \ {p}]]
  /\ UNCHANGED <<month, months, wt, awarded, donorVars, ledgerVars>>

RecordTeamMonthStandings(w) ==
  LET r == work[w]
      p == r.partner IN
  /\ r.pc = "rank"
  /\ \/ /\ Winners(p) = {}
        /\ work' = [work EXCEPT ![w].pc = "close"]
     \/ \E t \in Winners(p) :
          work' = [work EXCEPT ![w] = [r EXCEPT !.pc = "award", !.won[p] = t, !.members[p] = Members(t)]]
  /\ UNCHANGED <<month, months, wt, awarded, donorVars, ledgerVars>>

GivingMembers(team) == {d \in Members(team) : pledge[d] > 0}  \* mutant
TeamMembers(team) == Members(team)

AwardTeam(w) ==
  LET r == work[w]
      t == r.won[r.partner] IN
  /\ r.pc = "award"
  /\ work' = [work EXCEPT ![w] = [r EXCEPT !.pc = "close", !.members[r.partner] = @ \cap Members(t),
                                            !.earned = @ \cup {[donor |-> d, team |-> t, month |-> r.month] : d \in TeamMembers(t)}]]
  /\ UNCHANGED <<month, months, wt, awarded, donorVars, ledgerVars>>

CommitMonth(w) ==
  LET r == work[w] IN
  /\ r.pc = "close" /\ r.todo = {}
  /\ months' = [p \in Partners |-> [months[p] EXCEPT ![r.month] =
                  IF p \in r.closed THEN [closed |-> TRUE, winner |-> r.won[p], members |-> r.members[p]] ELSE @]]
  /\ wt' = wt \cup {a.donor : a \in r.earned}
  /\ awarded' = awarded \cup r.earned
  /\ work' = [work EXCEPT ![w] = Idle]
  /\ UNCHANGED <<month, donorVars, ledgerVars>>

\* The worker dies, or its step runs out of time: nothing of it is kept.
Crash(w) ==
  /\ work[w].pc # "idle" /\ Move
  /\ work' = [work EXCEPT ![w] = Idle]
  /\ UNCHANGED <<month, months, wt, awarded, approved, touch, deleted, code, link, teams, pledge, ledgerVars>>

\* A month ends. The workers' steps are far shorter than a month.
MonthEnds ==
  /\ month < MaxMonth /\ \A w \in Workers : work[w].pc = "idle"
  /\ month = 1 \/ Due(month - 1) = {}
  /\ month' = month + 1
  /\ UNCHANGED <<months, wt, awarded, work, donorVars, ledgerVars>>

(***************************************************************************)
(* The matching ledger.                                                    *)
(***************************************************************************)
SetTerms(p, t) ==
  /\ p \in approved /\ terms[p] # t /\ Move
  /\ terms' = [terms EXCEPT ![p] = t]
  /\ UNCHANGED <<payments, audits, answered, status, matched, entry, approved, touch, deleted, code, link, teams, pledge, monthVars>>

TooLarge == -1
matchOwed(gifts, t) ==
  LET owed == (gifts * t.rate) \div 10000 IN
  IF t.cap > 0 /\ owed > t.cap THEN t.cap ELSE IF owed > MaxInt THEN TooLarge ELSE owed

LinkedEmployees(p) == {d \in Donors : link[d].partner = p}
LinkedEmployeeGiftsInYear(p) == MapThenSumSet(LAMBDA d : Gifts[d], LinkedEmployees(p))
MatchPaymentsInYear(p) == MapThenSumSet(LAMBDA r : payments[r].amount, {r \in Requests : payments[r].partner = p})

\* Match: the terms and the gifts are read, then the payments.
MatchGifts(s, p) ==
  /\ entry[s].pc = "idle" /\ p \in approved
  /\ entry' = [entry EXCEPT ![s] = [NoEntry EXCEPT !.pc = "owed", !.partner = p, !.terms = terms[p],
                                              !.gifts = LinkedEmployeeGiftsInYear(p), !.counted = LinkedEmployees(p)]]
  /\ UNCHANGED <<terms, payments, audits, answered, status, matched, donorVars, monthVars>>

Match(s) ==
  LET p == entry[s].partner
      owed == matchOwed(entry[s].gifts, entry[s].terms)
      paid == MatchPaymentsInYear(p) IN
  /\ entry[s].pc = "owed"
  /\ status' = IF owed = TooLarge THEN status
               ELSE [status EXCEPT ![p] = [gifts |-> entry[s].gifts, owed |-> owed, paid |-> paid,
                                           outstanding |-> IF owed > paid THEN owed - paid ELSE 0,
                                           rate |-> entry[s].terms.rate, cap |-> entry[s].terms.cap]]
  /\ matched' = [d \in Donors |-> IF d \in entry[s].counted THEN matched[d] \cup {p} ELSE matched[d]]
  /\ entry' = [entry EXCEPT ![s] = NoEntry]
  /\ UNCHANGED <<terms, payments, audits, answered, donorVars, monthVars>>

\* RecordMatchPayment. The insert waits for another one of the same request.
RecordMatchPayment(s, r, p, a) ==
  /\ entry[s].pc = "idle" /\ p \in approved
  /\ \A u \in Staff : entry[u].pc = "paid" => entry[u].request # r
  /\ entry' = [entry EXCEPT ![s] = [NoEntry EXCEPT !.pc = IF payments[r] = NoPayment THEN "paid" ELSE "compare",
                                                   !.request = r, !.partner = p, !.amount = a]]
  /\ UNCHANGED <<terms, payments, audits, answered, status, matched, donorVars, monthVars>>

Asked(e) == [request |-> e.request, partner |-> e.partner, amount |-> e.amount]

\* The insert took place: the audit entry, and the answer, which may be lost.
InsertMatchPayment(s) ==
  LET e == entry[s] IN
  /\ e.pc = "paid"
  /\ payments' = [payments EXCEPT ![e.request] = [partner |-> e.partner, amount |-> e.amount]]
  /\ audits' = [audits EXCEPT ![e.request] = @ + 1]
  /\ answered' \in {answered, answered \cup {Asked(e)}}
  /\ entry' = [entry EXCEPT ![s] = NoEntry]
  /\ UNCHANGED <<terms, status, matched, donorVars, monthVars>>

MatchPaymentMatches(e) == payments[e.request] = [partner |-> e.partner, amount |-> e.amount]

\* A replay: success if it is the same payment, refused with a conflict if not.
Replay(s) ==
  LET e == entry[s] IN
  /\ e.pc = "compare"
  /\ answered' = IF MatchPaymentMatches(e) THEN answered \cup {Asked(e)} ELSE answered
  /\ entry' = [entry EXCEPT ![s] = NoEntry]
  /\ UNCHANGED <<terms, payments, audits, status, matched, donorVars, monthVars>>

(***************************************************************************)
(* Behaviours.                                                             *)
(***************************************************************************)
Close(w) == CloseDue(w) \/ closeTeamMonth(w) \/ RecordTeamMonthStandings(w) \/ AwardTeam(w) \/ CommitMonth(w)

Next ==
  \/ \E p \in Partners : Approve(p) \/ \E t \in Terms : SetTerms(p, t)
  \/ \E v \in Visitors : Expire(v) \/ \E p \in Partners : CaptureCompanyCode(v, p)
  \/ \E d \in Donors :
       \/ \E v \in Visitors : bindCompanyCode(d, v)
       \/ \E p \in Partners : Enroll(d, p)
       \/ \E n \in Names : JoinTeam(d, n)
       \/ \E a \in Pledges : ChangePledge(d, a)
       \/ DeleteEmployeeLink(d)
  \/ \E w \in Workers : Close(w) \/ Crash(w)
  \/ MonthEnds
  \/ \E s \in Staff :
       \/ \E p \in Partners : MatchGifts(s, p) \/ \E r \in Requests, a \in Amounts : RecordMatchPayment(s, r, p, a)
       \/ Match(s) \/ InsertMatchPayment(s) \/ Replay(s)

Spec == Init /\ [][Next]_vars

(***************************************************************************)
(* Properties.                                                             *)
(***************************************************************************)

\* Shapes; a team belongs to its members' employer and exists.
TypeOK ==
  /\ approved \subseteq Partners /\ touch \in [Visitors -> Partners \cup {None}] /\ deleted \subseteq Donors
  /\ code \in [Donors -> Partners \cup {None}] /\ pledge \in [Donors -> Pledges] /\ month \in 1..MaxMonth
  /\ \A d \in Donors : link[d].team # NoTeam => link[d].team \in teams /\ link[d].team[1] = link[d].partner
  /\ \A d \in Donors : link[d].partner # None => link[d].partner \in approved /\ d \notin deleted

\* Everyone awarded for a month was awarded for the winner its company has on
\* record, whichever workers closed it and however they overlapped.
OneWinningTeam == \A a \in awarded : months[a.team[1]][a.month].closed /\ months[a.team[1]][a.month].winner = a.team

\* The team the close ranks first is the first row of the displayed leaderboard
\* at that moment, and gave something; and that row wins if one in twelve of its
\* members gives. (What a member gives on average is rounded down: a larger team
\* that gives less than a unit per member wins nothing.)
WinnerHeadsLeaderboard ==
  \A w \in Workers : work[w].pc = "rank" =>
    LET p == work[w].partner IN
    /\ Winners(p) \subseteq {t \in TeamLeaderboard(p) : ActiveGivers(t) > 0}
    /\ \A t \in TeamLeaderboard(p) :
         ActiveGivers(t) > 0 /\ 12 * ActiveGivers(t) >= Cardinality(Members(t)) => t \in Winners(p)

\* A member of the winning team whose giving was counted, and who stayed until
\* the badges were given out, holds Winning Team.
WinnersAwarded ==
  \A p \in Partners, m \in 0..MaxMonth : months[p][m].members \subseteq wt

\* A donor's gifts are matched by one employer only: the link never moves.
MatchedByOneEmployer == \A d \in Donors : Cardinality(matched[d]) <= 1

\* The match owed is the largest amount within the rate and, if there is one,
\* the cap.
OwedIsLargest ==
  \A p \in Partners :
    LET s == status[p]
        within(n) == n * 10000 <= s.gifts * s.rate /\ (s.cap > 0 => n <= s.cap) IN
    s # NoStatus => within(s.owed) /\ ~within(s.owed + 1)

\* A payment request answered with success is on the ledger with the partner
\* and amount it named, however often and by whomever it was sent; each payment
\* was audited once.
AnsweredIsPaid ==
  /\ \A e \in answered : payments[e.request] = [partner |-> e.partner, amount |-> e.amount]
  /\ \A r \in Requests : audits[r] = IF payments[r] = NoPayment THEN 0 ELSE 1
==============================================================================
