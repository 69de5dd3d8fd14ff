----------------------------- MODULE LoginLinks -----------------------------
(***************************************************************************)
(* Emailed sign-in links of one donor: requesting one, the delivery        *)
(* workers, and redeeming it (internal/store/account.go, outbox.go,        *)
(* email.go, passwords.go). Every transaction holds the donor's row, so it *)
(* is one step; between them workers race, stall, die and send again. A    *)
(* queued mail mints one link, which is recorded here with its mail.       *)
(***************************************************************************)
EXTENDS Integers, FiniteSets, FiniteSetsExt

CONSTANTS
  Mails,        \* donor_login_emails, and the links they mint
  Askers,       \* requests for a link in flight
  Redeemers,    \* requests with a proof in flight
  Workers,      \* login email workers
  Minute, Hour, \* one mail a minute, PerHour an hour
  PerHour,
  proofLifetime, deliveryLease, RetryAfter, maxDeliveryAttempts,
  TurnTime,     \* a worker's turn ends before it: the transport times out, no lock is held for long
  Horizon,      \* times after it are not told apart
  MaxTime, MaxDeaths  \* bounds: clock, sends and workers that fail

LoginLinksAssumption ==
  /\ {Minute, Hour, RetryAfter, TurnTime, Horizon, MaxTime, MaxDeaths} \subseteq Nat
  /\ {PerHour, proofLifetime, deliveryLease, maxDeliveryAttempts} \subseteq Nat \ {0}
  /\ TurnTime <= deliveryLease /\ IsFiniteSet(Mails)

VARIABLES
  clock, deaths, donor, mail, ask, redeem, work,
  claims   \* how often the donor signed in by link

vars == <<clock, deaths, donor, mail, ask, redeem, work, claims>>

NoMail == [state |-> "NONE", created |-> 0, at |-> 0, attempts |-> 0, expires |-> 0,
           link |-> "none", minted |-> 0, redeemed |-> 0, sent |-> 0]
Idle == [pc |-> "idle", mail |-> "none", now |-> 0]

(***************************************************************************)
(* Statements.                                                             *)
(***************************************************************************)
At(t) == Min({t, Horizon})
Since(now, span) == {m \in Mails : mail[m].state # "NONE" /\ mail[m].created > now - span}
ByHour(now) == Cardinality(Since(now, Hour)) < PerHour  \* mutant
Allowed(now) == Since(now, Minute) = {} /\ Cardinality(Since(now, Hour)) < PerHour
QueueLoginEmail(m, now) ==
  [mail EXCEPT ![m] = [NoMail EXCEPT !.state = "QUEUED", !.created = now, !.at = now]]
NextLoginEmail(m, now) == mail[m].state = "QUEUED" /\ mail[m].attempts < maxDeliveryAttempts /\ mail[m].at <= now
InsertLoginLink(m, now) == [mail EXCEPT ![m] = [@ EXCEPT !.link = "open", !.expires = now + proofLifetime, !.minted = claims]]
CompleteLoginEmail(m) == [mail EXCEPT ![m].state = "DONE"]
ClaimLoginEmail(m, now) == [mail EXCEPT ![m] = [@ EXCEPT !.attempts = mail[m].attempts + 1, !.at = At(now + deliveryLease)]]
FailLoginEmail(m, now) == IF mail[m].state = "QUEUED" THEN [mail EXCEPT ![m].at = At(now + RetryAfter)] ELSE mail
RedeemLoginLink(m) == mail[m].link = "open" /\ clock < mail[m].expires
ConsumeDonorLinks(table) == [m \in Mails |-> IF table[m].link = "open" THEN [table[m] EXCEPT !.link = "closed"] ELSE table[m]]

(***************************************************************************)
(* Requests. The time of a request for a link is read before it waits for  *)
(* the donor.                                                              *)
(***************************************************************************)
QueueLogin(a) ==
  /\ ask[a] = Idle
  /\ ask' = [ask EXCEPT ![a] = [@ EXCEPT !.pc = "asked", !.now = clock]]
  /\ UNCHANGED <<clock, deaths, donor, mail, redeem, work, claims>>
queueLoginEmail(a) ==
  /\ ask[a].pc = "asked"
  /\ \/ /\ ~donor.disabled /\ Allowed(ask[a].now)
        /\ \E m \in Mails : mail[m].state = "NONE" /\ mail' = QueueLoginEmail(m, ask[a].now)
     \/ (donor.disabled \/ ~Allowed(ask[a].now)) /\ UNCHANGED mail
  /\ ask' = [ask EXCEPT ![a] = Idle]
  /\ UNCHANGED <<clock, deaths, donor, redeem, work, claims>>

(* A proof is looked up first; the link is redeemed once the donor is locked. *)
LoginLink(r, m) ==
  /\ redeem[r] = Idle /\ mail[m].sent > 0
  /\ redeem' = [redeem EXCEPT ![r] = [@ EXCEPT !.pc = "found", !.mail = m]]
  /\ UNCHANGED <<clock, deaths, donor, mail, ask, work, claims>>
claim(r) ==
  LET m == redeem[r].mail
  IN /\ redeem[r].pc = "found"
     /\ \/ /\ ~donor.disabled /\ RedeemLoginLink(m)
           /\ mail' = ConsumeDonorLinks([mail EXCEPT ![m] = [@ EXCEPT !.link = "redeemed", !.redeemed = claims]])
           /\ claims' = claims + 1
           /\ donor' = [donor EXCEPT !.claimed = TRUE]
        \/ (donor.disabled \/ ~RedeemLoginLink(m)) /\ UNCHANGED <<donor, mail, claims>>
     /\ redeem' = [redeem EXCEPT ![r] = Idle]
     /\ UNCHANGED <<clock, deaths, ask, work>>

DeleteAccount ==
  /\ donor.claimed /\ ~donor.disabled
  /\ donor' = [donor EXCEPT !.disabled = TRUE]
  /\ mail' = ConsumeDonorLinks(mail)
  /\ UNCHANGED <<clock, deaths, ask, redeem, work, claims>>

(***************************************************************************)
(* A worker: DeliverNext. Its time is read once, at the start.             *)
(***************************************************************************)
To(w, pc) == work' = [work EXCEPT ![w].pc = pc]
Unminted(m) == mail[m].link = "none"
prepare(w, m) ==
  /\ work[w] = Idle /\ NextLoginEmail(m, clock)
  /\ IF donor.disabled
     THEN mail' = CompleteLoginEmail(m) /\ UNCHANGED work
     ELSE /\ mail' = IF Unminted(m) THEN InsertLoginLink(m, clock) ELSE mail
          /\ work' = [work EXCEPT ![w] = [pc |-> "prepared", mail |-> m, now |-> clock]]
  /\ UNCHANGED <<clock, deaths, donor, ask, redeem, claims>>

claimMail(w) ==
  LET m == work[w].mail
      now == work[w].now
  IN /\ work[w].pc = "prepared"
     /\ \/ /\ ~NextLoginEmail(m, now)
           /\ work' = [work EXCEPT ![w] = Idle] /\ UNCHANGED mail
        \/ /\ NextLoginEmail(m, now) /\ (donor.disabled \/ mail[m].expires <= now)
           /\ mail' = CompleteLoginEmail(m) /\ work' = [work EXCEPT ![w] = Idle]
        \/ /\ NextLoginEmail(m, now) /\ ~donor.disabled /\ now < mail[m].expires
           /\ mail' = ClaimLoginEmail(m, now) /\ To(w, "sending")
     /\ UNCHANGED <<clock, deaths, donor, ask, redeem, claims>>

(* The transport takes the message, or refuses it, before its timeout. *)
Send(w) ==
  /\ work[w].pc = "sending"
  /\ mail' = [mail EXCEPT ![work[w].mail].sent = @ + 1]
  /\ To(w, "sent")
  /\ UNCHANGED <<clock, deaths, donor, ask, redeem, claims>>
Refused(w) ==
  /\ work[w].pc = "sending" /\ deaths < MaxDeaths
  /\ deaths' = deaths + 1
  /\ mail' = FailLoginEmail(work[w].mail, work[w].now)
  /\ work' = [work EXCEPT ![w] = Idle]
  /\ UNCHANGED <<clock, donor, ask, redeem, claims>>
Delivered(w) ==
  /\ work[w].pc = "sent"
  /\ mail' = CompleteLoginEmail(work[w].mail)
  /\ work' = [work EXCEPT ![w] = Idle]
  /\ UNCHANGED <<clock, deaths, donor, ask, redeem, claims>>
Die(w) ==
  /\ work[w] # Idle /\ deaths < MaxDeaths
  /\ deaths' = deaths + 1
  /\ work' = [work EXCEPT ![w] = Idle]
  /\ UNCHANGED <<clock, donor, mail, ask, redeem, claims>>

Tick ==
  /\ clock < MaxTime
  /\ \A w \in Workers : work[w] # Idle => clock + 1 <= work[w].now + TurnTime
  /\ clock' = clock + 1
  /\ UNCHANGED <<deaths, donor, mail, ask, redeem, work, claims>>

Init ==
  /\ clock = 0 /\ deaths = 0 /\ claims = 0
  /\ donor = [disabled |-> FALSE, claimed |-> FALSE]
  /\ mail = [m \in Mails |-> NoMail]
  /\ ask = [a \in Askers |-> Idle]
  /\ redeem = [r \in Redeemers |-> Idle]
  /\ work = [w \in Workers |-> Idle]

DeliverNext(w) == (\E m \in Mails : prepare(w, m)) \/ claimMail(w) \/ Send(w) \/ Delivered(w)
Next ==
  \/ \E a \in Askers : QueueLogin(a) \/ queueLoginEmail(a)
  \/ \E r \in Redeemers : claim(r) \/ \E m \in Mails : LoginLink(r, m)
  \/ \E w \in Workers : DeliverNext(w) \/ Refused(w) \/ Die(w)
  \/ DeleteAccount \/ Tick

Spec == Init /\ [][Next]_vars

(***************************************************************************)
(* Properties.                                                             *)
(***************************************************************************)

(* The records have their types, and a mail was sent no more often than    *)
(* it was claimed for sending.                                             *)
TypeOK ==
  /\ clock \in 0..MaxTime /\ claims \in 0..Cardinality(Mails)
  /\ \A m \in Mails :
       /\ mail[m].state \in {"NONE", "QUEUED", "DONE"} /\ mail[m].link \in {"none", "open", "redeemed", "closed"}
       /\ mail[m].sent <= mail[m].attempts /\ mail[m].attempts <= maxDeliveryAttempts

(* Signing in by one link closes every other: a link works only if it was  *)
(* minted after the donor last signed in by one, so of the links open at   *)
(* once at most one is ever redeemed (claim).                              *)
OneOfTheOpen == \A m \in Mails : mail[m].link = "redeemed" => mail[m].redeemed = mail[m].minted

(* An inbox is not flooded: no two mails of one minute, and no more than   *)
(* the limit of one hour, although requests wait for the donor with a time *)
(* they read earlier (QueueLoginEmail).                                    *)
NotFlooded ==
  \A m \in Mails : mail[m].state # "NONE" =>
    /\ \A n \in Mails \ {m} : mail[n].state # "NONE" => mail[n].created >= mail[m].created + Minute \/ mail[m].created >= mail[n].created + Minute
    /\ Cardinality({n \in Mails : mail[n].state # "NONE" /\ mail[n].created >= mail[m].created /\ mail[n].created < mail[m].created + Hour}) <= PerHour
=============================================================================
