--------------------------- MODULE PartnerPortal ---------------------------
(***************************************************************************)
(* Partner applications, portal users, sign-in links and sessions          *)
(* (internal/store/partner_application.go, partner_staff.go,               *)
(* partner_portal.go, partner_sign_in.go, ExportReport of                  *)
(* partner_dashboard.go).                                                  *)
(*                                                                         *)
(* An approved application is an organization of the same name. A user is  *)
(* an email of an organization; a sign-in link is named by the job that    *)
(* mints and mails it. What one transaction does under the lock of an      *)
(* application, organization, user or email is one step.                   *)
(***************************************************************************)
EXTENDS Integers, FiniteSets, FiniteSetsExt

CONSTANTS
  Applications, Emails, Taken,   \* Taken: emails of donors and staff
  Receipts,
  Requests, Workers,             \* portal requests, mail workers
  MaxJobs, MaxSessions, Horizon, \* bounds: mails, sessions, time
  Lease, SignInLifetime, InviteLifetime, SessionLifetime,
  Hour, PerHour, MaxAttempts

PartnerPortalAssumption ==
  /\ Taken \subseteq Emails /\ "none" \notin Applications /\ IsFiniteSet(Workers)
  /\ {MaxJobs, MaxSessions, Horizon, Hour, PerHour} \subseteq Nat
  /\ {Lease, SignInLifetime, InviteLifetime, SessionLifetime, MaxAttempts} \subseteq Nat \ {0}

VARIABLES
  clock,
  app,     \* donor_partner_applications
  user,    \* donor_partner_users
  job,     \* donor_partner_login_emails
  sess,    \* donor_partner_sessions
  orgs,    \* organizations promoted, by application
  mailbox, \* links that were mailed, and how often
  cut,     \* links and sessions of users when they were removed
  req, wrk

vars == <<clock, app, user, job, sess, orgs, mailbox, cut, req, wrk>>

Jobs == 1 .. MaxJobs
PartnerSessions == 1 .. MaxSessions
NoApplication == [status |-> "none", email |-> "none", receipt |-> "none"]
NoUser == [state |-> "none", role |-> "VIEWER", link |-> 0, exp |-> 0]
NoJob == [org |-> "none", email |-> "none", kind |-> "none", minted |-> FALSE, exp |-> 0, at |-> 0, born |-> 0, attempts |-> 0, done |-> TRUE]
NoSession == [org |-> "none", email |-> "none", via |-> 0, exp |-> 0, revoked |-> TRUE]
NoRequest == [op |-> "idle", s |-> 0, target |-> "none", role |-> "VIEWER", queue |-> {}]
NoWork == [pc |-> "idle", j |-> 0]
At(t) == Min({t, Horizon + 1})
Later(t) == Min({t, Horizon})  \* at the horizon everything is due

(***************************************************************************)
(* Sign-in mails are queued with what makes them due.                      *)
(***************************************************************************)
Fresh == {j \in Jobs : job[j] = NoJob}
Recent(a, e, span) == {j \in Jobs : job[j].org = a /\ job[j].email = e /\ job[j].kind = "SIGN_IN" /\ job[j].born > clock - span}
QueuePartnerLoginEmail(a, e, kind) == kind # "SIGN_IN" \/ (Recent(a, e, 1) = {} /\ Cardinality(Recent(a, e, Hour)) < PerHour)
Queued(a, e, kind) == [NoJob EXCEPT !.org = a, !.email = e, !.kind = kind, !.at = clock, !.born = clock, !.done = FALSE]
queuePartnerLogin(a, e, kind) == Fresh # {} /\ job' = [job EXCEPT ![Min(Fresh)] = Queued(a, e, kind)]

(***************************************************************************)
(* Applications.                                                           *)
(***************************************************************************)
reserveEmailIdentity(e, a) == e \notin Taken /\ \A b \in Applications \ {a} : user[<<b, e>>].state # "enabled"
InsertPartnerApplication(a, e) == app[a] = NoApplication /\ \A b \in Applications : app[b].email = e => app[b].status # "PENDING"
(* A repeated application with the same fields is accepted again. *)
applyPartner(a, e) == InsertPartnerApplication(a, e) \/ (app[a] # NoApplication /\ app[a].email = e)
AttachApplicationReceipt(a, x) == app[a].receipt \in {"none", x} /\ \A b \in Applications \ {a} : app[b].receipt # x
ApplyWithReceipt(a, e, x) ==
  /\ applyPartner(a, e) /\ AttachApplicationReceipt(a, x)
  /\ app' = [app EXCEPT ![a] = [@ EXCEPT !.email = e, !.receipt = x, !.status = IF app[a].status = "none" THEN "PENDING" ELSE app[a].status]]
  /\ UNCHANGED <<clock, user, job, sess, orgs, mailbox, cut, req, wrk>>
Apply(a, e) ==
  /\ InsertPartnerApplication(a, e)
  /\ app' = [app EXCEPT ![a] = [NoApplication EXCEPT !.status = "PENDING", !.email = e]]
  /\ UNCHANGED <<clock, user, job, sess, orgs, mailbox, cut, req, wrk>>

InvitePartnerUser(a, e, role) == user' = [user EXCEPT ![<<a, e>>] = [@ EXCEPT !.state = "enabled", !.role = role]]
PartnerApplicationByID(a) == app[a].status = "PENDING"
DecidePartnerApplication(a, status) == [app EXCEPT ![a] = [@ EXCEPT !.status = IF app[a].status = "PENDING" THEN status ELSE app[a].status]]
PromotePartnerOrg(a) == [orgs EXCEPT ![a] = Min({@ + 1, 2})]
Approve(a) ==
  LET e == app[a].email
  IN /\ PartnerApplicationByID(a) /\ reserveEmailIdentity(e, a)
     /\ app' = DecidePartnerApplication(a, "APPROVED")
     /\ orgs' = PromotePartnerOrg(a)
     /\ InvitePartnerUser(a, e, "ADMIN")
     /\ queuePartnerLogin(a, e, "APPROVED")
     /\ UNCHANGED <<clock, sess, mailbox, cut, req, wrk>>
Reject(a) ==
  /\ PartnerApplicationByID(a)
  /\ app' = DecidePartnerApplication(a, "REJECTED")
  /\ UNCHANGED <<clock, user, job, sess, orgs, mailbox, cut, req, wrk>>

(***************************************************************************)
(* Users and their sessions.                                               *)
(***************************************************************************)
Approved(a) == orgs[a] > 0
Belongs(s, a, e) == sess[s].org = a /\ sess[s].email = e
AuthenticatedPartnerUser(s) ==
  /\ sess[s] # NoSession /\ ~sess[s].revoked /\ clock < sess[s].exp
  /\ user[<<sess[s].org, sess[s].email>>].state = "enabled"
Admin(s) == AuthenticatedPartnerUser(s) /\ user[<<sess[s].org, sess[s].email>>].role = "ADMIN"

DisablePartnerUser(a, e) == [user EXCEPT ![<<a, e>>] = [@ EXCEPT !.state = "disabled", !.link = 0, !.exp = 0]]
RevokePartnerUserSessions(a, e) == [s \in PartnerSessions |-> IF Belongs(s, a, e) THEN [sess[s] EXCEPT !.revoked = TRUE] ELSE sess[s]]
Removed(a, e) ==
  /\ user[<<a, e>>].state # "none"
  /\ user' = DisablePartnerUser(a, e)
  /\ sess' = RevokePartnerUserSessions(a, e)
  /\ cut' = [links |-> cut.links \cup ({user[<<a, e>>].link} \ {0}), sessions |-> cut.sessions \cup {s \in PartnerSessions : Belongs(s, a, e)}]
InviteUser(a, e, role) ==
  /\ Approved(a) /\ reserveEmailIdentity(e, a)
  /\ InvitePartnerUser(a, e, role)
  /\ queuePartnerLogin(a, e, "INVITED")
  /\ UNCHANGED <<clock, app, sess, orgs, mailbox, cut, req, wrk>>
RemoveUser(a, e) == Removed(a, e) /\ UNCHANGED <<clock, app, job, orgs, mailbox, req, wrk>>

AcceptPartnerInvite(u) == [u EXCEPT !.link = 0, !.exp = 0]
PartnerUserByInvite(a, e, j) == user[<<a, e>>].link = j /\ user[<<a, e>>].state = "enabled" /\ clock < user[<<a, e>>].exp
issueSession(s, a, e, j) == sess' = [sess EXCEPT ![s] = [org |-> a, email |-> e, via |-> j, exp |-> At(clock + SessionLifetime), revoked |-> FALSE]]
AcceptInvite(s, a, e, j) ==
  /\ mailbox[j] > 0 /\ sess[s] = NoSession /\ (s > 1 => sess[s - 1] # NoSession)
  /\ PartnerUserByInvite(a, e, j)
  /\ user' = [user EXCEPT ![<<a, e>>] = AcceptPartnerInvite(@)]
  /\ issueSession(s, a, e, j)
  /\ UNCHANGED <<clock, app, job, orgs, mailbox, cut, req, wrk>>
RevokePartnerSession(s) == sess' = [sess EXCEPT ![s].revoked = TRUE]
SignOut(s) ==
  /\ sess[s] # NoSession /\ ~sess[s].revoked /\ RevokePartnerSession(s)
  /\ UNCHANGED <<clock, app, user, job, orgs, mailbox, cut, req, wrk>>

(***************************************************************************)
(* What an administrator of the portal does. The session is authenticated  *)
(* before and after the wait for the organization; an export reads one     *)
(* snapshot, which is the one before.                                      *)
(***************************************************************************)
authenticatePartner(r, s, op, target, role) ==
  /\ req[r].op = "idle" /\ AuthenticatedPartnerUser(s)
  /\ op = "export" => Admin(s)
  /\ req' = [req EXCEPT ![r] = [NoRequest EXCEPT !.op = op, !.s = s, !.target = target, !.role = role]]
  /\ UNCHANGED <<clock, app, user, job, sess, orgs, mailbox, cut, wrk>>
partnerAdminTransaction(r) == Admin(req[r].s)
Refused(r) ==
  /\ req[r].op \in {"invite", "remove", "profile"} /\ ~partnerAdminTransaction(r)
  /\ req' = [req EXCEPT ![r] = NoRequest]
  /\ UNCHANGED <<clock, app, user, job, sess, orgs, mailbox, cut, wrk>>
PortalInvite(r) ==
  LET a == sess[req[r].s].org
      e == req[r].target
  IN /\ req[r].op = "invite" /\ partnerAdminTransaction(r)
     /\ IF (e = sess[req[r].s].email => req[r].role = "ADMIN") /\ reserveEmailIdentity(e, a)
        THEN InvitePartnerUser(a, e, req[r].role) /\ queuePartnerLogin(a, e, "INVITED")
        ELSE UNCHANGED <<user, job>>
     /\ req' = [req EXCEPT ![r] = NoRequest]
     /\ UNCHANGED <<clock, app, sess, orgs, mailbox, cut, wrk>>
PortalRemove(r) ==
  LET a == sess[req[r].s].org
      e == req[r].target
  IN /\ req[r].op = "remove" /\ partnerAdminTransaction(r)
     /\ IF e # sess[req[r].s].email /\ user[<<a, e>>].state # "none" THEN Removed(a, e) ELSE UNCHANGED <<user, sess, cut>>
     /\ req' = [req EXCEPT ![r] = NoRequest]
     /\ UNCHANGED <<clock, app, job, orgs, mailbox, wrk>>
SaveProfile(r) ==
  /\ req[r].op = "profile" /\ partnerAdminTransaction(r)
  /\ req' = [req EXCEPT ![r] = NoRequest]
  /\ UNCHANGED <<clock, app, user, job, sess, orgs, mailbox, cut, wrk>>
ExportReport(r) ==
  /\ req[r].op = "export" /\ clock < sess[req[r].s].exp
  /\ req' = [req EXCEPT ![r] = NoRequest]
  /\ UNCHANGED <<clock, app, user, job, sess, orgs, mailbox, cut, wrk>>

(* A sign-in request decides what it queues before others see it. *)
PartnerUsersForSignIn(e) == {a \in Applications : Approved(a) /\ user[<<a, e>>].state = "enabled"}
RequestSignIn(r, e) ==
  /\ req[r].op = "idle" /\ PartnerUsersForSignIn(e) # {}
  /\ req' = [req EXCEPT ![r] = [NoRequest EXCEPT !.op = "queue", !.target = e,
       !.queue = {a \in PartnerUsersForSignIn(e) : QueuePartnerLoginEmail(a, e, "SIGN_IN")}]]
  /\ UNCHANGED <<clock, app, user, job, sess, orgs, mailbox, cut, wrk>>
Requested(r) ==
  /\ req[r].op = "queue"
  /\ IF req[r].queue = {} THEN UNCHANGED job ELSE \E a \in req[r].queue : queuePartnerLogin(a, req[r].target, "SIGN_IN")
  /\ req' = [req EXCEPT ![r] = NoRequest]
  /\ UNCHANGED <<clock, app, user, sess, orgs, mailbox, cut, wrk>>

(***************************************************************************)
(* The worker that mints and mails the links.                              *)
(***************************************************************************)
partnerLinkLifetime(kind) == IF kind = "SIGN_IN" THEN SignInLifetime ELSE InviteLifetime
Due(j) == ~job[j].done /\ job[j].attempts < MaxAttempts /\ job[j].at <= clock
NextPartnerLoginEmail(j) == Due(j) /\ \A i \in Jobs : Due(i) => job[j].at < job[i].at \/ (job[j].at = job[i].at /\ j <= i)
ClaimPartnerLoginEmail(x) == [x EXCEPT !.attempts = @ + 1, !.at = Later(clock + Lease)]
CompletePartnerLoginEmail(x) == [x EXCEPT !.done = TRUE]
FailPartnerLoginEmail(x) == IF x.done THEN x ELSE [x EXCEPT !.at = Later(clock + 1)]
PreparePartnerLoginEmail(x) == [x EXCEPT !.minted = TRUE, !.exp = At(clock + partnerLinkLifetime(x.kind))]
SetPartnerUserLink(a, e, j, exp) == user' = [user EXCEPT ![<<a, e>>] = [@ EXCEPT !.link = j, !.exp = exp]]
(* The recipient was removed, or the link ran out or was replaced. *)
LockPartnerLoginRecipient(j) ==
  LET u == user[<<job[j].org, job[j].email>>]
  IN u.state = "disabled" \/ (job[j].minted /\ (job[j].exp <= clock \/ u.link # j))
claim(w, j) ==
  /\ wrk[w] = NoWork /\ NextPartnerLoginEmail(j)
  /\ \/ LockPartnerLoginRecipient(j) /\ job' = [job EXCEPT ![j] = CompletePartnerLoginEmail(@)] /\ UNCHANGED <<user, wrk>>
     \/ /\ ~LockPartnerLoginRecipient(j) /\ wrk' = [wrk EXCEPT ![w] = [pc |-> "send", j |-> j]]
        /\ \/ job[j].minted /\ job' = [job EXCEPT ![j] = ClaimPartnerLoginEmail(@)] /\ UNCHANGED user
           \/ /\ ~job[j].minted /\ job' = [job EXCEPT ![j] = ClaimPartnerLoginEmail(PreparePartnerLoginEmail(@))]
              /\ SetPartnerUserLink(job[j].org, job[j].email, j, At(clock + partnerLinkLifetime(job[j].kind)))
  /\ UNCHANGED <<clock, app, sess, orgs, mailbox, cut, req>>
Send(w, ok, arrives) ==
  /\ wrk[w].pc = "send" /\ (ok => arrives)
  /\ wrk' = [wrk EXCEPT ![w].pc = IF ok THEN "sent" ELSE "failed"]
  /\ mailbox' = IF arrives THEN [mailbox EXCEPT ![wrk[w].j] = Min({@ + 1, MaxAttempts + 1})] ELSE mailbox
  /\ UNCHANGED <<clock, app, user, job, sess, orgs, cut, req>>
DeliverNext(w) ==
  /\ wrk[w].pc \in {"sent", "failed"}
  /\ job' = [job EXCEPT ![wrk[w].j] = IF wrk[w].pc = "sent" THEN CompletePartnerLoginEmail(@) ELSE FailPartnerLoginEmail(@)]
  /\ wrk' = [wrk EXCEPT ![w] = NoWork]
  /\ UNCHANGED <<clock, app, user, sess, orgs, mailbox, cut, req>>
Crash(w) ==
  /\ wrk[w] # NoWork /\ wrk' = [wrk EXCEPT ![w] = NoWork]
  /\ UNCHANGED <<clock, app, user, job, sess, orgs, mailbox, cut, req>>
Tick == clock < Horizon /\ clock' = clock + 1 /\ UNCHANGED <<app, user, job, sess, orgs, mailbox, cut, req, wrk>>

Init ==
  /\ clock = 0 /\ app = [a \in Applications |-> NoApplication] /\ orgs = [a \in Applications |-> 0]
  /\ user = [x \in Applications \X Emails |-> NoUser] /\ job = [j \in Jobs |-> NoJob] /\ sess = [s \in PartnerSessions |-> NoSession]
  /\ mailbox = [j \in Jobs |-> 0] /\ cut = [links |-> {}, sessions |-> {}]
  /\ req = [r \in Requests |-> NoRequest] /\ wrk = [w \in Workers |-> NoWork]

Applying == \E a \in Applications, e \in Emails : Apply(a, e) \/ \E x \in Receipts : ApplyWithReceipt(a, e, x)
Deciding == \E a \in Applications : Approve(a) \/ Reject(a)
Managing == \E a \in Applications, e \in Emails : RemoveUser(a, e) \/ \E role \in {"ADMIN", "VIEWER"} : InviteUser(a, e, role)
Entering == \E s \in PartnerSessions : SignOut(s) \/ \E a \in Applications, e \in Emails, j \in Jobs : AcceptInvite(s, a, e, j)
Waiting ==
  \E r \in Requests, s \in PartnerSessions :
    \/ authenticatePartner(r, s, "profile", "none", "VIEWER")
    \/ \E e \in Emails : authenticatePartner(r, s, "remove", e, "VIEWER") \/ \E role \in {"ADMIN", "VIEWER"} : authenticatePartner(r, s, "invite", e, role)
Exporting == \E r \in Requests : ExportReport(r) \/ \E s \in PartnerSessions : authenticatePartner(r, s, "export", "none", "VIEWER")
Administering == \E r \in Requests : Refused(r) \/ PortalInvite(r) \/ PortalRemove(r) \/ SaveProfile(r)
Asking == \E r \in Requests : Requested(r) \/ \E e \in Emails : RequestSignIn(r, e)
Working == \E w \in Workers : DeliverNext(w) \/ (\E j \in Jobs : claim(w, j)) \/ \E ok, arrives \in BOOLEAN : Send(w, ok, arrives)
Posting == \E w \in Workers : (\E j \in Jobs : claim(w, j)) \/ Send(w, TRUE, TRUE) \/ DeliverNext(w)

ApplicationSpec == Init /\ [][Applying \/ Deciding \/ Managing]_vars
AccessSpec == Init /\ [][Applying \/ Deciding \/ Managing \/ Entering \/ Waiting \/ Administering \/ Posting]_vars
ExportSpec == Init /\ [][Applying \/ Deciding \/ Managing \/ Entering \/ Exporting \/ Posting]_vars
MailSpec == Init /\ [][Applying \/ Deciding \/ Asking \/ Working \/ Tick \/ \E w \in Workers : Crash(w)]_vars
AskSpec == Init /\ [][Applying \/ Deciding \/ Asking]_vars

(***************************************************************************)
(* Properties.                                                             *)
(***************************************************************************)

(* The records have their types; an application that is approved has one   *)
(* organization and no other has any, however often it is decided          *)
(* (Approve, Reject).                                                      *)
TypeOK ==
  /\ \A x \in DOMAIN user : user[x].state \in {"none", "enabled", "disabled"} /\ user[x].link \in 0 .. MaxJobs
  /\ \A a \in Applications : orgs[a] = IF app[a].status = "APPROVED" THEN 1 ELSE 0

(* An email is a portal user of at most one organization, and never of one *)
(* while it is a donor's or a member of staff's (reserveEmailIdentity).    *)
OnePartnerPerEmail ==
  \A e \in Emails : Cardinality({a \in Applications : user[<<a, e>>].state = "enabled"}) <= IF e \in Taken THEN 0 ELSE 1

(* An administrator of the portal cannot leave the organization without    *)
(* one, also when two of them remove or demote each other at once          *)
(* (partnerAdminTransaction, RemoveUser, Invite).                          *)
AdministratorKept ==
  \A r \in Requests : req[r].op \in {"invite", "remove"} /\ req'[r].op = "idle" =>
    LET a == sess[req[r].s].org
        Admins(table) == {e \in Emails : table[<<a, e>>].state = "enabled" /\ table[<<a, e>>].role = "ADMIN"}
    IN Admins(user) # {} => Admins(user') # {}

(* Removing a user ends the sessions and the link they have, also when     *)
(* they are invited again later (DisablePartnerUser,                       *)
(* RevokePartnerUserSessions).                                             *)
RemovalCutsOff == \A s \in PartnerSessions : AuthenticatedPartnerUser(s) => s \notin cut.sessions /\ sess[s].via \notin cut.links

(* A link opens one session (AcceptInvite).                                *)
LinkUsedOnce == \A s, t \in PartnerSessions : sess[s] # NoSession /\ sess[t] # NoSession /\ sess[s].via = sess[t].via => s = t

(* A sign-in link is mailed at most MaxAttempts times, whether a send      *)
(* fails, succeeds unnoticed or its worker dies                            *)
(* (PartnerLoginEmailWorker).                                              *)
SendsBounded == \A j \in Jobs : mailbox[j] <= MaxAttempts

(* A report is exported by someone who is then an administrator with a     *)
(* live session, as every write of the portal is (ExportReport).           *)
AdministratorsExport == [][\A r \in Requests : req[r].op = "export" /\ req'[r].op = "idle" => Admin(req[r].s)]_vars

(* Requested sign-in links are limited to one a minute and PerHour an hour *)
(* for a user (QueuePartnerLoginEmail).                                    *)
InboxLimited == \A i, j \in Jobs : i # j /\ job[i].kind = "SIGN_IN" /\ job[j].kind = "SIGN_IN"
                  /\ <<job[i].org, job[i].email>> = <<job[j].org, job[j].email>> => job[i].born # job[j].born
=============================================================================
