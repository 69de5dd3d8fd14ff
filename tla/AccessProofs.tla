---------------------------- MODULE AccessProofs ----------------------------
(***************************************************************************)
(* What TLAPS proves of Access and of StaffAccess, for any number of       *)
(* sessions, links, addresses, accounts, users and requests. First staff   *)
(* accounts: what an account held before it was disabled or recovered      *)
(* opens it no more, an invitation adds one passkey and is answered a few  *)
(* times only, and the administrators never lock each other out. Then the  *)
(* other components, each for whatever constants (case) it is taken with;  *)
(* at the end the whole, of which a behaviour is one of a component.       *)
(***************************************************************************)
EXTENDS Access, FiniteSetTheorems, TLAPS

None(S) == S \cup {"none"}
Account == [state : {"none", "enabled", "disabled"}, role : {"none", "SUPER_ADMIN", "VIEWER"},
  recovered : Nat]
Passkey == [owner : None(Accounts), invite : None(Invites), era : Nat]
Invitation == [of : None(Accounts), consumed : BOOLEAN, attempts : Nat, expires : Nat,
  answers : Nat, era : Nat]
Ceremony == [state : {"none", "open", "taken", "spent", "gone"},
  kind : {"none", "SIGN_IN", "ACTIVATION"}, invite : None(Invites), expires : Nat]
Session == [owner : None(Accounts), live : BOOLEAN, expires : Nat, era : Nat]
Request == [pc : {"idle", "SIGN_IN", "ACTIVATION", "owner", "swept", "holds", "authorized"},
  of : None(Accounts), t : None(Ceremonies), with : None(Keys \cup Invites \cup Sessions), do : None(Actions)]

Shape ==
  /\ clock \in Nat /\ recovers \in Nat
  /\ staff \in [Accounts -> Account]
  /\ key \in [Keys -> Passkey]
  /\ invite \in [Invites -> Invitation]
  /\ ceremony \in [Ceremonies -> Ceremony]
  /\ sess \in [Sessions -> Session]
  /\ req \in [Requests -> Request]
  /\ lock \in [Accounts -> None(Requests)]

Answering == {"SIGN_IN", "ACTIVATION", "owner"}

\* A request that answers a ceremony is the only one that has taken it, and what
\* it found before it waited it still names.
RequestsKnow ==
  \A r \in Requests :
    /\ req[r].pc \in Answering => req[r].t \in Ceremonies /\ req[r].with \in Keys
         /\ ceremony[req[r].t].state = "taken"
    /\ req[r].pc = "ACTIVATION" => ceremony[req[r].t].kind = "ACTIVATION"
    /\ req[r].pc = "owner" => req[r].of \in Accounts
    /\ req[r].pc \in {"swept", "holds"} => req[r].with \in Invites /\ req[r].of \in Accounts
         /\ invite[req[r].with].of = req[r].of
    /\ req[r].pc = "authorized" => req[r].of \in Accounts /\ req[r].with \in Sessions
         /\ req[r].do \in Actions
OneAnswer ==
  \A q, r \in Requests : q # r /\ req[q].pc \in Answering /\ req[r].pc \in Answering =>
    req[q].t # req[r].t

\* A ceremony that adds a passkey is of an invitation that was made.
OfInvitation ==
  \A t \in Ceremonies : ceremony[t].kind = "ACTIVATION" =>
    ceremony[t].invite \in Invites /\ invite[ceremony[t].invite].of \in Accounts

\* An invitation that is still open was made after its account's last recovery.
InvitesCurrent ==
  \A i \in Invites :
    /\ invite[i] = NoInvite \/ invite[i].of \in Accounts
    /\ invite[i].answers <= invite[i].attempts /\ invite[i].attempts <= maxInviteAttempts
    /\ invite[i].of \in Accounts /\ ~invite[i].consumed =>
         invite[i].era = staff[invite[i].of].recovered

\* So was a session that lives, and its account is enabled.
SessionsCurrent ==
  \A s \in Sessions : sess[s].live =>
    sess[s].owner \in Accounts /\ Enabled(sess[s].owner)
      /\ sess[s].era = staff[sess[s].owner].recovered

\* So was a passkey, and it used up the one invitation it was added by.
KeysCurrent ==
  \A k \in Keys : key[k] # NoKey =>
    /\ key[k].owner \in Accounts /\ key[k].era = staff[key[k].owner].recovered
    /\ key[k].invite \in Invites /\ invite[key[k].invite].consumed
KeysApart == \A k, l \in Keys : k # l /\ key[k] # NoKey => key[k].invite # key[l].invite

\* What requests and ceremonies name, and what opens an account.
Asked == RequestsKnow /\ OneAnswer /\ OfInvitation
Current == InvitesCurrent /\ SessionsCurrent /\ KeysCurrent /\ KeysApart
StaffInv == Shape /\ Asked /\ Current

-----------------------------------------------------------------------------
\* An invitation that was made keeps its account, and one that is used up stays so.
Grown ==
  \A i \in Invites : invite[i].of \in Accounts =>
    invite'[i].of = invite[i].of /\ (invite[i].consumed => invite'[i].consumed)

LEMMA AskedFrame ==
  ASSUME StaffInv, Grown, UNCHANGED <<req, ceremony>>
  PROVE  Asked'
<1>1. RequestsKnow'
  BY DEF StaffInv, Asked, RequestsKnow, Grown, Answering
<1>2. OneAnswer'
  BY DEF StaffInv, Asked, OneAnswer
<1>3. OfInvitation'
  BY DEF StaffInv, Asked, OfInvitation, Grown
<1> QED BY <1>1, <1>2, <1>3 DEF Asked

LEMMA CurrentFrame ==
  ASSUME StaffInv, UNCHANGED <<staff, key, invite, sess>>
  PROVE  Current'
BY DEF StaffInv, Current, InvitesCurrent, SessionsCurrent, KeysCurrent, KeysApart, Enabled

\* A request that was idle has taken a ceremony that was open.
LEMMA TakeInv ==
  ASSUME StaffInv, NEW r \in Requests, NEW t \in Ceremonies, NEW k \in Keys,
         NEW kind \in {"SIGN_IN", "ACTIVATION"},
         takeCeremony(r, t, kind, k)
  PROVE  StaffInv'
<1> USE DEF StaffInv
<1>1. /\ req[r].pc = "idle" /\ ceremony[t].state = "open" /\ ceremony[t].kind = kind
      /\ ceremony' = [ceremony EXCEPT ![t].state = "taken"]
      /\ req' = [req EXCEPT ![r] = [pc |-> kind, of |-> "none", t |-> t, with |-> k, do |-> "none"]]
      /\ UNCHANGED <<clock, recovers, staff, key, invite, sess, lock>>
  BY DEF takeCeremony, TakeStaffCeremony, Found, Quiet, Idle
<1>2. Shape'
  <2>1. ceremony' \in [Ceremonies -> Ceremony]
    BY <1>1 DEF Shape, Ceremony
  <2>2. [pc |-> kind, of |-> "none", t |-> t, with |-> k, do |-> "none"] \in Request
    BY DEF Request, None
  <2>3. req' \in [Requests -> Request]
    BY <1>1, <2>2 DEF Shape
  <2> QED BY <1>1, <2>1, <2>3 DEF Shape
<1>3. RequestsKnow'
  BY <1>1 DEF Asked, RequestsKnow, Shape, Answering, Ceremony, Request
<1>4. OneAnswer'
  BY <1>1 DEF Asked, RequestsKnow, OneAnswer, Shape, Answering, Ceremony, Request
<1>5. OfInvitation'
  BY <1>1 DEF Asked, OfInvitation, Shape, Ceremony
<1>6. Current'
  BY <1>1, CurrentFrame
<1> QED BY <1>2, <1>3, <1>4, <1>5, <1>6 DEF Asked

\* Sweeping leaves a ceremony that is being answered alone, and adds none.
LEMMA SweepKeeps ==
  ASSUME StaffInv, NEW t \in Ceremonies
  PROVE  /\ DeleteExpiredStaffCeremonies \in [Ceremonies -> Ceremony]
         /\ ceremony[t].state = "taken" => DeleteExpiredStaffCeremonies[t] = ceremony[t]
         /\ DeleteExpiredStaffCeremonies[t].kind = ceremony[t].kind
         /\ DeleteExpiredStaffCeremonies[t].invite = ceremony[t].invite
BY DEF StaffInv, Shape, DeleteExpiredStaffCeremonies, Ceremony

LEMMA SavedIs ==
  ASSUME StaffAccessAssumption, StaffInv, NEW t \in Ceremonies,
         NEW kind \in {"SIGN_IN", "ACTIVATION"}, NEW i \in None(Invites)
  PROVE  /\ Saved(t, kind, i) \in Ceremony /\ Saved(t, kind, i).state = "open"
         /\ Saved(t, kind, i).kind = kind /\ Saved(t, kind, i).invite = i
<1>1. clock + ceremonyLifetime \in Nat
  BY DEF StaffAccessAssumption, StaffInv, Shape
<1>2. NoCeremony \in Ceremony
  BY DEF NoCeremony, Ceremony, None
<1> QED BY <1>1, <1>2 DEF Ceremony, Saved

LEMMA BeginSignInInv ==
  ASSUME StaffAccessAssumption, StaffInv, NEW t \in Ceremonies, BeginSignIn(t)
  PROVE  StaffInv'
<1> USE DEF StaffInv
<1> DEFINE new == Saved(t, "SIGN_IN", "none")
<1>0. new \in Ceremony /\ new.kind = "SIGN_IN"
  BY SavedIs DEF None
<1> HIDE DEF new
<1>1. /\ ceremony[t].state # "taken"
      /\ ceremony' = [DeleteExpiredStaffCeremonies EXCEPT ![t] = new]
      /\ UNCHANGED <<clock, recovers, staff, key, invite, sess, req, lock>>
  BY DEF BeginSignIn, Unused, Quiet, new
<1>2. Shape'
  BY <1>0, <1>1, SweepKeeps DEF Shape
<1>3. \A u \in Ceremonies : ceremony[u].state = "taken" => ceremony'[u] = ceremony[u]
  BY <1>1, SweepKeeps
<1>4. RequestsKnow'
  BY <1>1, <1>3 DEF Asked, RequestsKnow, Answering
<1>5. OneAnswer'
  BY <1>1 DEF Asked, OneAnswer
<1>6. OfInvitation'
  BY <1>0, <1>1, SweepKeeps DEF Asked, OfInvitation
<1>7. Current'
  BY <1>1, CurrentFrame
<1> QED BY <1>2, <1>4, <1>5, <1>6, <1>7 DEF Asked

\* An answered request rests, and the ceremony it had taken is nobody else's.
LEMMA Rests ==
  ASSUME StaffInv, NEW r \in Requests, req' = [req EXCEPT ![r] = Idle], Grown,
         \A t \in Ceremonies : \/ ceremony'[t] = ceremony[t]
                               \/ /\ req[r].pc \in Answering /\ t = req[r].t
                                  /\ ceremony'[t].kind = ceremony[t].kind
                                       /\ ceremony'[t].invite = ceremony[t].invite
  PROVE  req' \in [Requests -> Request] /\ Asked'
<1> USE DEF StaffInv
<1>1. req' \in [Requests -> Request]
  BY DEF Shape, Request, Idle, None
<1>2. \A q \in Requests : req'[q].pc # "idle" => q # r /\ req'[q] = req[q]
  BY DEF Shape, Idle
<1>3. RequestsKnow'
  BY <1>2 DEF Asked, RequestsKnow, OneAnswer, Answering, Grown
<1>4. OneAnswer'
  BY <1>2 DEF Asked, OneAnswer, Answering
<1>5. OfInvitation'
  BY DEF Asked, OfInvitation, Grown
<1> QED BY <1>1, <1>3, <1>4, <1>5 DEF Asked

\* The ceremony that a request had taken is spent, or open again.
LEMMA GivenBack ==
  ASSUME StaffInv, NEW t \in Ceremonies, ceremony' = Spent(t) \/ ceremony' = Restored(t)
  PROVE  /\ ceremony' \in [Ceremonies -> Ceremony]
         /\ \A u \in Ceremonies : u # t => ceremony'[u] = ceremony[u]
         /\ ceremony'[t].kind = ceremony[t].kind /\ ceremony'[t].invite = ceremony[t].invite
<1>1. CASE ceremony' = Spent(t)
  BY <1>1 DEF StaffInv, Shape, Spent, Ceremony
<1>2. CASE ceremony' = Restored(t)
  BY <1>2 DEF StaffInv, Shape, Restored, Ceremony
<1> QED BY <1>1, <1>2

LEMMA OwnerInv ==
  ASSUME StaffInv, NEW r \in Requests, StaffPasskeyOwner(r)
  PROVE  StaffInv'
<1> USE DEF StaffInv
<1>1. /\ req[r].pc = "SIGN_IN" /\ req[r].t \in Ceremonies /\ req[r].with \in Keys
           /\ ceremony[req[r].t].state = "taken"
      /\ UNCHANGED <<clock, recovers, staff, key, invite, sess, lock>>
  BY DEF StaffPasskeyOwner, Quiet, Asked, RequestsKnow, Answering
<1>2. Current'
  BY <1>1, CurrentFrame
<1>3. CASE key[req[r].with].owner = "none"
  <2>1. ceremony' = Spent(req[r].t) /\ req' = [req EXCEPT ![r] = Idle]
    BY <1>3 DEF StaffPasskeyOwner, Answered
  <2>2. req' \in [Requests -> Request] /\ Asked'
    BY <1>1, <2>1, GivenBack, Rests DEF Answering, Grown
  <2>3. Shape'
    BY <1>1, <2>1, <2>2, GivenBack DEF Shape
  <2> QED BY <1>2, <2>2, <2>3
<1>4. CASE key[req[r].with].owner # "none"
  <2> DEFINE rec == [pc |-> "owner", of |-> key[req[r].with].owner, t |-> req[r].t,
               with |-> req[r].with, do |-> "none"]
  <2>1. req' = [req EXCEPT ![r] = rec] /\ ceremony' = ceremony
    BY <1>4 DEF StaffPasskeyOwner, Found
  <2>2. key[req[r].with].owner \in Accounts
    BY <1>1, <1>4 DEF Shape, Passkey, None
  <2>3. rec \in Request
    BY <1>1, <2>2 DEF Request, None
  <2>4. Shape'
    BY <1>1, <2>1, <2>3 DEF Shape
  <2>5. RequestsKnow'
    BY <1>1, <2>1, <2>2 DEF Asked, RequestsKnow, Answering, Shape
  <2>6. OneAnswer'
    BY <1>1, <2>1 DEF Asked, OneAnswer, Answering, Shape
  <2>7. OfInvitation'
    BY <1>1, <2>1 DEF Asked, OfInvitation
  <2> QED BY <1>2, <2>4, <2>5, <2>6, <2>7 DEF Asked
<1> QED BY <1>3, <1>4

\* A session that starts while the account is enabled is a current one.
LEMMA SessionStarts ==
  ASSUME StaffAccessAssumption, StaffInv, NEW a \in Accounts, NEW s \in Sessions, Enabled(a),
         sess' = startStaffSession(s, a), staff' = staff
  PROVE  sess' \in [Sessions -> Session] /\ SessionsCurrent'
<1> USE DEF StaffInv
<1> DEFINE new == [owner |-> a, live |-> TRUE, expires |-> clock + staffSessionLifetime,
             era |-> staff[a].recovered]
<1>1. clock + staffSessionLifetime \in Nat /\ staff[a].recovered \in Nat
  BY DEF StaffAccessAssumption, Shape, Account
<1>2. new \in Session
  BY <1>1 DEF Session, None
<1>3. sess' = [sess EXCEPT ![s] = new]
  BY DEF startStaffSession
<1>4. sess' \in [Sessions -> Session]
  BY <1>2, <1>3 DEF Shape
<1>5. SessionsCurrent'
  BY <1>3 DEF Current, SessionsCurrent, Shape, Enabled
<1> QED BY <1>4, <1>5

LEMMA SignInInv ==
  ASSUME StaffAccessAssumption, StaffInv, NEW r \in Requests, NEW s \in Sessions, SignIn(r, s)
  PROVE  StaffInv'
<1> USE DEF StaffInv
<1>1. /\ req[r].pc = "owner" /\ req[r].t \in Ceremonies /\ req[r].of \in Accounts
           /\ ceremony[req[r].t].state = "taken"
      /\ ceremony' = Spent(req[r].t) /\ req' = [req EXCEPT ![r] = Idle]
      /\ UNCHANGED <<clock, recovers, staff, key, invite, lock>>
  BY DEF SignIn, Quiet, Asked, RequestsKnow, Answering, Answered
<1>2. req' \in [Requests -> Request] /\ Asked'
  BY <1>1, GivenBack, Rests DEF Answering, Grown
<1>3. sess' \in [Sessions -> Session] /\ SessionsCurrent'
  <2>1. CASE Enabled(req[r].of) /\ sess' = startStaffSession(s, req[r].of)
    BY <1>1, <2>1, SessionStarts
  <2>2. CASE sess' = sess
    BY <1>1, <2>2 DEF Shape, Current, SessionsCurrent, Enabled
  <2> QED BY <2>1, <2>2 DEF SignIn
<1>4. Shape'
  BY <1>1, <1>2, <1>3, GivenBack DEF Shape
<1>5. Current'
  BY <1>1, <1>3 DEF Current, InvitesCurrent, KeysCurrent, KeysApart
<1> QED BY <1>2, <1>4, <1>5

LEMMA SignOutInv ==
  ASSUME StaffInv, NEW s \in Sessions, SignOut(s)
  PROVE  StaffInv'
<1> USE DEF StaffInv
<1>1. sess' = [sess EXCEPT ![s].live = FALSE]
        /\ UNCHANGED <<clock, recovers, staff, key, invite, ceremony, req, lock>>
  BY DEF SignOut, Quiet
<1>2. Shape'
  BY <1>1 DEF Shape, Session
<1>3. Asked'
  BY <1>1, AskedFrame DEF Grown
<1>4. Current'
  BY <1>1 DEF Current, InvitesCurrent, SessionsCurrent, KeysCurrent, KeysApart, Shape, Session,
       Enabled
<1> QED BY <1>2, <1>3, <1>4

\* An invitation of the account's present era, where there was none.
LEMMA InviteMade ==
  ASSUME StaffAccessAssumption, StaffInv, NEW a \in Accounts, NEW i \in Invites, NEW era \in Nat,
         NEW table \in [Invites -> Invitation], NEW made, made = InsertStaffInvite(table, i, a, era)
  PROVE  /\ made \in [Invites -> Invitation]
         /\ \A j \in Invites : j # i => made[j] = table[j]
         /\ made[i].of = a /\ ~made[i].consumed /\ made[i].attempts = 0 /\ made[i].answers = 0
              /\ made[i].era = era
<1>1. clock + inviteLifetime \in Nat
  BY DEF StaffAccessAssumption, StaffInv, Shape
<1>2. NoInvite \in Invitation
  BY DEF NoInvite, Invitation, None
<1> DEFINE new == [NoInvite EXCEPT !.of = a, !.expires = clock + inviteLifetime, !.era = era]
<1>3. /\ new \in Invitation /\ new.of = a /\ new.era = era /\ new.consumed = NoInvite.consumed
      /\ new.attempts = NoInvite.attempts /\ new.answers = NoInvite.answers
  BY <1>1, <1>2 DEF Invitation, None
<1>4. ~NoInvite.consumed /\ NoInvite.attempts = 0 /\ NoInvite.answers = 0
  BY DEF NoInvite
<1> HIDE DEF new
<1>5. made = [table EXCEPT ![i] = new]
  BY DEF InsertStaffInvite, new
<1> QED BY <1>3, <1>4, <1>5

LEMMA InviteStaffInv ==
  ASSUME StaffAccessAssumption, StaffInv, NEW a \in Accounts, NEW i \in Invites,
         NEW role \in {"SUPER_ADMIN", "VIEWER"},
         inviteStaff(a, i, role)
  PROVE  StaffInv'
<1> USE DEF StaffInv
<1>1. /\ staff[a] = NoStaff /\ invite[i] = NoInvite
      /\ staff' = [staff EXCEPT ![a] = [state |-> "enabled", role |-> role, recovered |-> 0]]
      /\ invite' = InsertStaffInvite(invite, i, a, 0)
      /\ UNCHANGED <<clock, recovers, key, ceremony, sess, req, lock>>
  BY DEF inviteStaff, Quiet
<1>2. /\ invite' \in [Invites -> Invitation] /\ \A j \in Invites : j # i => invite'[j] = invite[j]
      /\ invite'[i].of = a /\ ~invite'[i].consumed /\ invite'[i].attempts = 0
           /\ invite'[i].answers = 0 /\ invite'[i].era = 0
  <2>1. invite \in [Invites -> Invitation] /\ 0 \in Nat
    BY DEF Shape
  <2> QED BY <1>1, <2>1, InviteMade
<1>3. staff' \in [Accounts -> Account]
  BY <1>1 DEF Shape, Account
<1>4. \A b \in Accounts : staff'[b].recovered = staff[b].recovered
        /\ (staff[b].state = "enabled" => staff'[b].state = "enabled")
  BY <1>1 DEF Shape, NoStaff
<1>5. invite[i].of \notin Accounts /\ ~invite[i].consumed
  BY <1>1 DEF NoInvite, StaffAccessAssumption
<1>6. Shape'
  BY <1>1, <1>2, <1>3 DEF Shape
<1>7. Asked'
  BY <1>1, <1>2, <1>5, AskedFrame DEF Grown
<1>8. InvitesCurrent'
  <2>1. \A j \in Invites : j # i => invite'[j] = invite[j] /\ invite[j] \in Invitation
    BY <1>2 DEF Shape
  <2>2. staff'[a].recovered = 0
    BY <1>1 DEF Shape
  <2> QED BY <1>2, <1>4, <2>1, <2>2 DEF Current, InvitesCurrent, StaffAccessAssumption
<1>9. SessionsCurrent'
  BY <1>1, <1>4 DEF Current, SessionsCurrent, Enabled
<1>10. KeysCurrent' /\ KeysApart'
  BY <1>1, <1>2, <1>4, <1>5 DEF Current, KeysCurrent, KeysApart
<1> QED BY <1>6, <1>7, <1>8, <1>9, <1>10 DEF Current

LEMMA BeginActivationInv ==
  ASSUME StaffInv, NEW r \in Requests, NEW i \in Invites, BeginActivation(r, i)
  PROVE  StaffInv'
<1> USE DEF StaffInv
<1> DEFINE rec == [pc |-> "swept", of |-> invite[i].of, t |-> "none", with |-> i, do |-> "none"]
<1>1. /\ req[r].pc = "idle" /\ invite[i] # NoInvite
      /\ ceremony' = DeleteExpiredStaffCeremonies /\ req' = [req EXCEPT ![r] = rec]
      /\ UNCHANGED <<clock, recovers, staff, key, invite, sess, lock>>
  BY DEF BeginActivation, sweepCeremonies, Found, Quiet, Idle
<1>2. invite[i].of \in Accounts
  BY <1>1 DEF Current, InvitesCurrent
<1>3. rec \in Request
  BY <1>2 DEF Request, None
<1>4. Shape'
  <2>1. ceremony' \in [Ceremonies -> Ceremony]
    BY <1>1 DEF Shape, DeleteExpiredStaffCeremonies, Ceremony
  <2> QED BY <1>1, <1>3, <2>1 DEF Shape
<1>5. \A t \in Ceremonies : /\ ceremony[t].state = "taken" => ceremony'[t] = ceremony[t]
                            /\ ceremony'[t].kind = ceremony[t].kind
                                 /\ ceremony'[t].invite = ceremony[t].invite
  BY <1>1, SweepKeeps
<1>6. \A q \in Requests : q # r => req'[q] = req[q]
  BY <1>1 DEF Shape
<1>7. req'[r].pc = "swept" /\ req'[r].of = invite[i].of /\ req'[r].with = i
  BY <1>1 DEF Shape
<1>8. RequestsKnow'
  BY <1>1, <1>2, <1>5, <1>6, <1>7 DEF Asked, RequestsKnow, Answering
<1>9. OneAnswer'
  BY <1>6, <1>7 DEF Asked, OneAnswer, Answering
<1>10. OfInvitation'
  BY <1>1, <1>5 DEF Asked, OfInvitation
<1>11. Current'
  BY <1>1, CurrentFrame
<1> QED BY <1>4, <1>8, <1>9, <1>10, <1>11 DEF Asked

LEMMA InvitationLockedInv ==
  ASSUME StaffInv, NEW r \in Requests, staffInvitation(r)
  PROVE  StaffInv'
<1> USE DEF StaffInv
<1>1. req[r].pc = "swept" /\ req[r].of \in Accounts
        /\ UNCHANGED <<clock, recovers, staff, key, invite, ceremony, sess>>
  BY DEF staffInvitation, Quiet, Asked, RequestsKnow
<1>2. Current'
  BY <1>1, CurrentFrame
<1>3. CASE lock' = lock /\ req' = [req EXCEPT ![r] = Idle]
  <2>1. req' \in [Requests -> Request] /\ Asked'
    BY <1>1, <1>3, Rests DEF Grown
  <2> QED BY <1>1, <1>2, <1>3, <2>1 DEF Shape
<1>4. CASE lock' = [lock EXCEPT ![req[r].of] = r] /\ req' = [req EXCEPT ![r].pc = "holds"]
  <2>0. lock' \in [Accounts -> None(Requests)]
    BY <1>1, <1>4 DEF Shape, None
  <2>1. req' \in [Requests -> Request]
    BY <1>4 DEF Shape, Request
  <2>2. \A q \in Requests : /\ q # r => req'[q] = req[q]
                            /\ req'[r].pc = "holds" /\ req'[r].with = req[r].with
                                 /\ req'[r].of = req[r].of
    BY <1>4 DEF Shape, Request
  <2>3. RequestsKnow'
    BY <1>1, <2>2 DEF Asked, RequestsKnow, Answering
  <2>4. OneAnswer'
    BY <2>2 DEF Asked, OneAnswer, Answering
  <2>5. OfInvitation'
    BY <1>1 DEF Asked, OfInvitation
  <2> QED BY <1>1, <1>2, <2>0, <2>1, <2>3, <2>4, <2>5 DEF Shape, Asked
<1> QED BY <1>3, <1>4 DEF staffInvitation, Answered

LEMMA SaveCeremonyInv ==
  ASSUME StaffAccessAssumption, StaffInv, NEW r \in Requests, NEW t \in Ceremonies,
         saveCeremony(r, t)
  PROVE  StaffInv'
<1> USE DEF StaffInv
<1> DEFINE new == Saved(t, "ACTIVATION", req[r].with)
<1>1. /\ req[r].pc = "holds" /\ ceremony[t].state # "taken"
           /\ ceremony' = [ceremony EXCEPT ![t] = new]
      /\ lock' = [lock EXCEPT ![req[r].of] = "none"] /\ req' = [req EXCEPT ![r] = Idle]
      /\ UNCHANGED <<clock, recovers, staff, key, invite, sess>>
  BY DEF saveCeremony, InsertStaffCeremony, Unused, Answered, Quiet
<1>2. req[r].with \in Invites /\ invite[req[r].with].of \in Accounts
  BY <1>1 DEF Asked, RequestsKnow
<1>3. new \in Ceremony /\ new.kind = "ACTIVATION" /\ new.invite = req[r].with
  BY <1>2, SavedIs DEF None
<1> HIDE DEF new
<1>4. ceremony' \in [Ceremonies -> Ceremony] /\ ceremony'[t] = new /\ \A u \in Ceremonies : u # t =>
        ceremony'[u] = ceremony[u]
  BY <1>1, <1>3 DEF Shape
<1>5. req' \in [Requests -> Request] /\ \A q \in Requests : req'[q].pc # "idle" => q # r
        /\ req'[q] = req[q]
  BY <1>1 DEF Shape, Request, Idle, None
<1>6. Shape'
  BY <1>1, <1>4, <1>5 DEF Shape, None
<1>7. RequestsKnow'
  BY <1>1, <1>4, <1>5 DEF Asked, RequestsKnow, Answering
<1>8. OneAnswer'
  BY <1>5 DEF Asked, OneAnswer, Answering
<1>9. OfInvitation'
  BY <1>1, <1>2, <1>3, <1>4 DEF Asked, OfInvitation
<1>10. Current'
  BY <1>1, CurrentFrame
<1> QED BY <1>6, <1>7, <1>8, <1>9, <1>10 DEF Asked

\* An answer to an invitation that is open counts, and may use it up.
LEMMA AnswerCounts ==
  ASSUME StaffAccessAssumption, StaffInv, NEW i \in Invites, lockInvitation(i),
         invite[i].of \in Accounts,
         NEW done \in BOOLEAN, invite' = SaveStaffInvite(i, done), staff' = staff
  PROVE  /\ invite' \in [Invites -> Invitation] /\ Grown /\ InvitesCurrent'
         /\ invite'[i].consumed = done
<1> USE DEF StaffInv
<1>1. invite[i] \in Invitation /\ ~invite[i].consumed /\ invite[i].attempts < maxInviteAttempts
  BY DEF Shape, lockInvitation
<1>2. invite' = [invite EXCEPT ![i].consumed = done, ![i].attempts = @ + 1, ![i].answers = @ + 1]
  BY DEF SaveStaffInvite
<1>3. invite' \in [Invites -> Invitation] /\ \A j \in Invites : j # i => invite'[j] = invite[j]
  BY <1>1, <1>2 DEF Shape, Invitation
<1>4. /\ invite'[i].of = invite[i].of /\ invite'[i].consumed = done
           /\ invite'[i].era = invite[i].era
      /\ invite'[i].attempts = invite[i].attempts + 1 /\ invite'[i].answers = invite[i].answers + 1
  BY <1>1, <1>2 DEF Shape, Invitation
<1>5. Grown
  BY <1>1, <1>3, <1>4 DEF Grown
<1>6. InvitesCurrent'
  <2> SUFFICES ASSUME NEW j \in Invites
               PROVE  /\ invite'[j] = NoInvite \/ invite'[j].of \in Accounts
                      /\ invite'[j].answers <= invite'[j].attempts
                           /\ invite'[j].attempts <= maxInviteAttempts
                      /\ invite'[j].of \in Accounts /\ ~invite'[j].consumed =>
                           invite'[j].era = staff'[invite'[j].of].recovered
    BY DEF InvitesCurrent
  <2>1. CASE j # i
    BY <1>3, <2>1 DEF Current, InvitesCurrent
  <2>2. CASE j = i
    <3>1. invite[i].attempts \in Nat /\ invite[i].answers \in Nat /\ maxInviteAttempts \in Nat
      BY <1>1 DEF Invitation, StaffAccessAssumption
    <3>2. invite[i].answers <= invite[i].attempts /\ invite[i].era = staff[invite[i].of].recovered
      BY <1>1 DEF Current, InvitesCurrent
    <3> QED BY <1>1, <1>4, <2>2, <3>1, <3>2
  <2> QED BY <2>1, <2>2
<1> QED BY <1>3, <1>4, <1>5, <1>6

LEMMA UsedUpStays ==
  ASSUME StaffInv, Grown
  PROVE  \A i \in Invites : invite[i].consumed => invite'[i].consumed
BY DEF StaffInv, Current, InvitesCurrent, NoInvite, Grown

LEMMA ActivateInv ==
  ASSUME StaffAccessAssumption, StaffInv, NEW r \in Requests, NEW s \in Sessions, Activate(r, s)
  PROVE  StaffInv'
<1> USE DEF StaffInv
<1>0. PICK t, i, a, k : t = req[r].t /\ i = ceremony[t].invite /\ a = invite[i].of
             /\ k = req[r].with
  OBVIOUS
<1>1. /\ req[r].pc = "ACTIVATION" /\ req' = [req EXCEPT ![r] = Idle]
      /\ UNCHANGED <<clock, recovers, staff, lock>>
  BY DEF Activate, Answered, Quiet
<1>2. t \in Ceremonies /\ k \in Keys /\ ceremony[t].kind = "ACTIVATION" /\ i \in Invites
        /\ a \in Accounts
  BY <1>0, <1>1 DEF Asked, RequestsKnow, OfInvitation, Answering
<1>3. ASSUME Grown, ceremony' = Spent(t) \/ ceremony' = Restored(t)
      PROVE  req' \in [Requests -> Request] /\ ceremony' \in [Ceremonies -> Ceremony] /\ Asked'
  BY <1>0, <1>1, <1>2, <1>3, GivenBack, Rests DEF Answering
<1>4. CASE ceremony' = Restored(t) /\ UNCHANGED <<key, invite, sess>>
  <2>1. Grown
    BY <1>4 DEF Grown
  <2>2. Current'
    BY <1>1, <1>4, CurrentFrame
  <2> QED BY <1>1, <1>3, <1>4, <2>1, <2>2 DEF Shape
<1>5. CASE /\ lockInvitation(i) /\ key[k].owner = "none" /\ sess[s] = NoSession
           /\ key' = [key EXCEPT ![k] = [owner |-> a, invite |-> i, era |-> invite[i].era]]
           /\ invite' = SaveStaffInvite(i, TRUE)
           /\ sess' = startStaffSession(s, a) /\ ceremony' = Spent(t)
  <2>1. invite' \in [Invites -> Invitation] /\ Grown /\ InvitesCurrent' /\ invite'[i].consumed
    BY <1>0, <1>1, <1>2, <1>5, AnswerCounts
  <2>2. sess' \in [Sessions -> Session] /\ SessionsCurrent'
    BY <1>0, <1>1, <1>2, <1>5, SessionStarts DEF lockInvitation
  <2>3. ~invite[i].consumed /\ invite[i].era = staff[a].recovered /\ invite[i].era \in Nat
    BY <1>0, <1>2, <1>5 DEF lockInvitation, Current, InvitesCurrent, Shape, Invitation
  <2>4. key' \in [Keys -> Passkey]
    <3>1. [owner |-> a, invite |-> i, era |-> invite[i].era] \in Passkey
      BY <1>2, <2>3 DEF Passkey, None
    <3> QED BY <1>5, <3>1 DEF Shape
  <2>5. /\ key'[k].owner = a /\ key'[k].invite = i /\ key'[k].era = invite[i].era
        /\ \A l \in Keys : l # k => key'[l] = key[l]
    BY <1>2, <1>5 DEF Shape
  <2>6. Shape'
    BY <1>1, <1>3, <1>5, <2>1, <2>2, <2>4 DEF Shape
  <2>7. KeysCurrent'
    <3> SUFFICES ASSUME NEW l \in Keys, key'[l] # NoKey
                 PROVE  /\ key'[l].owner \in Accounts
                             /\ key'[l].era = staff'[key'[l].owner].recovered
                        /\ key'[l].invite \in Invites /\ invite'[key'[l].invite].consumed
      BY DEF KeysCurrent
    <3>1. CASE l = k
      BY <1>1, <1>2, <2>1, <2>3, <2>5, <3>1
    <3>2. CASE l # k
      <4>1. key'[l] = key[l] /\ key[l] # NoKey
        BY <2>5, <3>2
      <4> QED BY <1>1, <2>1, <4>1, UsedUpStays DEF Current, KeysCurrent
    <3> QED BY <3>1, <3>2
  <2>8. \A l \in Keys : l # k => key[l].invite # i
    BY <1>2, <2>3 DEF Current, KeysCurrent, NoKey, StaffAccessAssumption
  <2>9. KeysApart'
    BY <2>5, <2>8 DEF Current, KeysApart
  <2> QED BY <1>3, <1>5, <2>1, <2>2, <2>6, <2>7, <2>9 DEF Current
<1>6. CASE lockInvitation(i) /\ invite' = SaveStaffInvite(i, FALSE) /\ ceremony' = Spent(t)
             /\ UNCHANGED <<key, sess>>
  <2>1. invite' \in [Invites -> Invitation] /\ Grown /\ InvitesCurrent'
    BY <1>0, <1>1, <1>2, <1>6, AnswerCounts
  <2>2. Shape'
    BY <1>1, <1>3, <1>6, <2>1 DEF Shape
  <2>3. SessionsCurrent'
    BY <1>1, <1>6 DEF Current, SessionsCurrent, Enabled
  <2>4. KeysCurrent' /\ KeysApart'
    BY <1>1, <1>6, <2>1, UsedUpStays DEF Current, KeysCurrent, KeysApart
  <2> QED BY <1>3, <1>6, <2>1, <2>2, <2>3, <2>4 DEF Current
<1> QED BY <1>0, <1>4, <1>5, <1>6 DEF Activate

LEMMA AuthorizedInv ==
  ASSUME StaffInv, NEW r \in Requests, NEW s \in Sessions, NEW a \in Accounts,
         NEW action \in Actions, Authorized(r, s, a, action)
  PROVE  StaffInv'
<1> USE DEF StaffInv
<1> DEFINE rec == [pc |-> "authorized", of |-> a, t |-> "none", with |-> s, do |-> action]
<1>1. /\ req[r].pc = "idle" /\ req' = [req EXCEPT ![r] = rec]
      /\ UNCHANGED <<clock, recovers, staff, key, invite, ceremony, sess, lock>>
  BY DEF Authorized, Found, Quiet, Idle
<1>2. rec \in Request
  BY DEF Request, None
<1>3. Shape'
  BY <1>1, <1>2 DEF Shape
<1>4. /\ \A q \in Requests : q # r => req'[q] = req[q]
      /\ req'[r].pc = "authorized" /\ req'[r].of = a /\ req'[r].with = s /\ req'[r].do = action
  BY <1>1 DEF Shape
<1>5. RequestsKnow'
  BY <1>1, <1>4 DEF Asked, RequestsKnow, Answering
<1>6. OneAnswer'
  BY <1>4 DEF Asked, OneAnswer, Answering
<1>7. OfInvitation'
  BY <1>1 DEF Asked, OfInvitation
<1>8. Current'
  BY <1>1, CurrentFrame
<1> QED BY <1>3, <1>5, <1>6, <1>7, <1>8 DEF Asked

LEMMA Revokes ==
  ASSUME StaffInv, NEW a \in Accounts, sess' = RevokeStaffSessions(a)
  PROVE  /\ sess' \in [Sessions -> Session]
         /\ \A s \in Sessions : sess'[s].live => sess'[s] = sess[s] /\ sess[s].owner # a
BY DEF StaffInv, Shape, RevokeStaffSessions, Session

LEMMA Invalidates ==
  ASSUME StaffInv, NEW a \in Accounts
  PROVE  /\ Reinvited(a) \in [Invites -> Invitation]
         /\ \A i \in Invites :
              /\ invite[i].of # a => Reinvited(a)[i] = invite[i]
              /\ invite[i].of = a => Reinvited(a)[i].consumed
              /\ Reinvited(a)[i].of = invite[i].of /\ Reinvited(a)[i].attempts = invite[i].attempts
              /\ Reinvited(a)[i].answers = invite[i].answers
BY DEF StaffInv, Shape, Reinvited, InvalidateStaffInvites, Invitation

\* Disabling an account, changing its role and recovering it leave nothing that
\* opens it and was there before; a recovery leaves the new invitation.
LEMMA AccessChanged ==
  ASSUME StaffAccessAssumption, StaffInv, NEW a \in Accounts, NEW action,
         NEW role \in {"none", "SUPER_ADMIN", "VIEWER"},
         NEW i \in Invites, changeAccess(a, action, role, i)
  PROVE  /\ staff' \in [Accounts -> Account] /\ key' \in [Keys -> Passkey]
         /\ invite' \in [Invites -> Invitation] /\ sess' \in [Sessions -> Session]
         /\ Grown /\ Current'
<1> USE DEF StaffInv
<1>1. CASE staff' = [staff EXCEPT ![a].state = "disabled"] /\ sess' = RevokeStaffSessions(a)
             /\ UNCHANGED <<key, invite>>
  <2>1. /\ staff' \in [Accounts -> Account]
        /\ \A b \in Accounts : staff'[b].recovered = staff[b].recovered
             /\ (b # a => staff'[b] = staff[b])
    BY <1>1 DEF Shape, Account
  <2>2. SessionsCurrent'
    BY <1>1, <2>1, Revokes DEF Current, SessionsCurrent, Enabled
  <2>3. InvitesCurrent' /\ KeysCurrent' /\ KeysApart'
    BY <1>1, <2>1 DEF Current, InvitesCurrent, KeysCurrent, KeysApart
  <2> QED BY <1>1, <2>1, <2>2, <2>3, Revokes DEF Shape, Grown, Current
<1>2. CASE /\ staff' = [staff EXCEPT ![a].role = role] /\ UNCHANGED <<key, invite>>
           /\ sess' = IF staff[a].role = role THEN sess ELSE RevokeStaffSessions(a)
  <2>1. /\ staff' \in [Accounts -> Account]
        /\ \A b \in Accounts : staff'[b].recovered = staff[b].recovered
             /\ staff'[b].state = staff[b].state
    BY <1>2 DEF Shape, Account
  <2>2. sess' \in [Sessions -> Session] /\ \A s \in Sessions : sess'[s].live => sess'[s] = sess[s]
    BY <1>2, Revokes DEF Shape
  <2>3. SessionsCurrent'
    BY <2>1, <2>2 DEF Current, SessionsCurrent, Enabled
  <2>4. InvitesCurrent' /\ KeysCurrent' /\ KeysApart'
    BY <1>2, <2>1 DEF Current, InvitesCurrent, KeysCurrent, KeysApart
  <2> QED BY <1>2, <2>1, <2>2, <2>3, <2>4 DEF Shape, Grown, Current
<1>3. CASE /\ invite[i] = NoInvite /\ staff' = [staff EXCEPT ![a].state = "enabled",
                ![a].recovered = @ + 1]
           /\ key' = DeleteStaffPasskeys(a)
                /\ invite' = InsertStaffInvite(Reinvited(a), i, a, staff[a].recovered + 1)
           /\ sess' = RevokeStaffSessions(a)
  <2>1. staff[a].recovered \in Nat
    BY DEF Shape, Account
  <2>2. /\ staff' \in [Accounts -> Account] /\ staff'[a].recovered = staff[a].recovered + 1
        /\ \A b \in Accounts : b # a => staff'[b] = staff[b]
    BY <1>3, <2>1 DEF Shape, Account
  <2>3. /\ key' \in [Keys -> Passkey]
        /\ \A k \in Keys : key'[k] # NoKey => key'[k] = key[k] /\ key[k].owner # a
    <3>1. NoKey \in Passkey
      BY DEF NoKey, Passkey, None
    <3> QED BY <1>3, <3>1 DEF Shape, DeleteStaffPasskeys
  <2>4. /\ invite' \in [Invites -> Invitation] /\ \A j \in Invites : j # i =>
             invite'[j] = Reinvited(a)[j]
        /\ invite'[i].of = a /\ ~invite'[i].consumed /\ invite'[i].attempts = 0
             /\ invite'[i].answers = 0
        /\ invite'[i].era = staff[a].recovered + 1
    <3>1. staff[a].recovered + 1 \in Nat /\ Reinvited(a) \in [Invites -> Invitation]
      BY <2>1, Invalidates
    <3> QED BY <1>3, <3>1, InviteMade
  <2>5. invite[i].of \notin Accounts
    BY <1>3 DEF NoInvite, StaffAccessAssumption
  <2>6. Grown
    <3> SUFFICES ASSUME NEW j \in Invites, invite[j].of \in Accounts
                 PROVE  invite'[j].of = invite[j].of /\ (invite[j].consumed => invite'[j].consumed)
      BY DEF Grown
    <3>1. j # i /\ invite'[j] = Reinvited(a)[j]
      BY <2>4, <2>5
    <3> QED BY <3>1, Invalidates
  <2>7. InvitesCurrent'
    <3> SUFFICES ASSUME NEW j \in Invites
                 PROVE  /\ invite'[j] = NoInvite \/ invite'[j].of \in Accounts
                        /\ invite'[j].answers <= invite'[j].attempts
                             /\ invite'[j].attempts <= maxInviteAttempts
                        /\ invite'[j].of \in Accounts /\ ~invite'[j].consumed =>
                             invite'[j].era = staff'[invite'[j].of].recovered
      BY DEF InvitesCurrent
    <3>1. CASE j = i
      BY <2>2, <2>4, <3>1 DEF StaffAccessAssumption
    <3>2. CASE j # i
      <4>1. invite'[j] = Reinvited(a)[j]
        BY <2>4, <3>2
      <4>2. /\ invite[j] = NoInvite \/ invite[j].of \in Accounts
            /\ invite[j].answers <= invite[j].attempts /\ invite[j].attempts <= maxInviteAttempts
            /\ invite[j].of \in Accounts /\ ~invite[j].consumed =>
                 invite[j].era = staff[invite[j].of].recovered
        BY DEF Current, InvitesCurrent
      <4>3. CASE invite[j].of = a
        BY <4>1, <4>2, <4>3, Invalidates
      <4>4. CASE invite[j].of # a
        BY <2>2, <4>1, <4>2, <4>4, Invalidates
      <4> QED BY <4>3, <4>4
    <3> QED BY <3>1, <3>2
  <2>8. SessionsCurrent'
    BY <1>3, <2>2, Revokes DEF Current, SessionsCurrent, Enabled
  <2>9. KeysCurrent'
    BY <2>2, <2>3, <2>6, UsedUpStays DEF Current, KeysCurrent
  <2>10. KeysApart'
    <3>1. \A k, l \in Keys : k # l /\ key'[k] # NoKey => key'[k].invite # key'[l].invite
      <4> SUFFICES ASSUME NEW k \in Keys, NEW l \in Keys, k # l, key'[k] # NoKey
                   PROVE  key'[k].invite # key'[l].invite
        OBVIOUS
      <4>1. key'[k] = key[k] /\ key[k] # NoKey /\ key[k].invite \in Invites
        BY <2>3 DEF Current, KeysCurrent
      <4>2. CASE key'[l] = NoKey
        BY <4>1, <4>2 DEF NoKey, StaffAccessAssumption
      <4>3. CASE key'[l] # NoKey
        BY <2>3, <4>1, <4>3 DEF Current, KeysApart
      <4> QED BY <4>2, <4>3
    <3> QED BY <3>1 DEF KeysApart
  <2> QED BY <1>3, <2>2, <2>3, <2>4, <2>6, <2>7, <2>8, <2>9, <2>10, Revokes DEF Current
<1> QED BY <1>1, <1>2, <1>3 DEF changeAccess

LEMMA ChangeAccessInv ==
  ASSUME StaffAccessAssumption, StaffInv, NEW r \in Requests, ChangeAccess(r)
  PROVE  StaffInv'
<1> USE DEF StaffInv
<1>1. /\ req[r].of \in Accounts /\ req' = [req EXCEPT ![r] = Idle]
      /\ UNCHANGED <<clock, recovers, ceremony, lock>>
  BY DEF ChangeAccess, Answered, Quiet, Asked, RequestsKnow
<1>2. /\ staff' \in [Accounts -> Account] /\ key' \in [Keys -> Passkey]
      /\ invite' \in [Invites -> Invitation] /\ sess' \in [Sessions -> Session]
      /\ Grown /\ Current'
  <2>1. CASE UNCHANGED <<staff, key, invite, sess>>
    BY <2>1, CurrentFrame DEF Shape, Grown
  <2>2. CASE \E role \in {"SUPER_ADMIN", "VIEWER"},
               i \in Invites : changeAccess(req[r].of, req[r].do, role, i)
    <3>1. PICK role \in {"SUPER_ADMIN", "VIEWER"},
                 i \in Invites : changeAccess(req[r].of, req[r].do, role, i)
      BY <2>2
    <3> QED BY <1>1, <3>1, AccessChanged
  <2> QED BY <2>1, <2>2 DEF ChangeAccess
<1>3. req' \in [Requests -> Request] /\ Asked'
  BY <1>1, <1>2, Rests
<1>4. Shape'
  BY <1>1, <1>2, <1>3 DEF Shape
<1> QED BY <1>2, <1>3, <1>4

LEMMA RecoverInv ==
  ASSUME StaffAccessAssumption, StaffInv, NEW a \in Accounts, NEW i \in Invites, Recover(a, i)
  PROVE  StaffInv'
<1> USE DEF StaffInv
<1>1. /\ changeAccess(a, "recovery", "none", i) /\ recovers' = recovers + 1
      /\ UNCHANGED <<clock, ceremony, req, lock>>
  BY DEF Recover
<1>2. /\ staff' \in [Accounts -> Account] /\ key' \in [Keys -> Passkey]
      /\ invite' \in [Invites -> Invitation] /\ sess' \in [Sessions -> Session]
      /\ Grown /\ Current'
  BY <1>1, AccessChanged
<1>3. Shape'
  BY <1>1, <1>2 DEF Shape
<1>4. Asked'
  BY <1>1, <1>2, AskedFrame
<1> QED BY <1>2, <1>3, <1>4

LEMMA TickInv ==
  ASSUME StaffInv, UNCHANGED <<recovers, staff, key, invite, ceremony, sess, req, lock>>,
         clock' \in Nat
  PROVE  StaffInv'
<1>1. Shape'
  BY DEF StaffInv, Shape
<1>2. Asked'
  BY AskedFrame DEF Grown
<1>3. Current'
  BY CurrentFrame
<1> QED BY <1>1, <1>2, <1>3 DEF StaffInv

LEMMA StaffStarts ==
  ASSUME StaffAccessAssumption, Init
  PROVE  StaffInv
<1> USE DEF Init
<1>1. Shape
  <2>1. NoStaff \in Account /\ NoKey \in Passkey /\ NoInvite \in Invitation
    BY DEF NoStaff, NoKey, NoInvite, Account, Passkey, Invitation, None
  <2>2. NoCeremony \in Ceremony /\ NoSession \in Session /\ Idle \in Request
    BY DEF NoCeremony, NoSession, Idle, Ceremony, Session, Request, None
  <2> QED BY <2>1, <2>2 DEF Shape, None
<1>2. Asked
  BY DEF Asked, RequestsKnow, OneAnswer, OfInvitation, Answering, Idle, NoCeremony
<1>3. InvitesCurrent
  BY DEF InvitesCurrent, NoInvite, StaffAccessAssumption
<1>4. SessionsCurrent /\ KeysCurrent /\ KeysApart
  BY DEF SessionsCurrent, KeysCurrent, KeysApart, NoSession
<1> QED BY <1>1, <1>2, <1>3, <1>4 DEF StaffInv, Current

LEMMA StaffStep ==
  ASSUME StaffAccessAssumption, StaffInv, [Next]_vars
  PROVE  StaffInv'
<1>1. CASE \E r \in Requests : Step(r)
  <2>1. PICK r \in Requests : Step(r)
    BY <1>1
  <2>2. CASE StaffPasskeyOwner(r)
    BY <2>2, OwnerInv
  <2>3. CASE staffInvitation(r)
    BY <2>3, InvitationLockedInv
  <2>4. CASE ChangeAccess(r)
    BY <2>4, ChangeAccessInv
  <2>5. CASE \E s \in Sessions : SignIn(r, s) \/ Activate(r, s)
    BY <2>5, SignInInv, ActivateInv
  <2>6. CASE \E t \in Ceremonies : saveCeremony(r, t)
    BY <2>6, SaveCeremonyInv
  <2> QED BY <2>1, <2>2, <2>3, <2>4, <2>5, <2>6 DEF Step
<1>2. CASE \E r \in Requests, i \in Invites : BeginActivation(r, i)
  BY <1>2, BeginActivationInv
<1>3. CASE \E r \in Requests, t \in Ceremonies, k \in Keys : takeCeremony(r, t, "SIGN_IN", k)
             \/ takeCeremony(r, t, "ACTIVATION", k)
  BY <1>3, TakeInv
<1>4. CASE \E r \in Requests, s \in Sessions, a \in Accounts,
             action \in Actions : Authorized(r, s, a, action)
  BY <1>4, AuthorizedInv
<1>5. CASE \E t \in Ceremonies : BeginSignIn(t)
  BY <1>5, BeginSignInInv
<1>6. CASE \E a \in Accounts, i \in Invites : Bootstrap(a, i)
  BY <1>6, InviteStaffInv DEF Bootstrap
<1>7. CASE \E a \in Accounts, i \in Invites : Recover(a, i)
  BY <1>7, RecoverInv
<1>8. CASE \E a \in Accounts, i \in Invites, s \in Sessions : Invite(s, a, i)
  BY <1>8, InviteStaffInv DEF Invite
<1>9. CASE \E s \in Sessions : SignOut(s)
  BY <1>9, SignOutInv
<1>10. CASE Tick
  <2>1. clock' \in Nat /\ UNCHANGED <<recovers, staff, key, invite, ceremony, sess, req, lock>>
    BY <1>10 DEF Tick, StaffInv, Shape
  <2> QED BY <2>1, TickInv
<1>11. CASE UNCHANGED vars
  <2>1. clock' \in Nat /\ UNCHANGED <<recovers, staff, key, invite, ceremony, sess, req, lock>>
    BY <1>11 DEF vars, StaffInv, Shape
  <2> QED BY <2>1, TickInv
<1> QED BY <1>1, <1>2, <1>3, <1>4, <1>5, <1>6, <1>7, <1>8, <1>9, <1>10, <1>11 DEF Next

\* What opens an account is of its present era, at every moment and whatever
\* requests looked up before they waited for the account.
THEOREM StaffInvariant == ASSUME StaffAccessAssumption PROVE Spec => []StaffInv
<1>1. Init => StaffInv
  BY StaffStarts
<1>2. StaffInv /\ [Next]_vars => StaffInv'
  BY StaffStep
<1> QED BY <1>1, <1>2, PTL DEF Spec

\* The records have their types, and an invitation adds one passkey at most,
\* whichever of its ceremonies are answered first (Activate).
THEOREM StaffTypeCorrect == ASSUME StaffAccessAssumption PROVE Spec => []TypeOK
<1>1. StaffInv => TypeOK
  BY DEF StaffInv, Shape, Current, KeysApart, TypeOK, Account, Session, None
<1> QED BY <1>1, StaffInvariant, PTL

\* What an account held before it was disabled or recovered, its sessions,
\* passkeys and invitations, opens it no more, and rejected answers too count
\* against an invitation (changeAccess, SignIn, Activate).
THEOREM CutOff == ASSUME StaffAccessAssumption PROVE Spec => []CutOffStays
<1>1. StaffInv => CutOffStays
  <2> SUFFICES ASSUME StaffInv PROVE CutOffStays
    OBVIOUS
  <2>1. RecoveryCutsOff
    BY DEF StaffInv, Current, SessionsCurrent, KeysCurrent, RecoveryCutsOff
  <2>2. AttemptsBounded
    BY DEF StaffInv, Current, InvitesCurrent, AttemptsBounded, Shape, Invitation,
         StaffAccessAssumption
  <2> QED BY <2>1, <2>2 DEF CutOffStays
<1> QED BY <1>1, StaffInvariant, PTL

-----------------------------------------------------------------------------
\* An enabled administrator who holds a passkey.
CanAdminister(a) == staff[a].role = "SUPER_ADMIN" /\ staff[a].state = "enabled"
  /\ \E k \in Keys : key[k].owner = a

LEMMA AdministratorStep ==
  ASSUME StaffAccessAssumption, StaffInv, [Next]_vars, recovers' = 0, NEW b \in Accounts,
         CanAdminister(b)
  PROVE  \E a \in Accounts : CanAdminister(a)'
<1> USE DEF CanAdminister
<1>1. PICK k \in Keys : key[k].owner = b
  OBVIOUS
<1>2. CASE UNCHANGED <<staff, key>>
  BY <1>2
<1>3. ASSUME NEW a \in Accounts, NEW i \in Invites, NEW role, inviteStaff(a, i, role)
      PROVE  CanAdminister(b)'
  <2>1. staff[a] = NoStaff /\ staff' = [staff EXCEPT ![a] = [state |-> "enabled", role |-> role,
          recovered |-> 0]] /\ key' = key
    BY <1>3 DEF inviteStaff
  <2>2. a # b
    BY <2>1 DEF NoStaff
  <2> QED BY <2>1, <2>2 DEF StaffInv, Shape
<1>4. ASSUME NEW r \in Requests, NEW s \in Sessions, Activate(r, s)
      PROVE  CanAdminister(b)'
  <2>1. staff' = staff
    BY <1>4 DEF Activate
  <2>2. \/ key' = key
        \/ \E x : key[req[r].with].owner = "none" /\ key' = [key EXCEPT ![req[r].with] = x]
    BY <1>4 DEF Activate
  <2>3. key'[k] = key[k]
    BY <1>1, <2>2 DEF StaffAccessAssumption, StaffInv, Shape
  <2> QED BY <1>1, <2>1, <2>3
<1>5. ASSUME NEW r \in Requests, ChangeAccess(r)
      PROVE  \E a \in Accounts : CanAdminister(a)'
  <2> DEFINE a == req[r].of
  <2>1. CASE UNCHANGED <<staff, key>>
    BY <2>1
  <2>2. CASE MayChange(req[r].with, a) /\ \E role, i : changeAccess(a, req[r].do, role, i)
    <3>1. PICK c \in Accounts \ {a} : CanAdminister(c)
      BY <2>2 DEF MayChange, OtherAdmins, Enabled, Active
    <3>2. PICK l \in Keys : key[l].owner = c
      BY <3>1
    <3>3. a \in Accounts
      BY <1>5 DEF ChangeAccess, StaffInv, Asked, RequestsKnow
    <3>4. staff'[c] = staff[c]
      BY <2>2, <3>1, <3>3 DEF changeAccess, StaffInv, Shape
    <3>5. key'[l] = key[l]
      BY <2>2, <3>1, <3>2 DEF changeAccess, DeleteStaffPasskeys
    <3> QED BY <3>1, <3>2, <3>4, <3>5
  <2> QED BY <1>5, <2>1, <2>2 DEF ChangeAccess
<1>6. ASSUME NEW a \in Accounts, NEW i \in Invites, Recover(a, i)
      PROVE  FALSE
  BY <1>6 DEF Recover, StaffInv, Shape
<1>7. CASE \E r \in Requests : Step(r)
  <2>1. PICK r \in Requests : Step(r)
    BY <1>7
  <2>2. CASE StaffPasskeyOwner(r) \/ staffInvitation(r)
    BY <1>2, <2>2 DEF StaffPasskeyOwner, staffInvitation
  <2>3. CASE ChangeAccess(r)
    BY <1>5, <2>3
  <2>4. CASE \E s \in Sessions : SignIn(r, s)
    BY <1>2, <2>4 DEF SignIn
  <2>5. CASE \E s \in Sessions : Activate(r, s)
    BY <1>4, <2>5
  <2>6. CASE \E t \in Ceremonies : saveCeremony(r, t)
    BY <1>2, <2>6 DEF saveCeremony, InsertStaffCeremony
  <2> QED BY <2>1, <2>2, <2>3, <2>4, <2>5, <2>6 DEF Step
<1>8. CASE \/ \E r \in Requests, i \in Invites : BeginActivation(r, i)
           \/ \E r \in Requests, t \in Ceremonies, l \in Keys : takeCeremony(r, t, "SIGN_IN", l)
                \/ takeCeremony(r, t, "ACTIVATION", l)
           \/ \E r \in Requests, s \in Sessions, a \in Accounts,
                action \in Actions : Authorized(r, s, a, action)
           \/ \E t \in Ceremonies : BeginSignIn(t)
           \/ \E s \in Sessions : SignOut(s)
           \/ Tick \/ UNCHANGED vars
  BY <1>2, <1>8 DEF BeginActivation, takeCeremony, Authorized, BeginSignIn, SignOut, Tick, vars
<1>9. CASE \E a \in Accounts, i \in Invites : Bootstrap(a, i) \/ Recover(a, i)
             \/ \E s \in Sessions : Invite(s, a, i)
  BY <1>3, <1>6, <1>9 DEF Bootstrap, Invite
<1> QED BY <1>7, <1>8, <1>9 DEF Next

\* No step leaves the staff without an enabled administrator who can sign in, if
\* there was one: however many disable, demote and recover each other at the
\* same time, each authorized before it waited for the accounts, and as long as
\* no operator breaks the glass (ChangeAccess).
THEOREM AdministratorStays == ASSUME StaffAccessAssumption PROVE Spec => AnAdministratorStays
<1>1. StaffInv /\ [Next]_vars => AdministratorKept
  <2> SUFFICES ASSUME StaffInv, [Next]_vars, recovers' = 0,
                      NEW b \in Accounts, staff[b].role = "SUPER_ADMIN", Enabled(b), Active(b)
               PROVE  \E a \in Accounts : CanAdminister(a)'
    BY DEF AdministratorKept, CanAdminister
  <2>1. CanAdminister(b)
    BY DEF CanAdminister, Enabled, Active
  <2> QED BY <2>1, AdministratorStep
<1>2. StaffInv /\ [Next]_vars => [AdministratorKept]_vars
  BY <1>1
<1> QED BY <1>2, StaffInvariant, PTL DEF Spec, AnAdministratorStays
-----------------------------------------------------------------------------
(***************************************************************************)
(* Sessions. The command that holds the donor's row is at work for a       *)
(* session that lives, or that its own client or a reused token ended:     *)
(* every other way to end it takes the row first.                          *)
(***************************************************************************)
SignedRow(case) ==
  [state : {"NONE", "LIVE", "REVOKED"}, token : Int, previous : Int, refreshedAt : Int,
   expires : Int, refreshExpires : Int, created : Int, used : Int,
   by : {"none", "SignOut", "REFRESH_REUSED", "SignOutSession", "SignOutOthers",
         "SignOutEverywhere"}]
SignedOrder(case) ==
  [pc : {"idle", "sent", "admitted", "locked", "done"}, kind : {"none"} \cup case.Kinds,
   s : {"none"} \cup case.Sessions, token : Int, of : {"none"} \cup case.Sessions]
SignedExchange(case) ==
  [pc : {"idle", "sent", "answered"}, s : {"none"} \cup case.Sessions, token : Int]

\* A session that lives, or that its own client or a reused token ended.
SignedHonoured(case, s) ==
  Signed(case)!Lives(s) \/ sessionSess[s].by \in {"SignOut", "REFRESH_REUSED"}

\* The command that holds the donor's row is the one that is at work, and its
\* session is honoured.
SignedInv(case) ==
  /\ sessionClock \in Nat /\ sessionSess \in [case.Sessions -> SignedRow(case)]
     /\ cmd \in [case.Commands -> SignedOrder(case)]
  /\ held \in [case.Sessions -> Int]
  /\ ref \in [case.Refreshes -> SignedExchange(case)]
  /\ \A r \in case.Refreshes : ref[r].pc # "idle" => ref[r].s \in case.Sessions
  /\ \A c \in case.Commands : cmd[c].pc # "idle" => cmd[c].s \in case.Sessions
  /\ \A c \in case.Commands : cmd[c].pc = "locked" <=> sessionLock = c
  /\ \A c \in case.Commands : sessionLock = c => SignedHonoured(case, cmd[c].s)

LEMMA SignedLeastOf ==
  ASSUME NEW case, NEW a \in Int, NEW b \in Int
  PROVE  Signed(case)!Min({a, b}) \in Int
<1>1. \E x \in {a, b} : \A y \in {a, b} : x <= y
  OBVIOUS
<1> QED BY <1>1 DEF Signed!Min

\* What becomes of a session's record when it is ended.
SignedEnded(x, how) == [x EXCEPT !.state = "REVOKED", !.by = how]

LEMMA SignedEndedIs ==
  ASSUME NEW case, NEW x \in SignedRow(case),
         NEW how \in {"SignOut", "REFRESH_REUSED", "SignOutSession", "SignOutOthers",
         "SignOutEverywhere"}
  PROVE  SignedEnded(x, how) \in SignedRow(case) /\ SignedEnded(x, how).by = how
BY DEF SignedEnded, SignedRow

LEMMA SignedRevokedHonours ==
  ASSUME NEW case, SignedInv(case), NEW S,
         NEW how \in {"SignOut", "REFRESH_REUSED", "SignOutSession", "SignOutOthers",
         "SignOutEverywhere"}
  PROVE  /\ Signed(case)!Revoked(S, how) \in [case.Sessions -> SignedRow(case)]
         /\ how \in {"SignOut", "REFRESH_REUSED"} /\ sessionSess' = Signed(case)!Revoked(S, how) =>
              \A s \in case.Sessions : SignedHonoured(case, s) => SignedHonoured(case, s)'
<1>1. \A s \in case.Sessions : sessionSess[s] \in SignedRow(case)
        /\ SignedEnded(sessionSess[s], how) \in SignedRow(case)
  BY SignedEndedIs DEF SignedInv
<1>2. Signed(case)!Revoked(S, how) \in [case.Sessions -> SignedRow(case)]
  <2>1. Signed(case)!Revoked(S, how) = [s \in case.Sessions |-> IF s \in S
          /\ Signed(case)!Lives(s) THEN SignedEnded(sessionSess[s], how) ELSE sessionSess[s]]
    BY Zenon DEF Signed!Revoked, SignedEnded
  <2> QED BY <1>1, <2>1
<1>3. ASSUME how \in {"SignOut", "REFRESH_REUSED"}, sessionSess' = Signed(case)!Revoked(S, how),
             NEW s \in case.Sessions, SignedHonoured(case, s)
      PROVE  SignedHonoured(case, s)'
  <2>1. sessionSess'[s] = IF s \in S /\ Signed(case)!Lives(s) THEN SignedEnded(sessionSess[s], how)
          ELSE sessionSess[s]
    BY <1>3, Zenon DEF Signed!Revoked, SignedEnded
  <2>2. SignedEnded(sessionSess[s], how).by = how
    BY SignedEndedIs DEF SignedInv
  <2> QED BY <1>3, <2>1, <2>2 DEF SignedHonoured, Signed!Lives
<1> QED BY <1>2, <1>3

\* Steps that leave the commands and the lock alone, and no session but honoured.
LEMMA SignedAside ==
  ASSUME NEW case, SignedInv(case), sessionClock' \in Nat,
         sessionSess' \in [case.Sessions -> SignedRow(case)], held' \in [case.Sessions -> Int],
         ref' \in [case.Refreshes -> SignedExchange(case)],
         \A r \in case.Refreshes : ref'[r].pc # "idle" => ref'[r].s \in case.Sessions,
         UNCHANGED <<cmd, sessionLock>>, \A s \in case.Sessions : SignedHonoured(case, s)
           => SignedHonoured(case, s)'
  PROVE  SignedInv(case)'
<1>1. ASSUME NEW c \in case.Commands, sessionLock = c PROVE SignedHonoured(case, cmd[c].s)'
  <2>1. cmd[c].s \in case.Sessions
    BY <1>1 DEF SignedInv
  <2>2. SignedHonoured(case, cmd[c].s)
    BY <1>1 DEF SignedInv
  <2> QED BY <2>1, <2>2 DEF SignedHonoured, Signed!Lives
<1>2. \A c \in case.Commands : sessionLock' = c => SignedHonoured(case, cmd[c].s)'
  BY <1>1
<1> QED BY <1>2 DEF SignedInv, SignedHonoured, Signed!Lives

\* What becomes of a record when some of its fields are set.
SignedRenewed(x, g, p, t, l, e, u) ==
  [x EXCEPT !.token = g, !.previous = p, !.refreshedAt = t, !.refreshExpires = l, !.expires = e,
    !.used = u]
SignedIssued(x, g, l, e, u) ==
  [x EXCEPT !.state = "LIVE", !.token = g, !.created = u, !.used = u, !.expires = e,
    !.refreshExpires = l]

LEMMA SignedRowRenewed ==
  ASSUME NEW case, NEW x \in SignedRow(case), NEW g \in Int, NEW p \in Int, NEW t \in Int,
         NEW l \in Int, NEW e \in Int, NEW u \in Int
  PROVE  SignedRenewed(x, g, p, t, l, e, u) \in SignedRow(case)
         /\ SignedRenewed(x, g, p, t, l, e, u).state = x.state
         /\ SignedRenewed(x, g, p, t, l, e, u).by = x.by
BY DEF SignedRow, SignedRenewed

LEMMA SignedRowIssued ==
  ASSUME NEW case, NEW x \in SignedRow(case), NEW g \in Int, NEW l \in Int, NEW e \in Int,
         NEW u \in Int
  PROVE  SignedIssued(x, g, l, e, u) \in SignedRow(case)
         /\ SignedIssued(x, g, l, e, u).state = "LIVE"
BY DEF SignedRow, SignedIssued

LEMMA SignedRowUsed ==
  ASSUME NEW case, NEW x \in SignedRow(case), NEW u \in Int
  PROVE  [x EXCEPT !.used = u] \in SignedRow(case) /\ [x EXCEPT !.used = u].state = x.state
BY DEF SignedRow

LEMMA SignedExchangeAnswered ==
  ASSUME NEW case, NEW x \in SignedExchange(case), NEW g \in Int
  PROVE  LET y == [x EXCEPT !.pc = "answered", !.token = g] IN y \in SignedExchange(case)
         /\ y.s = x.s
BY DEF SignedExchange

LEMMA SignedRotated ==
  ASSUME NEW case, Signed(case)!SessionsAssumption, SignedInv(case), NEW s \in case.Sessions,
         NEW p \in Int, NEW t \in Int,
         sessionSess' = Signed(case)!rotate(s, p, t)
  PROVE  sessionSess' \in [case.Sessions -> SignedRow(case)]
         /\ \A u \in case.Sessions : SignedHonoured(case, u) => SignedHonoured(case, u)'
<1> DEFINE limit ==
      Signed(case)!Min({sessionClock + case.refreshIdle,
      sessionSess[s].created + case.refreshLimit})
           expires == Signed(case)!Min({sessionClock + case.accessLifetime, limit})
           row == SignedRenewed(sessionSess[s], sessionSess[s].token + 1, p, t, limit, expires,
             sessionClock)
<1>1. /\ sessionClock \in Int /\ sessionSess[s] \in SignedRow(case) /\ case.refreshIdle \in Nat
         /\ case.refreshLimit \in Nat
      /\ case.accessLifetime \in Nat
  BY DEF SignedInv, Signed!SessionsAssumption
<1>2. limit \in Int
  <2>1. sessionClock + case.refreshIdle \in Int
          /\ sessionSess[s].created + case.refreshLimit \in Int
    BY <1>1 DEF SignedRow
  <2> QED BY <2>1, SignedLeastOf, Zenon
<1>3. sessionSess' = [sessionSess EXCEPT ![s] = row]
  BY Zenon DEF Signed!rotate, Signed!RotateSession, SignedRenewed
<1> HIDE DEF limit
<1>4. expires \in Int /\ sessionSess[s].token + 1 \in Int
  <2>1. sessionClock + case.accessLifetime \in Int /\ sessionSess[s].token + 1 \in Int
    BY <1>1 DEF SignedRow
  <2> QED BY <1>2, <2>1, SignedLeastOf, Zenon
<1> HIDE DEF expires
<1>5. row \in SignedRow(case) /\ row.state = sessionSess[s].state /\ row.by = sessionSess[s].by
  BY <1>1, <1>2, <1>4, SignedRowRenewed
<1> HIDE DEF row
<1>6. sessionSess' \in [case.Sessions -> SignedRow(case)]
  BY <1>3, <1>5 DEF SignedInv
<1>7. \A u \in case.Sessions : sessionSess'[u].state = sessionSess[u].state
        /\ sessionSess'[u].by = sessionSess[u].by
  BY <1>3, <1>5 DEF SignedInv
<1> QED BY <1>6, <1>7 DEF SignedHonoured, Signed!Lives

LEMMA SignedInit ==
  ASSUME NEW case, Signed(case)!SessionsAssumption, Signed(case)!Init
  PROVE  SignedInv(case)
<1>1. Signed(case)!NoSession \in SignedRow(case) /\ Signed(case)!NoCommand \in SignedOrder(case)
        /\ Signed(case)!NoRefresh \in SignedExchange(case)
  BY DEF Signed!NoSession, SignedRow, Signed!NoCommand, SignedOrder, Signed!NoRefresh,
     SignedExchange
<1>2. \A c \in case.Commands : cmd[c].pc = "idle" /\ sessionLock # c
  BY DEF Signed!Init, Signed!NoCommand, Signed!SessionsAssumption
<1>3. \A r \in case.Refreshes : ref[r].pc = "idle"
  BY DEF Signed!Init, Signed!NoRefresh
<1> QED BY <1>1, <1>2, <1>3 DEF Signed!Init, SignedInv

LEMMA SignedIssueStep ==
  ASSUME NEW case, Signed(case)!SessionsAssumption, SignedInv(case), NEW s \in case.Sessions,
         Signed(case)!issueSession(s)
  PROVE  SignedInv(case)'
<1>1. sessionClock \in Nat /\ case.refreshIdle \in Nat /\ case.accessLifetime \in Nat
  BY DEF SignedInv, Signed!SessionsAssumption
<1> DEFINE expires ==
      sessionClock + (IF s \in case.Apps THEN case.accessLifetime ELSE case.refreshIdle)
           refreshes == IF s \in case.Apps THEN sessionClock + case.refreshIdle ELSE 0
           first == 1
           row == SignedIssued(Signed(case)!NoSession, first, refreshes, expires, sessionClock)
<1>2. sessionSess' = [sessionSess EXCEPT ![s] = row]
  BY Zenon DEF Signed!issueSession, Signed!InsertSession, SignedIssued
<1>3. expires \in Int /\ refreshes \in Int /\ sessionClock \in Int /\ first \in Int
  BY <1>1
<1>4. Signed(case)!NoSession \in SignedRow(case)
  BY DEF Signed!NoSession, SignedRow
<1> HIDE DEF expires, refreshes, first
<1>5. row \in SignedRow(case) /\ row.state = "LIVE"
  BY <1>3, <1>4, SignedRowIssued
<1> HIDE DEF row
<1>6. sessionSess' \in [case.Sessions -> SignedRow(case)]
        /\ \A u \in case.Sessions : SignedHonoured(case, u) => SignedHonoured(case, u)'
  BY <1>2, <1>5 DEF SignedInv, SignedHonoured, Signed!Lives
<1>7. held' \in [case.Sessions -> Int]
  BY DEF Signed!issueSession, SignedInv
<1> QED BY <1>6, <1>7, SignedAside DEF Signed!issueSession, SignedInv

LEMMA SignedEndsTyped ==
  ASSUME NEW case, SignedInv(case), NEW r \in case.Refreshes,
         ref' = [ref EXCEPT ![r] = Signed(case)!NoRefresh]
  PROVE  ref' \in [case.Refreshes -> SignedExchange(case)]
         /\ \A q \in case.Refreshes : ref'[q].pc # "idle" => ref'[q].s \in case.Sessions
<1>1. Signed(case)!NoRefresh \in SignedExchange(case) /\ Signed(case)!NoRefresh.pc = "idle"
  BY DEF Signed!NoRefresh, SignedExchange
<1> QED BY <1>1 DEF SignedInv

LEMMA SignedRefreshStep ==
  ASSUME NEW case, Signed(case)!SessionsAssumption, SignedInv(case), NEW r \in case.Refreshes,
         (\E s \in case.Apps : Signed(case)!SendRefresh(r, s)) \/ Signed(case)!GiveUp(r)
           \/ Signed(case)!Refresh(r) \/ Signed(case)!Reused(r) \/ Signed(case)!Denied(r)
           \/ Signed(case)!Receive(r)
  PROVE  SignedInv(case)'
<1> DEFINE s == ref[r].s
<1>0. /\ ref[r] \in SignedExchange(case)
         /\ (ref[r].pc # "idle" => s \in case.Sessions /\ sessionSess[s] \in SignedRow(case))
      /\ sessionClock \in Int /\ sessionSess \in [case.Sessions -> SignedRow(case)]
         /\ held \in [case.Sessions -> Int] /\ sessionClock \in Nat
  BY DEF SignedInv
<1>1. CASE \E a \in case.Apps : Signed(case)!SendRefresh(r, a)
  <2>1. PICK a \in case.Apps : Signed(case)!SendRefresh(r, a)
    BY <1>1
  <2>2. a \in case.Sessions /\ held[a] \in Int
    BY <1>0 DEF Signed!SessionsAssumption
  <2> DEFINE x == [pc |-> "sent", s |-> a, token |-> held[a]]
  <2>3. x \in SignedExchange(case) /\ x.s = a
    BY <2>2 DEF SignedExchange
  <2>4. ref' = [ref EXCEPT ![r] = x]
    BY <2>1 DEF Signed!SendRefresh
  <2> HIDE DEF x
  <2>5. /\ ref' \in [case.Refreshes -> SignedExchange(case)]
        /\ \A q \in case.Refreshes : ref'[q].pc # "idle" => ref'[q].s \in case.Sessions
    BY <2>2, <2>3, <2>4 DEF SignedInv
  <2> QED BY <1>0, <2>1, <2>5, SignedAside DEF Signed!SendRefresh, SignedHonoured, Signed!Lives
<1>2. CASE Signed(case)!GiveUp(r)
  BY <1>0, <1>2, SignedEndsTyped, SignedAside DEF Signed!GiveUp, SignedHonoured, Signed!Lives
<1>3. CASE Signed(case)!Refresh(r)
  <2>1. s \in case.Sessions /\ sessionSess[s].previous \in Int
          /\ sessionSess[s].refreshedAt \in Int /\ sessionSess[s].token \in Int
    BY <1>0, <1>3 DEF Signed!Refresh, Signed!RefreshingSession, SignedRow
  <2>2. sessionSess' = Signed(case)!rotate(s, sessionSess[s].token, sessionClock)
          \/ sessionSess' = Signed(case)!rotate(s, sessionSess[s].previous,
          sessionSess[s].refreshedAt)
    BY <1>3 DEF Signed!Refresh, Signed!Again
  <2>3. sessionSess' \in [case.Sessions -> SignedRow(case)]
          /\ \A u \in case.Sessions : SignedHonoured(case, u) => SignedHonoured(case, u)'
    BY <1>0, <2>1, <2>2, SignedRotated
  <2> DEFINE x == [ref[r] EXCEPT !.pc = "answered", !.token = sessionSess[s].token + 1]
  <2>4. x \in SignedExchange(case) /\ x.s = ref[r].s
    <3>1. sessionSess[s].token + 1 \in Int
      BY <2>1
    <3> QED BY <1>0, <3>1, SignedExchangeAnswered, Zenon
  <2>5. ref' = [ref EXCEPT ![r] = x]
    BY <1>3, Zenon DEF Signed!Refresh
  <2> HIDE DEF x
  <2>6. /\ ref' \in [case.Refreshes -> SignedExchange(case)]
        /\ \A q \in case.Refreshes : ref'[q].pc # "idle" => ref'[q].s \in case.Sessions
    BY <2>1, <2>4, <2>5 DEF SignedInv
  <2>7. sessionClock' \in Nat /\ held' \in [case.Sessions -> Int] /\ UNCHANGED <<cmd, sessionLock>>
    BY <1>0, <1>3 DEF Signed!Refresh
  <2> QED BY <2>3, <2>6, <2>7, SignedAside
<1>4. CASE Signed(case)!Reused(r)
  <2>1. sessionSess' = Signed(case)!Revoked({s}, "REFRESH_REUSED")
    BY <1>4 DEF Signed!Reused, Signed!RevokeSessionByID
  <2>2. sessionSess' \in [case.Sessions -> SignedRow(case)]
          /\ \A u \in case.Sessions : SignedHonoured(case, u) => SignedHonoured(case, u)'
    BY <2>1, SignedRevokedHonours
  <2>3. ref' = [ref EXCEPT ![r] = Signed(case)!NoRefresh] /\ sessionClock' \in Nat
          /\ held' \in [case.Sessions -> Int] /\ UNCHANGED <<cmd, sessionLock>>
    BY <1>0, <1>4 DEF Signed!Reused, Signed!Ends
  <2> QED BY <2>2, <2>3, SignedEndsTyped, SignedAside
<1>5. CASE Signed(case)!Denied(r)
  BY <1>0, <1>5, SignedEndsTyped, SignedAside DEF Signed!Denied, Signed!Ends, SignedHonoured,
     Signed!Lives
<1>6. CASE Signed(case)!Receive(r)
  <2>1. s \in case.Sessions /\ ref[r].token \in Int
    BY <1>0, <1>6 DEF Signed!Receive, SignedExchange
  <2>2. held' \in [case.Sessions -> Int]
    BY <1>0, <1>6, <2>1 DEF Signed!Receive
  <2> QED BY <1>0, <1>6, <2>2, SignedEndsTyped, SignedAside DEF Signed!Receive, Signed!Ends,
        SignedHonoured, Signed!Lives
<1> QED BY <1>1, <1>2, <1>3, <1>4, <1>5, <1>6

\* A command goes on: it stays clear of the donor's row, or takes it with a
\* session that lives, or gives it back.
LEMMA SignedMoves ==
  ASSUME NEW case, Signed(case)!SessionsAssumption, SignedInv(case), NEW c \in case.Commands,
         NEW x \in SignedOrder(case), cmd' = [cmd EXCEPT ![c] = x],
         x.pc # "idle" => x.s \in case.Sessions,
         sessionSess' \in [case.Sessions -> SignedRow(case)],
         UNCHANGED <<sessionClock, held, ref>>,
         \/ /\ cmd[c].pc # "locked" /\ x.pc # "locked" /\ sessionLock' = sessionLock
            /\ \A s \in case.Sessions : SignedHonoured(case, s) => SignedHonoured(case, s)'
         \/ sessionLock = "none" /\ sessionLock' = c /\ x.pc = "locked"
            /\ SignedHonoured(case, x.s)'
         \/ cmd[c].pc = "locked" /\ sessionLock' = "none" /\ x.pc = "done"
  PROVE  SignedInv(case)'
<1>1. /\ cmd' \in [case.Commands -> SignedOrder(case)] /\ cmd'[c] = x
         /\ \A e \in case.Commands \ {c} : cmd'[e] = cmd[e]
      /\ \A e \in case.Commands : cmd'[e].pc # "idle" => cmd'[e].s \in case.Sessions
  BY DEF SignedInv
<1>2. /\ \A e \in case.Commands : cmd[e].pc = "locked" <=> sessionLock = e
      /\ \A e \in case.Commands : sessionLock = e
         => SignedHonoured(case, cmd[e].s) /\ cmd[e].s \in case.Sessions
      /\ c # "none"
  BY DEF SignedInv, Signed!SessionsAssumption
<1>3. \A e \in case.Commands : cmd'[e].pc = "locked" <=> sessionLock' = e
  BY <1>1, <1>2 DEF Signed!SessionsAssumption
<1>4. ASSUME NEW e \in case.Commands, sessionLock' = e PROVE SignedHonoured(case, cmd[e].s)'
  <2>1. CASE e = c
    <3>1. x.pc = "locked"
      BY <1>1, <1>3, <1>4, <2>1
    <3>2. SignedHonoured(case, x.s)'
      BY <1>2, <1>4, <3>1
    <3> QED BY <1>1, <2>1, <3>2 DEF SignedHonoured, Signed!Lives
  <2>2. CASE e # c
    <3>1. /\ sessionLock = e /\ \A s \in case.Sessions : SignedHonoured(case, s)
             => SignedHonoured(case, s)'
      BY <1>2, <1>4, <2>2 DEF Signed!SessionsAssumption
    <3> QED BY <1>1, <1>2, <2>2, <3>1 DEF SignedHonoured, Signed!Lives
  <2> QED BY <2>1, <2>2
<1> QED BY <1>1, <1>3, <1>4 DEF SignedInv

LEMMA SignedCommandStep ==
  ASSUME NEW case, Signed(case)!SessionsAssumption, SignedInv(case), NEW c \in case.Commands,
         \/ \E kind \in case.Kinds, s, t \in case.Sessions : Signed(case)!SendCommand(c, kind, s, t)
         \/ Signed(case)!SignOut(c) \/ Signed(case)!Admit(c) \/ Signed(case)!lockSignedIn(c)
         \/ Signed(case)!SignOutSession(c) \/ Signed(case)!SignOutOthers(c)
            \/ Signed(case)!SignOutEverywhere(c)
  PROVE  SignedInv(case)'
<1>0. /\ cmd[c] \in SignedOrder(case) /\ (cmd[c].pc # "idle" => cmd[c].s \in case.Sessions)
      /\ sessionSess \in [case.Sessions -> SignedRow(case)] /\ sessionClock \in Nat
         /\ held \in [case.Sessions -> Int]
  BY DEF SignedInv
<1>1. ASSUME NEW p \in {"done", "admitted", "locked"}, cmd[c].pc # "idle"
      PROVE  /\ [cmd[c] EXCEPT !.pc = p] \in SignedOrder(case) /\ [cmd[c] EXCEPT !.pc = p].pc = p
             /\ [cmd[c] EXCEPT !.pc = p].s = cmd[c].s /\ cmd[c].s \in case.Sessions
  BY <1>0, <1>1 DEF SignedOrder
<1>2. CASE \E kind \in case.Kinds, s, t \in case.Sessions : Signed(case)!SendCommand(c, kind, s, t)
  <2>1. PICK kind \in case.Kinds, s \in case.Sessions,
          t \in case.Sessions : Signed(case)!SendCommand(c, kind, s, t)
    BY <1>2
  <2> DEFINE x == [pc |-> "sent", kind |-> kind, s |-> s, token |-> held[s], of |-> t]
  <2>2. x \in SignedOrder(case) /\ x.s = s /\ x.pc = "sent"
    BY <1>0 DEF SignedOrder
  <2>3. cmd' = [cmd EXCEPT ![c] = x] /\ cmd[c].pc # "locked"
    BY <2>1 DEF Signed!SendCommand, Signed!NoCommand
  <2> HIDE DEF x
  <2>4. sessionSess' \in [case.Sessions -> SignedRow(case)]
          /\ UNCHANGED <<sessionClock, held, ref, sessionLock>>
          /\ (\A u \in case.Sessions : SignedHonoured(case, u) => SignedHonoured(case, u)')
    BY <1>0, <2>1 DEF Signed!SendCommand, SignedHonoured, Signed!Lives
  <2> QED BY <2>2, <2>3, <2>4, SignedMoves
<1>3. CASE Signed(case)!SignOut(c)
  <2>1. sessionSess' = Signed(case)!Revoked({cmd[c].s}, "SignOut") \/ sessionSess' = sessionSess
    BY <1>3 DEF Signed!SignOut, Signed!RevokeSession
  <2>2. sessionSess' \in [case.Sessions -> SignedRow(case)]
          /\ \A u \in case.Sessions : SignedHonoured(case, u) => SignedHonoured(case, u)'
    BY <1>0, <2>1, SignedRevokedHonours DEF SignedHonoured, Signed!Lives
  <2>3. cmd' = [cmd EXCEPT ![c] = [cmd[c] EXCEPT !.pc = "done"]] /\ cmd[c].pc = "sent"
          /\ UNCHANGED <<sessionClock, held, ref, sessionLock>>
    BY <1>3 DEF Signed!SignOut
  <2> QED BY <1>1, <2>2, <2>3, SignedMoves
<1>4. CASE Signed(case)!Admit(c)
  <2>1. PICK p \in {"admitted", "done"} : cmd' = [cmd EXCEPT ![c] = [cmd[c] EXCEPT !.pc = p]]
    BY <1>4 DEF Signed!Admit
  <2>2. cmd[c].pc = "sent" /\ UNCHANGED <<sessionClock, held, ref, sessionLock, sessionSess>>
    BY <1>4 DEF Signed!Admit
  <2>3. \A u \in case.Sessions : SignedHonoured(case, u) => SignedHonoured(case, u)'
    BY <2>2 DEF SignedHonoured, Signed!Lives
  <2> QED BY <1>0, <1>1, <2>1, <2>2, <2>3, SignedMoves
<1>5. CASE Signed(case)!lockSignedIn(c)
  <2>1. cmd[c].pc = "admitted" /\ sessionLock = "none" /\ UNCHANGED <<sessionClock, held, ref>>
    BY <1>5 DEF Signed!lockSignedIn
  <2>2. CASE ~Signed(case)!StillSignedIn(c)
    <3>1. cmd' = [cmd EXCEPT ![c] = [cmd[c] EXCEPT !.pc = "done"]]
            /\ UNCHANGED <<sessionSess, sessionLock>>
      BY <1>5, <2>2 DEF Signed!lockSignedIn
    <3>2. \A u \in case.Sessions : SignedHonoured(case, u) => SignedHonoured(case, u)'
      BY <3>1 DEF SignedHonoured, Signed!Lives
    <3> QED BY <1>0, <1>1, <2>1, <3>1, <3>2, SignedMoves
  <2>3. CASE Signed(case)!StillSignedIn(c)
    <3>1. cmd' = [cmd EXCEPT ![c] = [cmd[c] EXCEPT !.pc = "locked"]] /\ sessionLock' = c
      BY <1>5, <2>3 DEF Signed!lockSignedIn
    <3>2. cmd[c].s \in case.Sessions /\ sessionSess[cmd[c].s].state = "LIVE"
      BY <1>0, <2>1, <2>3 DEF Signed!StillSignedIn, Signed!authenticate, Signed!AuthenticatedDonor,
         Signed!Lives
    <3>3. sessionSess' = sessionSess
            \/ sessionSess' = [sessionSess EXCEPT ![cmd[c].s] = [sessionSess[cmd[c].s] EXCEPT !.used = sessionClock]]
      BY <1>5, <2>3 DEF Signed!lockSignedIn
    <3>4. [sessionSess[cmd[c].s] EXCEPT !.used = sessionClock] \in SignedRow(case)
            /\ [sessionSess[cmd[c].s] EXCEPT !.used = sessionClock].state = "LIVE"
      BY <1>0, <3>2, SignedRowUsed
    <3> DEFINE x == [cmd[c] EXCEPT !.pc = "locked"]
    <3>5. x \in SignedOrder(case) /\ x.pc = "locked" /\ x.s = cmd[c].s
      BY <1>1, <2>1
    <3> HIDE DEF x
    <3>6. sessionSess' \in [case.Sessions -> SignedRow(case)] /\ sessionSess'[x.s].state = "LIVE"
      BY <1>0, <3>2, <3>3, <3>4, <3>5
    <3> QED BY <2>1, <3>1, <3>2, <3>5, <3>6, SignedMoves DEF SignedHonoured, Signed!Lives, x
  <2> QED BY <2>2, <2>3
<1>6. CASE Signed(case)!SignOutSession(c) \/ Signed(case)!SignOutOthers(c)
        \/ Signed(case)!SignOutEverywhere(c)
  <2>1. /\ cmd[c].pc = "locked" /\ sessionLock' = "none" /\ UNCHANGED <<sessionClock, held, ref>>
        /\ cmd' = [cmd EXCEPT ![c] = [cmd[c] EXCEPT !.pc = "done"]]
    BY <1>6 DEF Signed!SignOutSession, Signed!SignOutOthers, Signed!SignOutEverywhere,
       Signed!sessionWrite
  <2>3. sessionSess' \in [case.Sessions -> SignedRow(case)]
    <3>1. CASE Signed(case)!SignOutSession(c)
      <4>1. sessionSess' = sessionSess
              \/ sessionSess' = Signed(case)!Revoked({cmd[c].of}, "SignOutSession")
        BY <3>1 DEF Signed!SignOutSession, Signed!RevokeSessionByID
      <4> QED BY <1>0, <4>1, SignedRevokedHonours
    <3>2. CASE Signed(case)!SignOutOthers(c)
      <4>1. sessionSess' = Signed(case)!Revoked({t \in case.Sessions : t # cmd[c].s
              \/ sessionSess[t].token # cmd[c].token}, "SignOutOthers")
        BY <3>2 DEF Signed!SignOutOthers, Signed!RevokeOtherSessions
      <4> QED BY <4>1, SignedRevokedHonours
    <3>3. CASE Signed(case)!SignOutEverywhere(c)
      <4>1. sessionSess' = Signed(case)!Revoked(case.Sessions, "SignOutEverywhere")
        BY <3>3 DEF Signed!SignOutEverywhere, Signed!RevokeAllSessions
      <4> QED BY <4>1, SignedRevokedHonours
    <3> QED BY <1>6, <3>1, <3>2, <3>3
  <2> QED BY <1>1, <2>1, <2>3, SignedMoves
<1> QED BY <1>2, <1>3, <1>4, <1>5, <1>6

LEMMA SignedStep ==
  ASSUME NEW case, Signed(case)!SessionsAssumption, SignedInv(case), Signed(case)!Next
  PROVE  SignedInv(case)'
<1>1. CASE \E s \in case.Sessions : Signed(case)!issueSession(s)
  BY <1>1, SignedIssueStep
<1>2. CASE \E r \in case.Refreshes : (\E s \in case.Apps : Signed(case)!SendRefresh(r, s))
        \/ Signed(case)!GiveUp(r) \/ Signed(case)!Refresh(r) \/ Signed(case)!Reused(r)
        \/ Signed(case)!Denied(r) \/ Signed(case)!Receive(r)
  BY <1>2, SignedRefreshStep
<1>3. CASE \/ \E c \in case.Commands, kind \in case.Kinds, s,
              t \in case.Sessions : Signed(case)!SendCommand(c, kind, s, t)
           \/ \E c \in case.Commands : \/ Signed(case)!SignOut(c) \/ Signed(case)!Admit(c)
                                          \/ Signed(case)!lockSignedIn(c)
                                       \/ Signed(case)!SignOutSession(c)
                                          \/ Signed(case)!SignOutOthers(c)
                                          \/ Signed(case)!SignOutEverywhere(c)
  BY <1>3, SignedCommandStep, Zenon
<1>4. CASE Signed(case)!Tick
  BY <1>4, SignedAside DEF Signed!Tick, SignedInv, SignedHonoured, Signed!Lives
<1> QED BY <1>1, <1>2, <1>3, <1>4 DEF Signed!Next

-----------------------------------------------------------------------------
(***************************************************************************)
(* Email changes. An account moves by a change whose proofs were mailed to *)
(* the addresses it names; no two accounts, of donors or staff, have one   *)
(* address.                                                                *)
(***************************************************************************)
AddressOwner(case) == [email : case.Addresses \cup {"none"}, ways : SUBSET Address(case)!Ways]
AddressAsked(case) == {0} \cup {Address(case)!Cardinality(S) + 1 : S \in SUBSET case.Changes}
AddressChange(case) ==
  [stage : {"NONE", "CURRENT", "NEW", "COMPLETED", "CANCELED"},
   donor : case.Donors \cup {"none"}, old : case.Addresses \cup {"none"},
   new : case.Addresses \cup {"none"}, expires : Int, sent : BOOLEAN, attempts : Int, at : Int,
   seq : AddressAsked(case)]
AddressDelivery(case) ==
  [pc : {"idle", "found", "sending", "sent"}, change : case.Changes \cup {"none"},
   proof : {"none", "CURRENT", "NEW"}]

\* What proves an address of a change, which names a donor and another address.
AddressProof(c, stage) ==
  [change |-> c, stage |-> stage, to |-> IF stage = "NEW" THEN change[c].new ELSE change[c].old]
AddressMade(case, c) == change[c].donor \in case.Donors /\ change[c].new \in case.Addresses
AddressSendable(case, x) ==
  x.pc \in {"sending", "sent"} => x.change \in case.Changes /\ x.proof \in {"CURRENT", "NEW"}
                                  /\ change[x.change].stage # "NONE"
AddressGenuine(case, i) ==
  /\ i.change \in case.Changes /\ i.stage \in {"CURRENT", "NEW"} /\ change[i.change].stage # "NONE"
  /\ i = AddressProof(i.change, i.stage)
AddressPresented(case, x) ==
  x.pc = "found" => x.change \in case.Changes /\ x.proof \in {"CURRENT", "NEW"}
                    /\ AddressProof(x.change, x.proof) \in inbox

AddressTyped(case) ==
  /\ addressClock \in Int /\ addressDonor \in [case.Donors -> AddressOwner(case)]
     /\ addressStaff \subseteq case.Addresses
  /\ change \in [case.Changes -> AddressChange(case)]
  /\ addressWork \in [case.Workers -> AddressDelivery(case)]
     /\ conf \in [case.Confirmers -> AddressDelivery(case)]

\* A proof that is presented was mailed, and one for each stage a change has left.
AddressInv(case) ==
  /\ AddressTyped(case) /\ Address(case)!OneRole
  /\ \A c \in case.Changes : change[c].stage # "NONE" => AddressMade(case, c)
  /\ \A i \in inbox : AddressGenuine(case, i)
  /\ \A w \in case.Workers : AddressSendable(case, addressWork[w])
  /\ \A p \in case.Confirmers : AddressPresented(case, conf[p])
  /\ \A c \in case.Changes : change[c].stage = "NEW" => AddressProof(c, "CURRENT") \in inbox
  /\ Address(case)!ProvedTwice

LEMMA AddressLeastOf ==
  ASSUME NEW case, NEW a \in Int, NEW b \in Int
  PROVE  Address(case)!Min({a, b}) \in Int
<1>1. \E x \in {a, b} : \A y \in {a, b} : x <= y
  OBVIOUS
<1> QED BY <1>1 DEF Address!Min

LEMMA AddressKeeps ==
  ASSUME NEW case, AddressInv(case), AddressTyped(case)', Address(case)!OneRole',
         inbox \subseteq inbox',
         \A c \in case.Changes : change[c].stage # "NONE" =>
           /\ change'[c].stage # "NONE" /\ change'[c].donor = change[c].donor
           /\ change'[c].old = change[c].old /\ change'[c].new = change[c].new,
         \A c \in case.Changes : change'[c].stage # "NONE" => AddressMade(case, c)',
         \A c \in case.Changes : change'[c].stage = "NEW" =>
           change[c].stage = "NEW"
             \/ (change[c].stage # "NONE" /\ AddressProof(c, "CURRENT") \in inbox),
         \A c \in case.Changes : change'[c].stage = "COMPLETED" =>
           \/ change[c].stage = "COMPLETED"
           \/ change[c].stage # "NONE" /\ AddressProof(c, "CURRENT") \in inbox
              /\ AddressProof(c, "NEW") \in inbox,
         \A i \in inbox' : i \in inbox \/ AddressGenuine(case, i),
         \A w \in case.Workers : addressWork'[w] = addressWork[w]
           \/ AddressSendable(case, addressWork'[w]),
         \A p \in case.Confirmers : conf'[p] = conf[p] \/ AddressPresented(case, conf'[p])
  PROVE  AddressInv(case)'
<1>1. ASSUME NEW c \in case.Changes, change[c].stage # "NONE", NEW stage
      PROVE  AddressProof(c, stage)' = AddressProof(c, stage)
  BY <1>1 DEF AddressProof
<1>2. \A i \in inbox' : AddressGenuine(case, i)'
  <2> SUFFICES ASSUME NEW i \in inbox' PROVE AddressGenuine(case, i)'
    OBVIOUS
  <2>1. AddressGenuine(case, i)
    BY DEF AddressInv
  <2>2. change[i.change].stage # "NONE" /\ i.change \in case.Changes
          /\ AddressProof(i.change, i.stage)' = AddressProof(i.change, i.stage)
    BY <1>1, <2>1 DEF AddressGenuine
  <2> QED BY <2>1, <2>2 DEF AddressGenuine
<1>3. \A w \in case.Workers : AddressSendable(case, addressWork[w])'
  <2> SUFFICES ASSUME NEW w \in case.Workers PROVE AddressSendable(case, addressWork[w])'
    OBVIOUS
  <2>1. AddressSendable(case, addressWork'[w])
    BY DEF AddressInv
  <2> QED BY <2>1 DEF AddressSendable
<1>4. \A p \in case.Confirmers : AddressPresented(case, conf[p])'
  <2> SUFFICES ASSUME NEW p \in case.Confirmers, conf'[p].pc = "found"
               PROVE  AddressPresented(case, conf[p])'
    BY DEF AddressPresented
  <2> PICK x : x = conf'[p]
    OBVIOUS
  <2>1. AddressPresented(case, x)
    BY DEF AddressInv
  <2>2. x.change \in case.Changes /\ x.proof \in {"CURRENT", "NEW"}
          /\ AddressProof(x.change, x.proof) \in inbox
    BY <2>1 DEF AddressPresented
  <2>3. AddressGenuine(case, AddressProof(x.change, x.proof))
    BY <2>2 DEF AddressInv
  <2>4. change[x.change].stage # "NONE"
    BY <2>3 DEF AddressGenuine, AddressProof
  <2>5. AddressProof(x.change, x.proof)' = AddressProof(x.change, x.proof)
    BY <1>1, <2>2, <2>4
  <2>6. AddressPresented(case, x)'
    BY <2>2, <2>5 DEF AddressPresented
  <2> QED BY <2>6 DEF AddressPresented
<1>5. \A c \in case.Changes : change'[c].stage = "NEW" => AddressProof(c, "CURRENT")' \in inbox'
  <2> SUFFICES ASSUME NEW c \in case.Changes, change'[c].stage = "NEW"
               PROVE  AddressProof(c, "CURRENT")' \in inbox'
    OBVIOUS
  <2>1. change[c].stage # "NONE" /\ AddressProof(c, "CURRENT") \in inbox
    BY DEF AddressInv
  <2> QED BY <1>1, <2>1
<1>6. Address(case)!ProvedTwice'
  <2> SUFFICES ASSUME NEW c \in case.Changes, change'[c].stage = "COMPLETED"
               PROVE  AddressProof(c, "CURRENT")' \in inbox' /\ AddressProof(c, "NEW")' \in inbox'
    BY DEF Address!ProvedTwice, AddressProof
  <2>1. change[c].stage # "NONE" /\ AddressProof(c, "CURRENT") \in inbox
          /\ AddressProof(c, "NEW") \in inbox
    BY DEF AddressInv, Address!ProvedTwice, AddressProof
  <2> QED BY <1>1, <2>1
<1> QED BY <1>2, <1>3, <1>4, <1>5, <1>6 DEF AddressInv

\* What becomes of a change's record when some of its fields are set.
AddressInserted(x, d, old, new, expires, at, seq) ==
  [x EXCEPT !.stage = "CURRENT", !.donor = d, !.old = old, !.new = new,
     !.expires = expires, !.at = at, !.seq = seq]
AddressAdvanced(x, expires, sent, attempts, at) ==
  [x EXCEPT !.stage = "NEW", !.expires = expires, !.sent = sent, !.attempts = attempts, !.at = at]
AddressTried(x, attempts, at) == [x EXCEPT !.attempts = attempts, !.at = at]
AddressMarked(x) == [x EXCEPT !.sent = TRUE]
AddressLater(x, at) == [x EXCEPT !.at = at]
AddressEntered(x, stage) == [x EXCEPT !.stage = stage]
AddressSameOffer(x, y) == y.donor = x.donor /\ y.old = x.old /\ y.new = x.new

LEMMA AddressInsertedIs ==
  ASSUME NEW case, NEW x \in AddressChange(case), NEW d \in case.Donors,
         NEW old \in case.Addresses \cup {"none"}, NEW new \in case.Addresses, NEW e \in Int,
         NEW t \in Int, NEW n \in AddressAsked(case)
  PROVE  /\ AddressInserted(x, d, old, new, e, t, n) \in AddressChange(case)
            /\ AddressInserted(x, d, old, new, e, t, n).stage = "CURRENT"
         /\ AddressInserted(x, d, old, new, e, t, n).donor = d
            /\ AddressInserted(x, d, old, new, e, t, n).new = new
BY DEF AddressInserted, AddressChange

LEMMA AddressEnteredIs ==
  ASSUME NEW case, NEW x \in AddressChange(case), NEW stage \in {"CANCELED", "COMPLETED"}
  PROVE  AddressEntered(x, stage) \in AddressChange(case) /\ AddressEntered(x, stage).stage = stage
         /\ AddressSameOffer(x, AddressEntered(x, stage))
BY DEF AddressEntered, AddressChange, AddressSameOffer

LEMMA AddressMarkedIs ==
  ASSUME NEW case, NEW x \in AddressChange(case)
  PROVE  AddressMarked(x) \in AddressChange(case) /\ AddressMarked(x).stage = x.stage
         /\ AddressSameOffer(x, AddressMarked(x))
BY DEF AddressMarked, AddressChange, AddressSameOffer

LEMMA AddressLaterIs ==
  ASSUME NEW case, NEW x \in AddressChange(case), NEW t \in Int
  PROVE  AddressLater(x, t) \in AddressChange(case) /\ AddressLater(x, t).stage = x.stage
         /\ AddressSameOffer(x, AddressLater(x, t))
BY DEF AddressLater, AddressChange, AddressSameOffer

LEMMA AddressTriedIs ==
  ASSUME NEW case, NEW x \in AddressChange(case), NEW n \in Int, NEW t \in Int
  PROVE  AddressTried(x, n, t) \in AddressChange(case) /\ AddressTried(x, n, t).stage = x.stage
         /\ AddressSameOffer(x, AddressTried(x, n, t))
BY DEF AddressTried, AddressChange, AddressSameOffer

LEMMA AddressAdvancedIs ==
  ASSUME NEW case, NEW x \in AddressChange(case), NEW e \in Int, NEW b \in BOOLEAN, NEW n \in Int,
         NEW t \in Int
  PROVE  /\ AddressAdvanced(x, e, b, n, t) \in AddressChange(case)
            /\ AddressAdvanced(x, e, b, n, t).stage = "NEW"
         /\ AddressSameOffer(x, AddressAdvanced(x, e, b, n, t))
BY DEF AddressAdvanced, AddressChange, AddressSameOffer

LEMMA AddressCanceledIs ==
  ASSUME NEW case, change \in [case.Changes -> AddressChange(case)], NEW d
  PROVE  /\ Address(case)!CancelEmailChanges(d) \in [case.Changes -> AddressChange(case)]
         /\ \A c \in case.Changes : /\ AddressSameOffer(change[c],
                                       Address(case)!CancelEmailChanges(d)[c])
                                    /\ \/ Address(case)!CancelEmailChanges(d)[c].stage = change[c].stage
                                       \/ Address(case)!CancelEmailChanges(d)[c].stage = "CANCELED"
                                          /\ change[c].stage # "NONE"
<1>1. ASSUME NEW c \in case.Changes
      PROVE  /\ Address(case)!CancelEmailChanges(d)[c] \in AddressChange(case)
             /\ AddressSameOffer(change[c], Address(case)!CancelEmailChanges(d)[c])
             /\ \/ Address(case)!CancelEmailChanges(d)[c].stage = change[c].stage
                \/ Address(case)!CancelEmailChanges(d)[c].stage = "CANCELED"
                   /\ change[c].stage # "NONE"
  <2>1. Address(case)!CancelEmailChanges(d)[c] = IF c \in Address(case)!InProgress(d)
          THEN AddressEntered(change[c], "CANCELED") ELSE change[c]
    BY Zenon DEF Address!CancelEmailChanges, AddressEntered
  <2>2. /\ AddressEntered(change[c], "CANCELED") \in AddressChange(case)
           /\ AddressEntered(change[c], "CANCELED").stage = "CANCELED"
        /\ AddressSameOffer(change[c], AddressEntered(change[c], "CANCELED"))
    BY AddressEnteredIs
  <2>3. c \in Address(case)!InProgress(d) => change[c].stage # "NONE"
    BY DEF Address!InProgress
  <2> QED BY <2>1, <2>2, <2>3 DEF AddressSameOffer
<1>2. Address(case)!CancelEmailChanges(d) \in [case.Changes -> AddressChange(case)]
  <2>1. Address(case)!CancelEmailChanges(d) = [c \in case.Changes |-> Address(case)!CancelEmailChanges(d)[c]]
    BY Zenon DEF Address!CancelEmailChanges
  <2> QED BY <1>1, <2>1, Zenon
<1> QED BY <1>1, <1>2

\* One change's record is set, the accounts and the proofs staying as they are.
LEMMA AddressOneChange ==
  ASSUME NEW case, AddressInv(case), NEW c \in case.Changes, NEW y \in AddressChange(case),
         change' = [change EXCEPT ![c] = y],
         change[c].stage # "NONE", y.stage # "NONE", AddressSameOffer(change[c], y),
         y.stage = "NEW" => change[c].stage = "NEW" \/ AddressProof(c, "CURRENT") \in inbox,
         y.stage = "COMPLETED" => change[c].stage = "COMPLETED"
           \/ (AddressProof(c, "CURRENT") \in inbox /\ AddressProof(c, "NEW") \in inbox),
         addressClock' \in Int, addressDonor' \in [case.Donors -> AddressOwner(case)],
         addressStaff' = addressStaff, Address(case)!OneRole', inbox' = inbox,
         addressWork' \in [case.Workers -> AddressDelivery(case)],
         conf' \in [case.Confirmers -> AddressDelivery(case)],
         \A w \in case.Workers : addressWork'[w] = addressWork[w]
           \/ AddressSendable(case, addressWork'[w]),
         \A p \in case.Confirmers : conf'[p] = conf[p] \/ AddressPresented(case, conf'[p])
  PROVE  AddressInv(case)'
<1>1. /\ change \in [case.Changes -> AddressChange(case)]
         /\ change' \in [case.Changes -> AddressChange(case)]
      /\ \A b \in case.Changes : change'[b] = IF b = c THEN y ELSE change[b]
  BY DEF AddressInv, AddressTyped
<1>2. AddressTyped(case)'
  BY <1>1 DEF AddressInv, AddressTyped
<1>3. \A b \in case.Changes : change[b].stage # "NONE" =>
           /\ change'[b].stage # "NONE" /\ change'[b].donor = change[b].donor
           /\ change'[b].old = change[b].old /\ change'[b].new = change[b].new
  BY <1>1 DEF AddressSameOffer
<1>4. \A b \in case.Changes : change'[b].stage # "NONE" => AddressMade(case, b)'
  BY <1>1, <1>3 DEF AddressInv, AddressMade
<1>5. \A b \in case.Changes : change'[b].stage = "NEW" =>
        change[b].stage = "NEW"
          \/ (change[b].stage # "NONE" /\ AddressProof(b, "CURRENT") \in inbox)
  <2> SUFFICES ASSUME NEW b \in case.Changes, change'[b].stage = "NEW", change[b].stage # "NEW"
               PROVE  change[b].stage # "NONE" /\ AddressProof(b, "CURRENT") \in inbox
    BY Zenon
  <2>1. b = c /\ y.stage = "NEW"
    BY <1>1
  <2> QED BY <2>1
<1>6. \A b \in case.Changes : change'[b].stage = "COMPLETED" =>
        \/ change[b].stage = "COMPLETED"
        \/ change[b].stage # "NONE" /\ AddressProof(b, "CURRENT") \in inbox
           /\ AddressProof(b, "NEW") \in inbox
  BY <1>1, Zenon
<1>7. inbox \subseteq inbox' /\ \A i \in inbox' : i \in inbox \/ AddressGenuine(case, i)
  OBVIOUS
<1> QED BY <1>2, <1>3, <1>4, <1>5, <1>6, <1>7, AddressKeeps

\* Changes are cancelled; whatever happens to the accounts, no address comes to
\* be of two.
LEMMA AddressSomeCanceled ==
  ASSUME NEW case, AddressInv(case), NEW d, change' = Address(case)!CancelEmailChanges(d),
         addressClock' \in Int, addressDonor' \in [case.Donors -> AddressOwner(case)],
         addressStaff' = addressStaff, Address(case)!OneRole',
         UNCHANGED <<inbox, addressWork, conf>>
  PROVE  AddressInv(case)'
<1>1. /\ change \in [case.Changes -> AddressChange(case)]
         /\ change' \in [case.Changes -> AddressChange(case)]
      /\ \A c \in case.Changes : /\ AddressSameOffer(change[c], change'[c])
                                 /\ \/ change'[c].stage = change[c].stage
                                    \/ change'[c].stage = "CANCELED" /\ change[c].stage # "NONE"
  BY AddressCanceledIs DEF AddressInv, AddressTyped
<1>2. AddressTyped(case)'
  BY <1>1 DEF AddressInv, AddressTyped
<1>3. \A c \in case.Changes : change[c].stage # "NONE" =>
           /\ change'[c].stage # "NONE" /\ change'[c].donor = change[c].donor
           /\ change'[c].old = change[c].old /\ change'[c].new = change[c].new
  BY <1>1 DEF AddressSameOffer
<1>4. \A c \in case.Changes : change'[c].stage # "NONE" => AddressMade(case, c)'
  BY <1>1, <1>3 DEF AddressInv, AddressMade
<1>5. \A c \in case.Changes : change'[c].stage \in {"NEW", "COMPLETED"}
        => change[c].stage = change'[c].stage
  BY <1>1
<1> QED BY <1>2, <1>3, <1>4, <1>5, AddressKeeps DEF AddressInv

\* The changes stay as they are.
LEMMA AddressNoChanges ==
  ASSUME NEW case, AddressInv(case), AddressTyped(case)', Address(case)!OneRole', change' = change,
         inbox \subseteq inbox',
         \A i \in inbox' : i \in inbox \/ AddressGenuine(case, i),
         \A w \in case.Workers : addressWork'[w] = addressWork[w]
           \/ AddressSendable(case, addressWork'[w]),
         \A p \in case.Confirmers : conf'[p] = conf[p] \/ AddressPresented(case, conf'[p])
  PROVE  AddressInv(case)'
<1>1. \A c \in case.Changes : change'[c].stage # "NONE" => AddressMade(case, c)'
  BY DEF AddressInv, AddressMade
<1>2. \A c \in case.Changes : /\ change'[c].stage = change[c].stage
                                 /\ change'[c].donor = change[c].donor
                               /\ change'[c].old = change[c].old /\ change'[c].new = change[c].new
  OBVIOUS
<1>3. \A c \in case.Changes : change[c].stage # "NONE" =>
           /\ change'[c].stage # "NONE" /\ change'[c].donor = change[c].donor
           /\ change'[c].old = change[c].old /\ change'[c].new = change[c].new
  BY <1>2
<1>4. \A c \in case.Changes : change'[c].stage = "NEW" =>
        change[c].stage = "NEW"
          \/ (change[c].stage # "NONE" /\ AddressProof(c, "CURRENT") \in inbox)
  BY <1>2
<1>5. \A c \in case.Changes : change'[c].stage = "COMPLETED" =>
        \/ change[c].stage = "COMPLETED"
        \/ change[c].stage # "NONE" /\ AddressProof(c, "CURRENT") \in inbox
           /\ AddressProof(c, "NEW") \in inbox
  BY <1>2
<1> QED BY <1>1, <1>3, <1>4, <1>5, AddressKeeps

LEMMA AddressIdleRests ==
  ASSUME NEW case
  PROVE  Address(case)!Idle \in AddressDelivery(case) /\ Address(case)!Idle.pc = "idle"
         /\ AddressSendable(case, Address(case)!Idle) /\ AddressPresented(case, Address(case)!Idle)
BY DEF Address!Idle, AddressDelivery, AddressSendable, AddressPresented

LEMMA AddressSoonOf ==
  ASSUME NEW case, Address(case)!EmailChangesAssumption, NEW t \in Int
  PROVE  Address(case)!At(t) \in Int
BY AddressLeastOf DEF Address!At, Address!EmailChangesAssumption

LEMMA AddressInit ==
  ASSUME NEW case, Address(case)!EmailChangesAssumption, Address(case)!Init
  PROVE  AddressInv(case)
<1>1. Address(case)!NoChange \in AddressChange(case) /\ Address(case)!NoChange.stage = "NONE"
  BY DEF Address!NoChange, AddressChange, AddressAsked
<1>2. \A d \in case.Donors : addressDonor[d].email = case.First[d]
        /\ case.First[d] \in case.Addresses
  BY DEF Address!Init, Address!EmailChangesAssumption
<1>3. addressDonor \in [case.Donors -> AddressOwner(case)]
  BY DEF Address!Init, AddressOwner, Address!EmailChangesAssumption, Address!Ways
<1>4. AddressTyped(case)
  BY <1>1, <1>3, AddressIdleRests DEF Address!Init, AddressTyped
<1>5. Address(case)!OneRole
  BY <1>2 DEF Address!Init, Address!OneRole, Address!EmailChangesAssumption
<1>6. Address(case)!ProvedTwice
  BY <1>1 DEF Address!Init, Address!ProvedTwice
<1> QED BY <1>1, <1>4, <1>5, <1>6, AddressIdleRests DEF Address!Init, AddressInv

LEMMA AddressRequestInv ==
  ASSUME NEW case, Address(case)!EmailChangesAssumption, AddressInv(case), NEW d \in case.Donors,
         NEW a \in case.Addresses, NEW c \in case.Changes, Address(case)!Request(d, a, c)
  PROVE  AddressInv(case)'
<1> DEFINE table == Address(case)!CancelEmailChanges(d)
           seq == Address(case)!Cardinality({x \in case.Changes : change[x].stage # "NONE"}) + 1
           until == addressClock + case.proofLifetime
           old == addressDonor[d].email
           y == AddressInserted(Address(case)!NoChange, d, old, a, until, addressClock, seq)
<1>1. change' = [table EXCEPT ![c] = y]
  BY Zenon DEF Address!Request, Address!Replacing, Address!InsertEmailChange, AddressInserted
<1>2. /\ change \in [case.Changes -> AddressChange(case)] /\ addressClock \in Int
         /\ old \in case.Addresses \cup {"none"}
  BY DEF AddressInv, AddressTyped, AddressOwner
<1>3. seq \in AddressAsked(case)
  BY Zenon DEF AddressAsked
<1>4. until \in Int
  BY <1>2 DEF Address!EmailChangesAssumption
<1>5. Address(case)!NoChange \in AddressChange(case)
  BY DEF Address!NoChange, AddressChange, AddressAsked
<1> HIDE DEF seq, until, old
<1>6. y \in AddressChange(case) /\ y.stage = "CURRENT" /\ y.donor = d /\ y.new = a
  BY <1>2, <1>3, <1>4, <1>5, AddressInsertedIs
<1> HIDE DEF y
<1>7. /\ table \in [case.Changes -> AddressChange(case)]
      /\ \A b \in case.Changes : /\ AddressSameOffer(change[b], table[b])
                                 /\ \/ table[b].stage = change[b].stage
                                    \/ table[b].stage = "CANCELED" /\ change[b].stage # "NONE"
  BY <1>2, AddressCanceledIs
<1> HIDE DEF table
<1>8. /\ change' \in [case.Changes -> AddressChange(case)] /\ change[c].stage = "NONE"
      /\ \A b \in case.Changes : change'[b] = IF b = c THEN y ELSE table[b]
  BY <1>1, <1>6, <1>7 DEF Address!Request
<1>9. AddressTyped(case)' /\ Address(case)!OneRole' /\ UNCHANGED <<inbox, addressWork, conf>>
  BY <1>8 DEF AddressInv, AddressTyped, Address!OneRole, Address!Request, Address!Quiet
<1>10. \A b \in case.Changes : change[b].stage # "NONE" =>
           /\ change'[b].stage # "NONE" /\ change'[b].donor = change[b].donor
           /\ change'[b].old = change[b].old /\ change'[b].new = change[b].new
  BY <1>7, <1>8 DEF AddressSameOffer
<1>11. \A b \in case.Changes : change'[b].stage # "NONE" => AddressMade(case, b)'
  BY <1>6, <1>7, <1>8, <1>10 DEF AddressInv, AddressMade
<1>12. \A b \in case.Changes : change'[b].stage = "NEW" =>
         change[b].stage = "NEW"
           \/ (change[b].stage # "NONE" /\ AddressProof(b, "CURRENT") \in inbox)
  BY <1>6, <1>7, <1>8
<1>13. \A b \in case.Changes : change'[b].stage = "COMPLETED" =>
         \/ change[b].stage = "COMPLETED"
         \/ change[b].stage # "NONE" /\ AddressProof(b, "CURRENT") \in inbox
            /\ AddressProof(b, "NEW") \in inbox
  BY <1>6, <1>7, <1>8
<1>14. /\ inbox \subseteq inbox' /\ \A i \in inbox' : i \in inbox \/ AddressGenuine(case, i)
       /\ \A w \in case.Workers : addressWork'[w] = addressWork[w]
          \/ AddressSendable(case, addressWork'[w])
       /\ \A p \in case.Confirmers : conf'[p] = conf[p] \/ AddressPresented(case, conf'[p])
  BY <1>9
<1> QED BY <1>9, <1>10, <1>11, <1>12, <1>13, <1>14, AddressKeeps

\* An address reserved for one role is of no account of another.
LEMMA AddressReserved ==
  ASSUME NEW case, NEW a, NEW role, Address(case)!reserveEmailIdentity(a, role)
  PROVE  /\ role # "STAFF" => a \notin addressStaff
         /\ role # "DONOR" => \A d \in case.Donors : addressDonor[d].email # a
<1>1. ASSUME a \in addressStaff PROVE role = "STAFF"
  <2>1. <<"STAFF", a>> \in Address(case)!EmailIdentities(a)
    BY <1>1 DEF Address!EmailIdentities
  <2>2. <<"STAFF", a>>[1] = role
    BY <2>1, Zenon DEF Address!reserveEmailIdentity
  <2> QED BY <2>2
<1>2. ASSUME NEW d \in case.Donors, addressDonor[d].email = a PROVE role = "DONOR"
  <2>1. <<"DONOR", d>> \in Address(case)!EmailIdentities(a)
    BY <1>2 DEF Address!EmailIdentities
  <2>2. <<"DONOR", d>>[1] = role
    BY <2>1, Zenon DEF Address!reserveEmailIdentity
  <2> QED BY <2>2
<1> QED BY <1>1, <1>2

LEMMA AddressConfirmInv ==
  ASSUME NEW case, Address(case)!EmailChangesAssumption, AddressInv(case),
         NEW p \in case.Confirmers,
         Address(case)!Confirm(p) \/ \E proof \in inbox : Address(case)!EmailChangeOwner(p, proof)
  PROVE  AddressInv(case)'
<1> DEFINE c == conf[p].change
<1>1. /\ addressClock \in Int /\ addressDonor \in [case.Donors -> AddressOwner(case)]
         /\ addressStaff \subseteq case.Addresses
      /\ change \in [case.Changes -> AddressChange(case)]
         /\ conf \in [case.Confirmers -> AddressDelivery(case)]
         /\ addressWork \in [case.Workers -> AddressDelivery(case)]
      /\ Address(case)!OneRole /\ conf[p] \in AddressDelivery(case)
  BY DEF AddressInv, AddressTyped
<1>2. ASSUME conf' = [conf EXCEPT ![p] = Address(case)!Idle]
      PROVE  conf' \in [case.Confirmers -> AddressDelivery(case)]
             /\ \A q \in case.Confirmers : conf'[q] = conf[q] \/ AddressPresented(case, conf'[q])
  BY <1>1, <1>2, AddressIdleRests
<1>3. ASSUME conf[p].pc = "found", Address(case)!EmailChangeByToken(c, conf[p].proof)
      PROVE  c \in case.Changes /\ change[c] \in AddressChange(case) /\ change[c].stage # "NONE"
             /\ AddressProof(c, change[c].stage) \in inbox
  <2>1. AddressPresented(case, conf[p])
    BY DEF AddressInv
  <2>2. c \in case.Changes /\ AddressProof(c, conf[p].proof) \in inbox
          /\ conf[p].proof = change[c].stage
        /\ conf[p].proof \in {"CURRENT", "NEW"}
    BY <1>3, <2>1 DEF AddressPresented, Address!EmailChangeByToken
  <2> QED BY <1>1, <2>2
<1>4. CASE Address(case)!advanceEmailChange(p)
  <2>1. /\ conf[p].pc = "found" /\ Address(case)!EmailChangeByToken(c, conf[p].proof)
           /\ change[c].stage = "CURRENT"
        /\ conf' = [conf EXCEPT ![p] = Address(case)!Idle]
           /\ UNCHANGED <<addressClock, addressDeaths, addressDonor, addressStaff, inbox,
           addressWork>>
    BY <1>4 DEF Address!advanceEmailChange, Address!Quiet
  <2>2. c \in case.Changes /\ change[c] \in AddressChange(case)
          /\ AddressProof(c, "CURRENT") \in inbox
    BY <1>3, <2>1
  <2> DEFINE until == addressClock + case.proofLifetime
             y == AddressAdvanced(change[c], until, FALSE, 0, addressClock)
  <2>3. change' = [change EXCEPT ![c] = y]
    BY <1>4, Zenon DEF Address!advanceEmailChange, Address!AdvanceEmailChange, AddressAdvanced
  <2>4. until \in Int /\ 0 \in Int
    BY <1>1 DEF Address!EmailChangesAssumption
  <2> HIDE DEF until
  <2>5. y \in AddressChange(case) /\ y.stage = "NEW" /\ AddressSameOffer(change[c], y)
    BY <1>1, <2>2, <2>4, AddressAdvancedIs
  <2> HIDE DEF y
  <2>6. Address(case)!OneRole'
    BY <1>1, <2>1 DEF Address!OneRole
  <2> QED BY <1>1, <1>2, <2>1, <2>2, <2>3, <2>5, <2>6, AddressOneChange
<1>5. CASE Address(case)!completeEmailChange(p)
  <2> DEFINE d == change[c].donor
             a == change[c].new
  <2>1. /\ conf[p].pc = "found" /\ Address(case)!EmailChangeByToken(c, conf[p].proof)
           /\ change[c].stage = "NEW"
        /\ conf' = [conf EXCEPT ![p] = Address(case)!Idle]
           /\ UNCHANGED <<addressClock, addressDeaths, addressStaff, inbox, addressWork>>
        /\ Address(case)!StillFree(a, "DONOR") /\ Address(case)!SetDonorEmail(a)
        /\ addressDonor' = [addressDonor EXCEPT ![d] = [email |-> a,
           ways |-> addressDonor[d].ways \ {"session", "passkey", "link"}]]
    BY <1>5 DEF Address!completeEmailChange, Address!Quiet
  <2>2. c \in case.Changes /\ change[c] \in AddressChange(case) /\ AddressProof(c, "NEW") \in inbox
          /\ AddressProof(c, "CURRENT") \in inbox
    BY <1>3, <2>1 DEF AddressInv
  <2>3. d \in case.Donors /\ a \in case.Addresses
    BY <2>1, <2>2 DEF AddressInv, AddressMade
  <2> DEFINE y == AddressEntered(change[c], "COMPLETED")
  <2>4. change' = [change EXCEPT ![c] = y]
    BY <1>5, Zenon DEF Address!completeEmailChange, Address!CompleteEmailChange, AddressEntered
  <2>5. y \in AddressChange(case) /\ y.stage = "COMPLETED" /\ AddressSameOffer(change[c], y)
    BY <2>2, AddressEnteredIs
  <2> HIDE DEF y
  <2>6. a \notin addressStaff
    BY <2>1, AddressReserved DEF Address!StillFree
  <2>7. \A e \in case.Donors : addressDonor[e].email # a
    BY <2>1 DEF Address!SetDonorEmail
  <2>8. addressDonor' \in [case.Donors -> AddressOwner(case)]
    BY <1>1, <2>1, <2>3 DEF AddressOwner
  <2>9. Address(case)!OneRole'
    <3>1. \A e \in case.Donors : addressDonor'[e].email = IF e = d THEN a ELSE addressDonor[e].email
      BY <1>1, <2>1, <2>3
    <3> QED BY <1>1, <2>1, <2>6, <2>7, <3>1 DEF Address!OneRole
  <2> QED BY <1>1, <1>2, <2>1, <2>2, <2>4, <2>5, <2>8, <2>9, AddressOneChange
<1>6. CASE Address(case)!DeniedConfirm(p)
  <2>1. conf' = [conf EXCEPT ![p] = Address(case)!Idle]
          /\ UNCHANGED <<addressClock, addressDeaths, addressDonor, addressStaff, change, inbox,
          addressWork>>
    BY <1>6 DEF Address!DeniedConfirm, Address!Quiet
  <2>2. AddressTyped(case)' /\ Address(case)!OneRole'
    BY <1>1, <1>2, <2>1 DEF AddressTyped, Address!OneRole
  <2> QED BY <1>2, <2>1, <2>2, AddressNoChanges
<1>7. CASE \E proof \in inbox : Address(case)!EmailChangeOwner(p, proof)
  <2>1. PICK proof \in inbox : Address(case)!EmailChangeOwner(p, proof)
    BY <1>7
  <2> DEFINE x == [pc |-> "found", change |-> proof.change, proof |-> proof.stage]
  <2>2. AddressGenuine(case, proof)
    BY DEF AddressInv
  <2>3. x \in AddressDelivery(case) /\ AddressPresented(case, x)
    BY <2>2 DEF AddressGenuine, AddressDelivery, AddressPresented
  <2>4. conf' = [conf EXCEPT ![p] = x]
          /\ UNCHANGED <<addressClock, addressDeaths, addressDonor, addressStaff, change, inbox,
          addressWork>>
    BY <2>1 DEF Address!EmailChangeOwner, Address!Quiet
  <2> HIDE DEF x
  <2>5. conf' \in [case.Confirmers -> AddressDelivery(case)]
          /\ \A q \in case.Confirmers : conf'[q] = conf[q] \/ AddressPresented(case, conf'[q])
    BY <1>1, <2>3, <2>4
  <2>6. AddressTyped(case)' /\ Address(case)!OneRole'
    BY <1>1, <2>4, <2>5 DEF AddressTyped, Address!OneRole
  <2> QED BY <2>4, <2>5, <2>6, AddressNoChanges
<1> QED BY <1>4, <1>5, <1>6, <1>7 DEF Address!Confirm

LEMMA AddressDeliverInv ==
  ASSUME NEW case, Address(case)!EmailChangesAssumption, AddressInv(case), NEW w \in case.Workers,
         Address(case)!DeliverNext(w) \/ Address(case)!Refused(w) \/ Address(case)!Die(w)
           \/ \E c \in case.Changes : Address(case)!Unreadable(w, c)
  PROVE  AddressInv(case)'
<1>1. /\ addressClock \in Int /\ addressDonor \in [case.Donors -> AddressOwner(case)]
         /\ addressStaff \subseteq case.Addresses
      /\ change \in [case.Changes -> AddressChange(case)]
         /\ conf \in [case.Confirmers -> AddressDelivery(case)]
         /\ addressWork \in [case.Workers -> AddressDelivery(case)]
      /\ Address(case)!OneRole /\ addressWork[w] \in AddressDelivery(case)
         /\ AddressSendable(case, addressWork[w])
  BY DEF AddressInv, AddressTyped
<1>2. ASSUME NEW x \in AddressDelivery(case), AddressSendable(case, x),
             addressWork' = [addressWork EXCEPT ![w] = x]
      PROVE  addressWork' \in [case.Workers -> AddressDelivery(case)]
             /\ \A v \in case.Workers : addressWork'[v] = addressWork[v]
             \/ AddressSendable(case, addressWork'[v])
  BY <1>1, <1>2
<1>3. /\ \A t \in Int : Address(case)!At(t) \in Int
      /\ \A x \in Nat : addressClock + x \in Int
  BY <1>1, AddressSoonOf
<1>4. case.deliveryLease \in Nat /\ case.RetryAfter \in Nat
  BY DEF Address!EmailChangesAssumption
<1>5. ASSUME NEW c \in case.Changes, NEW y \in AddressChange(case),
             change' = [change EXCEPT ![c] = y], change[c].stage # "NONE",
             y.stage = change[c].stage, AddressSameOffer(change[c], y),
             UNCHANGED <<addressClock, addressDonor, addressStaff, inbox, conf>>,
             addressWork' = addressWork
               \/ \E x \in AddressDelivery(case) : AddressSendable(case, x)
               /\ addressWork' = [addressWork EXCEPT ![w] = x]
      PROVE  AddressInv(case)'
  <2>1. addressWork' \in [case.Workers -> AddressDelivery(case)]
          /\ \A v \in case.Workers : addressWork'[v] = addressWork[v]
          \/ AddressSendable(case, addressWork'[v])
    BY <1>1, <1>2, <1>5
  <2>2. Address(case)!OneRole'
    BY <1>1, <1>5 DEF Address!OneRole
  <2>3. /\ y.stage = "NEW" => change[c].stage = "NEW" \/ AddressProof(c, "CURRENT") \in inbox
        /\ y.stage = "COMPLETED" => change[c].stage = "COMPLETED"
           \/ (AddressProof(c, "CURRENT") \in inbox /\ AddressProof(c, "NEW") \in inbox)
    BY <1>5
  <2>4. addressDonor' \in [case.Donors -> AddressOwner(case)]
          /\ conf' \in [case.Confirmers -> AddressDelivery(case)] /\ addressClock' \in Int
    BY <1>1, <1>5
  <2> QED BY <1>5, <2>1, <2>2, <2>3, <2>4, AddressOneChange
<1>6. ASSUME UNCHANGED <<addressClock, addressDonor, addressStaff, change, conf>>,
             inbox \subseteq inbox',
             \A i \in inbox' : i \in inbox \/ AddressGenuine(case, i),
             NEW x \in AddressDelivery(case), AddressSendable(case, x),
             addressWork' = [addressWork EXCEPT ![w] = x]
      PROVE  AddressInv(case)'
  <2>1. AddressTyped(case)' /\ Address(case)!OneRole'
    BY <1>1, <1>2, <1>6 DEF AddressTyped, Address!OneRole
  <2> QED BY <1>2, <1>6, <2>1, AddressNoChanges
<1>7. CASE \E c \in case.Changes : Address(case)!claim(w, c)
  <2>1. PICK c \in case.Changes : Address(case)!claim(w, c)
    BY <1>7
  <2>2. change[c].stage \in {"CURRENT", "NEW"} /\ change[c].attempts \in Int
          /\ change[c] \in AddressChange(case)
    BY <1>1, <2>1 DEF Address!claim, Address!DueDelivery, AddressChange
  <2>3. CASE Address(case)!Confirmable(c)
    <3> DEFINE x == [pc |-> "sending", change |-> c, proof |-> change[c].stage]
               n == change[c].attempts + 1
               t == Address(case)!At(addressClock + case.deliveryLease)
               y == AddressTried(change[c], n, t)
    <3>1. change' = [change EXCEPT ![c] = y] /\ addressWork' = [addressWork EXCEPT ![w] = x]
      BY <2>1, <2>3, Zenon DEF Address!claim, Address!ClaimEmailChangeDelivery, AddressTried
    <3>2. x \in AddressDelivery(case) /\ AddressSendable(case, x)
      BY <2>2 DEF AddressDelivery, AddressSendable
    <3>3. n \in Int /\ t \in Int
      BY <1>3, <1>4, <2>2
    <3> HIDE DEF x, n, t
    <3>4. y \in AddressChange(case) /\ y.stage = change[c].stage /\ AddressSameOffer(change[c], y)
      BY <2>2, <3>3, AddressTriedIs
    <3> HIDE DEF y
    <3>5. UNCHANGED <<addressClock, addressDonor, addressStaff, inbox, conf>>
      BY <2>1 DEF Address!claim, Address!Quiet
    <3> QED BY <1>5, <2>2, <3>1, <3>2, <3>4, <3>5
  <2>4. CASE ~Address(case)!Confirmable(c)
    <3>1. change' = Address(case)!CancelEmailChanges(change[c].donor)
            /\ UNCHANGED <<addressClock, addressDonor, addressStaff, inbox, addressWork, conf>>
      BY <2>1, <2>4 DEF Address!claim, Address!Quiet
    <3>2. Address(case)!OneRole' /\ addressDonor' \in [case.Donors -> AddressOwner(case)]
            /\ addressClock' \in Int
      BY <1>1, <3>1 DEF Address!OneRole
    <3> QED BY <3>1, <3>2, AddressSomeCanceled
  <2> QED BY <2>3, <2>4
<1>8. CASE Address(case)!Send(w)
  <2> DEFINE c == addressWork[w].change
             x == [addressWork[w] EXCEPT !.pc = "sent"]
             i == AddressProof(c, addressWork[w].proof)
  <2>1. addressWork[w].pc = "sending" /\ inbox' = inbox \cup {i}
          /\ UNCHANGED <<addressClock, addressDonor, addressStaff, change, conf>>
        /\ addressWork' = [addressWork EXCEPT ![w] = x]
    BY <1>8 DEF Address!Send, Address!Quiet, AddressProof
  <2>2. c \in case.Changes /\ addressWork[w].proof \in {"CURRENT", "NEW"}
          /\ change[c].stage # "NONE"
    BY <1>1, <2>1 DEF AddressSendable
  <2>3. AddressGenuine(case, i)
    BY <2>2 DEF AddressGenuine, AddressProof
  <2>4. x \in AddressDelivery(case) /\ AddressSendable(case, x)
    BY <1>1, <2>2 DEF AddressDelivery, AddressSendable
  <2> HIDE DEF i, x
  <2> QED BY <1>6, <2>1, <2>3, <2>4
<1>9. CASE Address(case)!Delivered(w)
  <2>1. addressWork[w].pc = "sent" /\ addressWork' = [addressWork EXCEPT ![w] = Address(case)!Idle]
          /\ UNCHANGED <<addressClock, addressDonor, addressStaff, inbox, conf>>
    BY <1>9 DEF Address!Delivered, Address!Quiet
  <2> DEFINE c == addressWork[w].change
             y == AddressMarked(change[c])
  <2>2. c \in case.Changes /\ change[c].stage # "NONE"
    BY <1>1, <2>1 DEF AddressSendable
  <2>3. change' = [change EXCEPT ![c] = y] \/ change' = change
    BY <1>9, Zenon DEF Address!Delivered, Address!EmailChangeDelivered, AddressMarked
  <2>4. y \in AddressChange(case) /\ y.stage = change[c].stage /\ AddressSameOffer(change[c], y)
    BY <1>1, <2>2, AddressMarkedIs
  <2> HIDE DEF y
  <2>5. CASE change' = [change EXCEPT ![c] = y]
    BY <1>5, <2>1, <2>2, <2>4, <2>5, AddressIdleRests
  <2>6. CASE change' = change
    BY <1>6, <2>1, <2>6, AddressIdleRests
  <2> QED BY <2>3, <2>5, <2>6
<1>10. CASE Address(case)!Refused(w)
  <2>1. addressWork[w].pc = "sending"
          /\ addressWork' = [addressWork EXCEPT ![w] = Address(case)!Idle]
          /\ UNCHANGED <<addressClock, addressDonor, addressStaff, inbox, conf>>
    BY <1>10 DEF Address!Refused
  <2> DEFINE c == addressWork[w].change
             t == Address(case)!At(addressClock + case.RetryAfter)
             y == AddressLater(change[c], t)
  <2>2. c \in case.Changes /\ change[c].stage # "NONE"
    BY <1>1, <2>1 DEF AddressSendable
  <2>3. change' = [change EXCEPT ![c] = y] \/ change' = change
    BY <1>10, Zenon DEF Address!Refused, Address!RetryEmailChangeDelivery, AddressLater
  <2>4. t \in Int
    BY <1>3, <1>4
  <2> HIDE DEF t
  <2>5. y \in AddressChange(case) /\ y.stage = change[c].stage /\ AddressSameOffer(change[c], y)
    BY <1>1, <2>2, <2>4, AddressLaterIs
  <2> HIDE DEF y
  <2>6. CASE change' = [change EXCEPT ![c] = y]
    BY <1>5, <2>1, <2>2, <2>5, <2>6, AddressIdleRests
  <2>7. CASE change' = change
    BY <1>6, <2>1, <2>7, AddressIdleRests
  <2> QED BY <2>3, <2>6, <2>7
<1>11. CASE Address(case)!Die(w)
  BY <1>6, <1>11, AddressIdleRests DEF Address!Die
<1>12. CASE \E c \in case.Changes : Address(case)!Unreadable(w, c)
  <2>1. PICK c \in case.Changes : Address(case)!Unreadable(w, c)
    BY <1>12
  <2> DEFINE n == change[c].attempts + 1
             t == Address(case)!At(addressClock + case.RetryAfter)
             y == AddressTried(change[c], n, t)
  <2>2. /\ change[c].stage # "NONE" /\ change[c].attempts \in Int
           /\ change[c] \in AddressChange(case)
        /\ UNCHANGED <<addressClock, addressDonor, addressStaff, inbox, conf, addressWork>>
    BY <1>1, <2>1 DEF Address!Unreadable, Address!DueDelivery, AddressChange
  <2>3. change' = [change EXCEPT ![c] = y]
    BY <2>1, Zenon DEF Address!Unreadable, Address!EmailChangeDeliveryFailed, AddressTried
  <2>4. n \in Int /\ t \in Int
    BY <1>3, <1>4, <2>2
  <2> HIDE DEF n, t
  <2>5. y \in AddressChange(case) /\ y.stage = change[c].stage /\ AddressSameOffer(change[c], y)
    BY <2>2, <2>4, AddressTriedIs
  <2> HIDE DEF y
  <2> QED BY <1>5, <2>2, <2>3, <2>5
<1> QED BY <1>7, <1>8, <1>9, <1>10, <1>11, <1>12 DEF Address!DeliverNext

LEMMA AddressStep ==
  ASSUME NEW case, Address(case)!EmailChangesAssumption, AddressInv(case), Address(case)!Moves
  PROVE  AddressInv(case)'
<1>1. /\ addressClock \in Int /\ addressDonor \in [case.Donors -> AddressOwner(case)]
         /\ addressStaff \subseteq case.Addresses
      /\ change \in [case.Changes -> AddressChange(case)]
         /\ conf \in [case.Confirmers -> AddressDelivery(case)]
         /\ addressWork \in [case.Workers -> AddressDelivery(case)]
      /\ Address(case)!OneRole
  BY DEF AddressInv, AddressTyped
<1>2. CASE \E d \in case.Donors, a \in case.Addresses,
        c \in case.Changes : Address(case)!Request(d, a, c)
  BY <1>2, AddressRequestInv
<1>3. CASE \E p \in case.Confirmers : Address(case)!Confirm(p)
        \/ \E proof \in inbox : Address(case)!EmailChangeOwner(p, proof)
  BY <1>3, AddressConfirmInv
<1>4. CASE \E w \in case.Workers : Address(case)!DeliverNext(w) \/ Address(case)!Refused(w)
        \/ Address(case)!Die(w) \/ \E c \in case.Changes : Address(case)!Unreadable(w, c)
  BY <1>4, AddressDeliverInv
<1>5. CASE \E a \in case.Addresses : Address(case)!InviteStaff(a) \/ Address(case)!RemoveStaff(a)
  <2>1. PICK a \in case.Addresses : Address(case)!InviteStaff(a) \/ Address(case)!RemoveStaff(a)
    BY <1>5
  <2>2. UNCHANGED <<addressClock, addressDonor, change, inbox, conf, addressWork>>
          /\ addressStaff' \subseteq case.Addresses
    BY <1>1, <2>1 DEF Address!InviteStaff, Address!RemoveStaff, Address!Quiet
  <2>3. Address(case)!InviteStaff(a) => \A d \in case.Donors : addressDonor[d].email # a
    BY AddressReserved DEF Address!InviteStaff
  <2>4. Address(case)!OneRole'
    BY <1>1, <2>1, <2>2, <2>3 DEF Address!OneRole, Address!InviteStaff, Address!RemoveStaff
  <2>5. AddressTyped(case)'
    BY <1>1, <2>2 DEF AddressTyped
  <2> QED BY <2>2, <2>4, <2>5, AddressNoChanges
<1>6. CASE \E d \in case.Donors : Address(case)!DeleteAccount(d)
  <2>1. PICK d \in case.Donors : Address(case)!DeleteAccount(d)
    BY <1>6
  <2>2. /\ addressDonor' = [addressDonor EXCEPT ![d] = [email |-> "none", ways |-> {}]]
           /\ change' = Address(case)!CancelEmailChanges(d)
        /\ UNCHANGED <<addressClock, addressStaff, inbox, conf, addressWork>>
    BY <2>1 DEF Address!DeleteAccount, Address!Quiet
  <2>3. addressDonor' \in [case.Donors -> AddressOwner(case)]
    BY <1>1, <2>2 DEF AddressOwner
  <2>4. \A e \in case.Donors : addressDonor'[e].email = IF e = d THEN "none"
          ELSE addressDonor[e].email
    BY <1>1, <2>2
  <2>5. "none" \notin addressStaff
    BY <1>1 DEF Address!EmailChangesAssumption
  <2>6. Address(case)!OneRole'
    BY <1>1, <2>2, <2>4, <2>5 DEF Address!OneRole
  <2> QED BY <1>1, <2>2, <2>3, <2>6, AddressSomeCanceled
<1>7. CASE Address(case)!Tick
  <2>1. AddressTyped(case)' /\ Address(case)!OneRole'
          /\ UNCHANGED <<change, inbox, conf, addressWork>>
    BY <1>1, <1>7 DEF Address!Tick, AddressTyped, Address!OneRole
  <2> QED BY <2>1, AddressNoChanges
<1> QED BY <1>2, <1>3, <1>4, <1>5, <1>6, <1>7 DEF Address!Moves

-----------------------------------------------------------------------------
(***************************************************************************)
(* Sign-in links. A link that is open was minted after the donor last      *)
(* signed in by one, so of those open together one is used; a mail is      *)
(* queued when none was in its minute and few in its hour.                 *)
(***************************************************************************)
LinkLetter ==
  [state : {"NONE", "QUEUED", "DONE"}, created : Int, at : Int, attempts : Int, expires : Int,
   link : {"none", "open", "redeemed", "closed"}, minted : Int, redeemed : Int, sent : Int]
LinkStep(S) ==
  [pc : {"idle", "asked", "found", "prepared", "sending", "sent"}, mail : S \cup {"none"},
   now : Int]

LinksTyped(case) ==
  /\ linkClock \in Int /\ claims \in Int /\ mail \in [case.Mails -> LinkLetter]
  /\ ask \in [case.Askers -> LinkStep({})] /\ redeem \in [case.Redeemers -> LinkStep(case.Mails)]
  /\ linkWork \in [case.Workers -> LinkStep(case.Mails)]
  /\ \A r \in case.Redeemers : redeem[r].pc # "idle" => redeem[r].mail \in case.Mails
  /\ \A w \in case.Workers : linkWork[w].pc # "idle" =>
       linkWork[w].mail \in case.Mails /\ mail[linkWork[w].mail].state # "NONE"

\* A link that is open was minted after the donor last signed in by one.
LinkOpenIsFresh(case) == \A m \in case.Mails : mail[m].link = "open" => mail[m].minted = claims

LinksInv(case) ==
  /\ LinksTyped(case) /\ LinkOpenIsFresh(case)
  /\ Link(case)!OneOfTheOpen /\ Link(case)!NotFlooded

LEMMA LinkLeastOf ==
  ASSUME NEW case, NEW a \in Int, NEW b \in Int
  PROVE  Link(case)!Min({a, b}) \in Int
<1>1. \E x \in {a, b} : \A y \in {a, b} : x <= y
  OBVIOUS
<1> QED BY <1>1 DEF Link!Min

LEMMA LinkAtTyped ==
  ASSUME NEW case, Link(case)!LoginLinksAssumption, NEW t \in Int
  PROVE  Link(case)!At(t) \in Int
BY LinkLeastOf DEF Link!At, Link!LoginLinksAssumption

\* What becomes of a mail's record when some of its fields are set.
LinkQueued(x, now) == [x EXCEPT !.state = "QUEUED", !.created = now, !.at = now]
LinkOpened(x, until, n) == [x EXCEPT !.link = "open", !.expires = until, !.minted = n]
LinkFinished(x) == [x EXCEPT !.state = "DONE"]
LinkAttempted(x, n, t) == [x EXCEPT !.attempts = n, !.at = t]
LinkPostponed(x, t) == [x EXCEPT !.at = t]
LinkRedeemed(x, n) == [x EXCEPT !.link = "redeemed", !.redeemed = n]
LinkClosed(x) == [x EXCEPT !.link = "closed"]
LinkMailed(x, n) == [x EXCEPT !.sent = n]

LinkSameMail(x, y) == y.created = x.created /\ (y.state = "NONE" <=> x.state = "NONE")
LinkSameLink(x, y) == y.link = x.link /\ y.minted = x.minted /\ y.redeemed = x.redeemed

LEMMA LinkQueuedIs ==
  ASSUME NEW x \in LinkLetter, NEW t \in Int
  PROVE  /\ LinkQueued(x, t) \in LinkLetter /\ LinkSameLink(x, LinkQueued(x, t))
            /\ LinkQueued(x, t).created = t
         /\ LinkQueued(x, t).state = "QUEUED"
BY DEF LinkQueued, LinkLetter, LinkSameLink

LEMMA LinkOpenedIs ==
  ASSUME NEW x \in LinkLetter, NEW t \in Int, NEW n \in Int
  PROVE  /\ LinkOpened(x, t, n) \in LinkLetter /\ LinkSameMail(x, LinkOpened(x, t, n))
         /\ LinkOpened(x, t, n).link = "open" /\ LinkOpened(x, t, n).minted = n
BY DEF LinkOpened, LinkLetter, LinkSameMail

LEMMA LinkFinishedIs ==
  ASSUME NEW x \in LinkLetter, x.state # "NONE"
  PROVE  LinkFinished(x) \in LinkLetter /\ LinkSameLink(x, LinkFinished(x))
         /\ LinkSameMail(x, LinkFinished(x))
BY DEF LinkFinished, LinkLetter, LinkSameLink, LinkSameMail

LEMMA LinkAttemptedIs ==
  ASSUME NEW x \in LinkLetter, NEW n \in Int, NEW t \in Int
  PROVE  LinkAttempted(x, n, t) \in LinkLetter /\ LinkSameLink(x, LinkAttempted(x, n, t))
         /\ LinkSameMail(x, LinkAttempted(x, n, t))
BY DEF LinkAttempted, LinkLetter, LinkSameLink, LinkSameMail

LEMMA LinkPostponedIs ==
  ASSUME NEW x \in LinkLetter, NEW t \in Int
  PROVE  LinkPostponed(x, t) \in LinkLetter /\ LinkSameLink(x, LinkPostponed(x, t))
         /\ LinkSameMail(x, LinkPostponed(x, t))
BY DEF LinkPostponed, LinkLetter, LinkSameLink, LinkSameMail

LEMMA LinkRedeemedIs ==
  ASSUME NEW x \in LinkLetter, NEW n \in Int
  PROVE  /\ LinkRedeemed(x, n) \in LinkLetter /\ LinkSameMail(x, LinkRedeemed(x, n))
            /\ LinkRedeemed(x, n).link = "redeemed"
         /\ LinkRedeemed(x, n).redeemed = n /\ LinkRedeemed(x, n).minted = x.minted
BY DEF LinkRedeemed, LinkLetter, LinkSameMail

LEMMA LinkClosedIs ==
  ASSUME NEW x \in LinkLetter
  PROVE  LinkClosed(x) \in LinkLetter /\ LinkSameMail(x, LinkClosed(x))
         /\ LinkClosed(x).link = "closed"
BY DEF LinkClosed, LinkLetter, LinkSameMail

LEMMA LinkMailedIs ==
  ASSUME NEW x \in LinkLetter, NEW n \in Int
  PROVE  LinkMailed(x, n) \in LinkLetter /\ LinkSameLink(x, LinkMailed(x, n))
         /\ LinkSameMail(x, LinkMailed(x, n))
BY DEF LinkMailed, LinkLetter, LinkSameLink, LinkSameMail

\* No mail is queued, so the times of the mails stay as they are.
LEMMA LinkFloodFrame ==
  ASSUME NEW case, LinksInv(case), \A m \in case.Mails : LinkSameMail(mail[m], mail'[m])
  PROVE  Link(case)!NotFlooded'
<1>1. \A m \in case.Mails : mail'[m].created = mail[m].created
        /\ (mail'[m].state = "NONE" <=> mail[m].state = "NONE")
  BY DEF LinkSameMail
<1>2. ASSUME NEW m \in case.Mails
      PROVE  {n \in case.Mails : mail'[n].state # "NONE" /\ mail'[n].created >= mail'[m].created
             /\ mail'[n].created < mail'[m].created + case.Hour}
             = {n \in case.Mails : mail[n].state # "NONE" /\ mail[n].created >= mail[m].created
               /\ mail[n].created < mail[m].created + case.Hour}
  BY <1>1
<1> QED BY <1>1, <1>2 DEF LinksInv, Link!NotFlooded

LEMMA LinkIdleStep ==
  ASSUME NEW case
  PROVE  Link(case)!Idle.pc = "idle" /\ \A S : Link(case)!Idle \in LinkStep(S)
BY DEF Link!Idle, LinkStep

LEMMA LinksInit ==
  ASSUME NEW case, Link(case)!LoginLinksAssumption, Link(case)!Init
  PROVE  LinksInv(case)
<1>1. Link(case)!NoMail \in LinkLetter /\ Link(case)!NoMail.link = "none"
        /\ Link(case)!NoMail.state = "NONE"
  BY DEF Link!NoMail, LinkLetter
<1>2. LinksTyped(case)
  BY <1>1, LinkIdleStep DEF Link!Init, LinksTyped
<1> QED BY <1>1, <1>2 DEF Link!Init, LinksInv, LinkOpenIsFresh, Link!OneOfTheOpen, Link!NotFlooded

\* The mails stay as they are.
LEMMA LinkMailsStay ==
  ASSUME NEW case, LinksInv(case), LinksTyped(case)', mail' = mail, claims' = claims
  PROVE  LinksInv(case)'
BY DEF LinksInv, LinkOpenIsFresh, Link!OneOfTheOpen, Link!NotFlooded

\* One mail's record is set, and no link but a fresh one is opened.
LEMMA LinkMailMoves ==
  ASSUME NEW case, LinksInv(case), NEW m \in case.Mails, NEW y \in LinkLetter,
         mail' = [mail EXCEPT ![m] = y], LinkSameMail(mail[m], y),
         LinkSameLink(mail[m], y) \/ (y.link = "open" /\ y.minted = claims),
         linkClock' \in Int, claims' = claims, ask' = ask, redeem' = redeem,
         linkWork' \in [case.Workers -> LinkStep(case.Mails)],
         \A w \in case.Workers : linkWork'[w].pc # "idle"
           => linkWork'[w].mail \in case.Mails /\ mail[linkWork'[w].mail].state # "NONE"
  PROVE  LinksInv(case)'
<1>1. /\ mail \in [case.Mails -> LinkLetter] /\ mail' \in [case.Mails -> LinkLetter]
      /\ \A n \in case.Mails : mail'[n] = IF n = m THEN y ELSE mail[n]
  BY DEF LinksInv, LinksTyped
<1>2. LinksTyped(case)'
  <2>1. \A n \in case.Mails : mail[n].state # "NONE" => mail'[n].state # "NONE"
    BY <1>1 DEF LinkSameMail
  <2>2. \A w \in case.Workers : linkWork'[w].pc # "idle"
          => linkWork'[w].mail \in case.Mails /\ mail'[linkWork'[w].mail].state # "NONE"
    BY <2>1
  <2> QED BY <1>1, <2>2 DEF LinksInv, LinksTyped
<1>3. Link(case)!NotFlooded'
  <2>1. \A n \in case.Mails : LinkSameMail(mail[n], mail'[n])
    BY <1>1 DEF LinkSameMail
  <2> QED BY <2>1, LinkFloodFrame
<1>4. LinkOpenIsFresh(case)'
  BY <1>1 DEF LinksInv, LinkOpenIsFresh, LinkSameLink
<1>5. Link(case)!OneOfTheOpen'
  BY <1>1 DEF LinksInv, Link!OneOfTheOpen, LinkSameLink
<1> QED BY <1>2, <1>3, <1>4, <1>5 DEF LinksInv

\* The links that are open are closed, one of them redeemed perhaps before.
LEMMA LinkConsumedIs ==
  ASSUME NEW case, NEW table \in [case.Mails -> LinkLetter]
  PROVE  /\ Link(case)!ConsumeDonorLinks(table) \in [case.Mails -> LinkLetter]
         /\ \A m \in case.Mails : /\ LinkSameMail(table[m], Link(case)!ConsumeDonorLinks(table)[m])
                                  /\ Link(case)!ConsumeDonorLinks(table)[m].link # "open"
                                  /\ Link(case)!ConsumeDonorLinks(table)[m].link = "redeemed"
                                     => Link(case)!ConsumeDonorLinks(table)[m] = table[m]
<1>1. ASSUME NEW m \in case.Mails
      PROVE  /\ Link(case)!ConsumeDonorLinks(table)[m] \in LinkLetter
             /\ LinkSameMail(table[m], Link(case)!ConsumeDonorLinks(table)[m])
             /\ Link(case)!ConsumeDonorLinks(table)[m].link # "open"
             /\ Link(case)!ConsumeDonorLinks(table)[m].link = "redeemed"
                => Link(case)!ConsumeDonorLinks(table)[m] = table[m]
  <2>1. Link(case)!ConsumeDonorLinks(table)[m] = IF table[m].link = "open"
          THEN LinkClosed(table[m]) ELSE table[m]
    BY Zenon DEF Link!ConsumeDonorLinks, LinkClosed
  <2>2. table[m] \in LinkLetter
    OBVIOUS
  <2>3. /\ LinkClosed(table[m]) \in LinkLetter /\ LinkSameMail(table[m], LinkClosed(table[m]))
           /\ LinkClosed(table[m]).link = "closed"
    BY <2>2, LinkClosedIs
  <2> QED BY <2>1, <2>2, <2>3 DEF LinkSameMail
<1>2. Link(case)!ConsumeDonorLinks(table) \in [case.Mails -> LinkLetter]
  <2>1. Link(case)!ConsumeDonorLinks(table) = [m \in case.Mails |-> Link(case)!ConsumeDonorLinks(table)[m]]
    BY Zenon DEF Link!ConsumeDonorLinks
  <2> QED BY <1>1, <2>1, Zenon
<1> QED BY <1>1, <1>2

LEMMA LinksClosed ==
  ASSUME NEW case, LinksInv(case),
         NEW table \in [case.Mails -> LinkLetter], \A m \in case.Mails : LinkSameMail(mail[m],
         table[m]),
         \A m \in case.Mails : table[m].link = "redeemed" => table[m].redeemed = table[m].minted,
         mail' = Link(case)!ConsumeDonorLinks(table), LinksTyped(case)'
  PROVE  LinksInv(case)'
<1>1. /\ \A m \in case.Mails : LinkSameMail(table[m], mail'[m])
      /\ \A m \in case.Mails : mail'[m].link # "open"
      /\ \A m \in case.Mails : mail'[m].link = "redeemed" => mail'[m] = table[m]
  BY LinkConsumedIs
<1>2. \A m \in case.Mails : LinkSameMail(mail[m], mail'[m])
  BY <1>1 DEF LinkSameMail
<1>3. Link(case)!NotFlooded'
  BY <1>2, LinkFloodFrame
<1>4. LinkOpenIsFresh(case)' /\ Link(case)!OneOfTheOpen'
  BY <1>1 DEF LinkOpenIsFresh, Link!OneOfTheOpen
<1> QED BY <1>3, <1>4 DEF LinksInv

\* The instance counts the members of a set as the library does.
LEMMA LinkCounts ==
  ASSUME NEW case
  PROVE  \A S : (Link(case)!IsFiniteSet(S) <=> IsFiniteSet(S))
         /\ Link(case)!Cardinality(S) = Cardinality(S)
<1>1. \A S : Link(case)!IsFiniteSet(S) <=> IsFiniteSet(S)
  BY Zenon DEF Link!IsFiniteSet, IsFiniteSet
<1>2. \A S : Link(case)!Cardinality(S) = Cardinality(S)
  BY <1>1, Zenon DEF Link!Cardinality, Cardinality
<1> QED BY <1>1, <1>2

\* A mail queued when none was in the last minute, and few in the last hour.
LEMMA LinkFloodStays ==
  ASSUME NEW case, Link(case)!LoginLinksAssumption, LinksInv(case), NEW now \in Int,
         Link(case)!Allowed(now), NEW x \in case.Mails, mail[x].state = "NONE",
         NEW y \in LinkLetter, y.created = now, y.state = "QUEUED", mail' = [mail EXCEPT ![x] = y]
  PROVE  Link(case)!NotFlooded'
<1> DEFINE In(m) == {n \in case.Mails : mail[n].state # "NONE"
      /\ mail[n].created >= mail[m].created /\ mail[n].created < mail[m].created + case.Hour}
           After(m) == {n \in case.Mails : mail'[n].state # "NONE"
             /\ mail'[n].created >= mail'[m].created
             /\ mail'[n].created < mail'[m].created + case.Hour}
           recent == Link(case)!Since(now, case.Hour)
<1>1. /\ case.Minute \in Nat /\ case.Hour \in Nat /\ case.PerHour \in Nat /\ IsFiniteSet(case.Mails)
  BY LinkCounts DEF Link!LoginLinksAssumption
<1>2. /\ mail \in [case.Mails -> LinkLetter]
         /\ \A m \in case.Mails : mail'[m] = IF m = x THEN y ELSE mail[m]
      /\ \A m \in case.Mails : mail[m].created \in Int
  BY DEF LinksInv, LinksTyped, LinkLetter
<1>3. \A n \in case.Mails : mail[n].state # "NONE" => mail[n].created + case.Minute <= now
  BY <1>1, <1>2 DEF Link!Allowed, Link!Since
<1>4. IsFiniteSet(recent) /\ Cardinality(recent) \in Nat /\ Cardinality(recent) < case.PerHour
  <2>1. recent \subseteq case.Mails
    BY DEF Link!Since
  <2> QED BY <1>1, <2>1, FS_Subset, FS_CardinalityType, LinkCounts DEF Link!Allowed
<1>5. ASSUME NEW S, S \subseteq recent \cup {x} PROVE Cardinality(S) <= case.PerHour
  <2>1. /\ IsFiniteSet(recent \cup {x})
        /\ Cardinality(recent \cup {x}) = Cardinality(recent)
           \/ Cardinality(recent \cup {x}) = Cardinality(recent) + 1
    BY <1>4, FS_AddElement
  <2>2. Cardinality(S) <= Cardinality(recent \cup {x}) /\ Cardinality(S) \in Nat
          /\ Cardinality(recent \cup {x}) \in Nat
    BY <1>5, <2>1, FS_Subset, FS_CardinalityType
  <2> QED BY <1>1, <1>4, <2>1, <2>2
<1>6. ASSUME NEW m \in case.Mails, mail'[m].state # "NONE"
      PROVE  Cardinality(After(m)) <= case.PerHour
  <2>1. CASE m # x /\ now >= mail[m].created + case.Hour
    <3>1. After(m) = In(m)
      BY <1>1, <1>2, <1>3, <2>1
    <3>2. Link(case)!Cardinality(In(m)) <= case.PerHour
      BY <1>2, <1>6, <2>1 DEF LinksInv, Link!NotFlooded
    <3> QED BY <3>1, <3>2, LinkCounts, Zenon
  <2>2. CASE m = x \/ now < mail[m].created + case.Hour
    <3>1. After(m) \subseteq recent \cup {x}
      BY <1>1, <1>2, <1>3, <2>2 DEF Link!Since
    <3> QED BY <1>5, <3>1
  <2> QED BY <1>1, <1>2, <2>1, <2>2
<1>7. ASSUME NEW m \in case.Mails, mail'[m].state # "NONE", NEW n \in case.Mails \ {m},
             mail'[n].state # "NONE"
      PROVE  mail'[n].created >= mail'[m].created + case.Minute
             \/ mail'[m].created >= mail'[n].created + case.Minute
  <2>1. CASE m # x /\ n # x
    BY <1>2, <1>7, <2>1 DEF LinksInv, Link!NotFlooded
  <2>2. CASE m = x \/ n = x
    BY <1>1, <1>2, <1>3, <1>7, <2>2
  <2> QED BY <2>1, <2>2
<1> QED BY <1>6, <1>7, LinkCounts DEF Link!NotFlooded

LEMMA LinkAskInv ==
  ASSUME NEW case, Link(case)!LoginLinksAssumption, LinksInv(case), NEW a \in case.Askers,
         Link(case)!QueueLogin(a) \/ Link(case)!queueLoginEmail(a)
  PROVE  LinksInv(case)'
<1>1. /\ LinksTyped(case) /\ ask[a] \in LinkStep({}) /\ linkClock \in Int
         /\ mail \in [case.Mails -> LinkLetter]
  BY DEF LinksInv, LinksTyped
<1>2. CASE Link(case)!QueueLogin(a)
  <2> DEFINE x == [ask[a] EXCEPT !.pc = "asked", !.now = linkClock]
  <2>1. x \in LinkStep({})
    <3>1. ASSUME NEW z \in LinkStep({}), NEW t \in Int
          PROVE  [z EXCEPT !.pc = "asked", !.now = t] \in LinkStep({})
      BY DEF LinkStep
    <3> QED BY <1>1, <3>1
  <2>2. ask' = [ask EXCEPT ![a] = x]
          /\ UNCHANGED <<linkClock, linkDeaths, linkDonor, mail, redeem, linkWork, claims>>
    BY <1>2, Zenon DEF Link!QueueLogin
  <2> HIDE DEF x
  <2>3. LinksTyped(case)'
    BY <1>1, <2>1, <2>2 DEF LinksTyped
  <2> QED BY <2>2, <2>3, LinkMailsStay
<1>3. CASE Link(case)!queueLoginEmail(a)
  <2>1. ask' = [ask EXCEPT ![a] = Link(case)!Idle]
          /\ UNCHANGED <<linkClock, redeem, linkWork, claims>>
    BY <1>3 DEF Link!queueLoginEmail
  <2>2. mail' \in [case.Mails -> LinkLetter]
          /\ (\A m \in case.Mails : mail[m].state # "NONE" => mail'[m].state # "NONE")
          => LinksTyped(case)'
    BY <1>1, <2>1, LinkIdleStep DEF LinksTyped
  <2>3. CASE UNCHANGED mail
    BY <1>1, <2>1, <2>2, <2>3, LinkMailsStay
  <2>4. CASE Link(case)!Allowed(ask[a].now) /\ \E m \in case.Mails : mail[m].state = "NONE"
          /\ mail' = Link(case)!QueueLoginEmail(m, ask[a].now)
    <3>1. PICK m \in case.Mails : mail[m].state = "NONE"
            /\ mail' = Link(case)!QueueLoginEmail(m, ask[a].now)
      BY <2>4
    <3> DEFINE now == ask[a].now
               y == LinkQueued(Link(case)!NoMail, now)
    <3>2. now \in Int
      BY <1>1 DEF LinkStep
    <3>3. mail' = [mail EXCEPT ![m] = y]
      BY <3>1, Zenon DEF Link!QueueLoginEmail, LinkQueued
    <3>4. Link(case)!NoMail \in LinkLetter /\ Link(case)!NoMail.link = "none"
      BY DEF Link!NoMail, LinkLetter
    <3>5. y \in LinkLetter /\ y.created = now /\ y.state = "QUEUED" /\ y.link = "none"
      <4> HIDE DEF now
      <4> QED BY <3>2, <3>4, LinkQueuedIs DEF LinkSameLink
    <3> HIDE DEF y, now
    <3>9. LinksTyped(case)'
      <4>1. \A n \in case.Mails : mail[n].state # "NONE" => mail'[n].state # "NONE"
        BY <1>1, <3>1, <3>3, <3>5
      <4>2. mail' \in [case.Mails -> LinkLetter]
        BY <1>1, <3>3, <3>5
      <4> QED BY <2>2, <4>1, <4>2
    <3>6. Link(case)!NotFlooded'
      BY <2>4, <3>1, <3>2, <3>3, <3>5, LinkFloodStays DEF now
    <3>7. mail' \in [case.Mails -> LinkLetter]
            /\ \A n \in case.Mails : mail'[n] = IF n = m THEN y ELSE mail[n]
      BY <1>1, <3>3, <3>5
    <3>8. LinkOpenIsFresh(case)' /\ Link(case)!OneOfTheOpen'
      BY <2>1, <3>5, <3>7 DEF LinksInv, LinkOpenIsFresh, Link!OneOfTheOpen
    <3> QED BY <3>6, <3>8, <3>9 DEF LinksInv
  <2> QED BY <1>3, <2>3, <2>4 DEF Link!queueLoginEmail
<1> QED BY <1>2, <1>3

LEMMA LinkRedeemInv ==
  ASSUME NEW case, Link(case)!LoginLinksAssumption, LinksInv(case), NEW r \in case.Redeemers,
         Link(case)!claim(r) \/ \E m \in case.Mails : Link(case)!LoginLink(r, m)
  PROVE  LinksInv(case)'
<1>1. /\ LinksTyped(case) /\ redeem[r] \in LinkStep(case.Mails)
         /\ mail \in [case.Mails -> LinkLetter] /\ claims \in Int
      /\ (redeem[r].pc # "idle" => redeem[r].mail \in case.Mails)
  BY DEF LinksInv, LinksTyped
<1>2. CASE \E m \in case.Mails : Link(case)!LoginLink(r, m)
  <2>1. PICK m \in case.Mails : Link(case)!LoginLink(r, m)
    BY <1>2
  <2> DEFINE x == [redeem[r] EXCEPT !.pc = "found", !.mail = m]
  <2>2. x \in LinkStep(case.Mails) /\ x.mail = m
    <3>1. ASSUME NEW z \in LinkStep(case.Mails)
          PROVE  [z EXCEPT !.pc = "found", !.mail = m] \in LinkStep(case.Mails)
                                             /\ [z EXCEPT !.pc = "found", !.mail = m].mail = m
      BY DEF LinkStep
    <3> QED BY <1>1, <3>1
  <2>3. redeem' = [redeem EXCEPT ![r] = x]
          /\ UNCHANGED <<linkClock, linkDeaths, linkDonor, mail, ask, linkWork, claims>>
    BY <2>1, Zenon DEF Link!LoginLink
  <2> HIDE DEF x
  <2>4. LinksTyped(case)'
    BY <1>1, <2>2, <2>3 DEF LinksTyped
  <2> QED BY <2>3, <2>4, LinkMailsStay
<1>3. CASE Link(case)!claim(r)
  <2> DEFINE m == redeem[r].mail
  <2>1. m \in case.Mails /\ redeem' = [redeem EXCEPT ![r] = Link(case)!Idle]
          /\ UNCHANGED <<linkClock, ask, linkWork>>
    BY <1>1, <1>3 DEF Link!claim
  <2>2. mail' \in [case.Mails -> LinkLetter] /\ claims' \in Int
          /\ (\A n \in case.Mails : mail[n].state # "NONE" => mail'[n].state # "NONE")
          => LinksTyped(case)'
    BY <1>1, <2>1, LinkIdleStep DEF LinksTyped
  <2>3. CASE UNCHANGED <<linkDonor, mail, claims>>
    BY <1>1, <2>2, <2>3, LinkMailsStay
  <2>4. CASE ~UNCHANGED <<linkDonor, mail, claims>>
    <3> DEFINE y == LinkRedeemed(mail[m], claims)
               table == [mail EXCEPT ![m] = y]
    <3>1. mail[m].link = "open" /\ mail' = Link(case)!ConsumeDonorLinks(table)
            /\ claims' = claims + 1
      BY <1>3, <2>4, Zenon DEF Link!claim, Link!RedeemLoginLink, LinkRedeemed
    <3>2. /\ y \in LinkLetter /\ LinkSameMail(mail[m], y) /\ y.link = "redeemed"
             /\ y.redeemed = claims /\ y.minted = mail[m].minted
      BY <1>1, <2>1, LinkRedeemedIs
    <3> HIDE DEF y
    <3>3. /\ table \in [case.Mails -> LinkLetter]
             /\ \A n \in case.Mails : table[n] = IF n = m THEN y ELSE mail[n]
      BY <1>1, <2>1, <3>2
    <3> HIDE DEF table
    <3>4. \A n \in case.Mails : LinkSameMail(mail[n], table[n])
      BY <3>2, <3>3 DEF LinkSameMail
    <3>5. \A n \in case.Mails : table[n].link = "redeemed" => table[n].redeemed = table[n].minted
      BY <2>1, <3>1, <3>2, <3>3 DEF LinksInv, Link!OneOfTheOpen, LinkOpenIsFresh
    <3>6. LinksTyped(case)'
      <4>1. /\ mail' \in [case.Mails -> LinkLetter]
               /\ \A n \in case.Mails : LinkSameMail(table[n], mail'[n])
        BY <3>1, <3>3, LinkConsumedIs
      <4>2. \A n \in case.Mails : mail[n].state # "NONE" => mail'[n].state # "NONE"
        BY <3>4, <4>1 DEF LinkSameMail
      <4> QED BY <1>1, <2>2, <3>1, <4>1, <4>2
    <3> QED BY <3>1, <3>3, <3>4, <3>5, <3>6, LinksClosed
  <2> QED BY <2>3, <2>4
<1> QED BY <1>2, <1>3

LEMMA LinkWorkInv ==
  ASSUME NEW case, Link(case)!LoginLinksAssumption, LinksInv(case), NEW w \in case.Workers,
         Link(case)!DeliverNext(w) \/ Link(case)!Refused(w) \/ Link(case)!Die(w)
  PROVE  LinksInv(case)'
<1>1. /\ LinksTyped(case) /\ linkWork[w] \in LinkStep(case.Mails)
         /\ mail \in [case.Mails -> LinkLetter] /\ claims \in Int /\ linkClock \in Int
      /\ (linkWork[w].pc # "idle" => linkWork[w].mail \in case.Mails
         /\ mail[linkWork[w].mail].state # "NONE") /\ linkWork[w].now \in Int
  BY DEF LinksInv, LinksTyped, LinkStep
<1>2. ASSUME NEW x \in LinkStep(case.Mails),
             x.pc # "idle" => x.mail \in case.Mails /\ mail[x.mail].state # "NONE",
             linkWork' = [linkWork EXCEPT ![w] = x]
      PROVE  linkWork' \in [case.Workers -> LinkStep(case.Mails)]
             /\ \A v \in case.Workers : linkWork'[v].pc # "idle" =>
               linkWork'[v].mail \in case.Mails /\ mail[linkWork'[v].mail].state # "NONE"
  BY <1>1, <1>2 DEF LinksTyped
<1>3. /\ case.deliveryLease \in Nat /\ case.RetryAfter \in Nat /\ case.proofLifetime \in Nat
      /\ \A t \in Int : Link(case)!At(t) \in Int
  BY LinkAtTyped DEF Link!LoginLinksAssumption
<1>4. ASSUME NEW x \in LinkStep(case.Mails),
             x.pc # "idle" => x.mail \in case.Mails /\ mail[x.mail].state # "NONE",
             linkWork' = [linkWork EXCEPT ![w] = x] \/ linkWork' = linkWork,
             UNCHANGED <<linkClock, ask, redeem, claims, mail>>
      PROVE  LinksInv(case)'
  <2>1. LinksTyped(case)'
    BY <1>1, <1>2, <1>4 DEF LinksTyped
  <2> QED BY <1>4, <2>1, LinkMailsStay
<1>5. ASSUME NEW x \in LinkStep(case.Mails),
             x.pc # "idle" => x.mail \in case.Mails /\ mail[x.mail].state # "NONE",
             linkWork' = [linkWork EXCEPT ![w] = x] \/ linkWork' = linkWork,
             UNCHANGED <<linkClock, ask, redeem, claims>>,
             NEW m \in case.Mails, NEW y \in LinkLetter, mail' = [mail EXCEPT ![m] = y],
             LinkSameMail(mail[m], y),
             LinkSameLink(mail[m], y) \/ (y.link = "open" /\ y.minted = claims)
      PROVE  LinksInv(case)'
  <2>1. linkWork' \in [case.Workers -> LinkStep(case.Mails)]
          /\ \A v \in case.Workers : linkWork'[v].pc # "idle" =>
               linkWork'[v].mail \in case.Mails /\ mail[linkWork'[v].mail].state # "NONE"
    BY <1>1, <1>2, <1>5 DEF LinksTyped
  <2> QED BY <1>1, <1>5, <2>1, LinkMailMoves
<1>6. ASSUME NEW pc \in {"sending", "sent"}, linkWork[w].pc # "idle"
      PROVE  [linkWork[w] EXCEPT !.pc = pc] \in LinkStep(case.Mails)
             /\ [linkWork[w] EXCEPT !.pc = pc].mail = linkWork[w].mail
             /\ linkWork[w].mail \in case.Mails /\ mail[linkWork[w].mail].state # "NONE"
  BY <1>1, <1>6 DEF LinkStep
<1>7. CASE \E m \in case.Mails : Link(case)!prepare(w, m)
  <2>1. PICK m \in case.Mails : Link(case)!prepare(w, m)
    BY <1>7
  <2>2. UNCHANGED <<linkClock, ask, redeem, claims>> /\ mail[m] \in LinkLetter
          /\ mail[m].state = "QUEUED"
    BY <1>1, <2>1 DEF Link!prepare, Link!NextLoginEmail
  <2>3. CASE linkDonor.disabled
    <3> DEFINE y == LinkFinished(mail[m])
    <3>1. mail' = [mail EXCEPT ![m] = y] /\ linkWork' = linkWork
      BY <2>1, <2>3, Zenon DEF Link!prepare, Link!CompleteLoginEmail, LinkFinished
    <3>2. y \in LinkLetter /\ LinkSameMail(mail[m], y) /\ LinkSameLink(mail[m], y)
      BY <2>2, LinkFinishedIs
    <3> HIDE DEF y
    <3> QED BY <1>5, <2>2, <3>1, <3>2, LinkIdleStep
  <2>4. CASE ~linkDonor.disabled
    <3> DEFINE x == [pc |-> "prepared", mail |-> m, now |-> linkClock]
               until == linkClock + case.proofLifetime
               y == LinkOpened(mail[m], until, claims)
    <3>1. x \in LinkStep(case.Mails) /\ x.mail = m /\ linkWork' = [linkWork EXCEPT ![w] = x]
      BY <1>1, <2>1, <2>4 DEF LinkStep, Link!prepare
    <3>2. mail' = [mail EXCEPT ![m] = y] \/ mail' = mail
      BY <2>1, <2>4, Zenon DEF Link!prepare, Link!InsertLoginLink, LinkOpened
    <3>3. until \in Int
      BY <1>1, <1>3
    <3> HIDE DEF x, until
    <3>4. y \in LinkLetter /\ LinkSameMail(mail[m], y) /\ y.link = "open" /\ y.minted = claims
      BY <1>1, <2>2, <3>3, LinkOpenedIs
    <3> HIDE DEF y
    <3>5. CASE mail' = mail
      BY <1>4, <2>2, <3>1, <3>5
    <3>6. CASE mail' = [mail EXCEPT ![m] = y]
      BY <1>5, <2>2, <3>1, <3>4, <3>6
    <3> QED BY <3>2, <3>5, <3>6
  <2> QED BY <2>3, <2>4
<1>8. CASE Link(case)!claimMail(w)
  <2> DEFINE m == linkWork[w].mail
             now == linkWork[w].now
  <2>1. linkWork[w].pc = "prepared" /\ m \in case.Mails
          /\ UNCHANGED <<linkClock, ask, redeem, claims>>
    BY <1>1, <1>8 DEF Link!claimMail
  <2>2. CASE ~Link(case)!NextLoginEmail(m, now)
    <3>1. linkWork' = [linkWork EXCEPT ![w] = Link(case)!Idle] /\ UNCHANGED mail
      BY <1>8, <2>2 DEF Link!claimMail
    <3> QED BY <1>4, <2>1, <3>1, LinkIdleStep
  <2>3. CASE Link(case)!NextLoginEmail(m, now) /\ (linkDonor.disabled \/ mail[m].expires <= now)
          /\ mail' = Link(case)!CompleteLoginEmail(m)
             /\ linkWork' = [linkWork EXCEPT ![w] = Link(case)!Idle]
    <3> DEFINE y == LinkFinished(mail[m])
    <3>1. mail' = [mail EXCEPT ![m] = y]
      BY <2>3, Zenon DEF Link!CompleteLoginEmail, LinkFinished
    <3>2. y \in LinkLetter /\ LinkSameMail(mail[m], y) /\ LinkSameLink(mail[m], y)
      BY <1>1, <2>1, <2>3, LinkFinishedIs DEF Link!NextLoginEmail
    <3> HIDE DEF y
    <3> QED BY <1>5, <2>1, <2>3, <3>1, <3>2, LinkIdleStep
  <2>4. CASE Link(case)!NextLoginEmail(m, now) /\ ~linkDonor.disabled
          /\ mail' = Link(case)!ClaimLoginEmail(m, now) /\ Link(case)!To(w, "sending")
    <3> DEFINE n == mail[m].attempts + 1
               t == Link(case)!At(now + case.deliveryLease)
               y == LinkAttempted(mail[m], n, t)
               x == [linkWork[w] EXCEPT !.pc = "sending"]
    <3>1. mail' = [mail EXCEPT ![m] = y]
      BY <2>4, Zenon DEF Link!ClaimLoginEmail, LinkAttempted
    <3>2. x \in LinkStep(case.Mails) /\ x.mail \in case.Mails /\ mail[x.mail].state # "NONE"
            /\ linkWork' = [linkWork EXCEPT ![w] = x]
      BY <1>6, <2>1, <2>4 DEF Link!To
    <3>3. n \in Int /\ t \in Int /\ mail[m] \in LinkLetter
      BY <1>1, <1>3, <2>1 DEF LinkLetter
    <3> HIDE DEF n, t, x
    <3>4. y \in LinkLetter /\ LinkSameMail(mail[m], y) /\ LinkSameLink(mail[m], y)
      BY <3>3, LinkAttemptedIs
    <3> HIDE DEF y
    <3> QED BY <1>5, <2>1, <3>1, <3>2, <3>4
  <2> QED BY <1>8, <2>2, <2>3, <2>4 DEF Link!claimMail
<1>9. CASE Link(case)!Send(w)
  <2> DEFINE m == linkWork[w].mail
             n == mail[m].sent + 1
             y == LinkMailed(mail[m], n)
             x == [linkWork[w] EXCEPT !.pc = "sent"]
  <2>1. m \in case.Mails /\ UNCHANGED <<linkClock, ask, redeem, claims>> /\ linkWork[w].pc # "idle"
    BY <1>1, <1>9 DEF Link!Send
  <2>2. mail' = [mail EXCEPT ![m] = y]
    BY <1>9, Zenon DEF Link!Send, LinkMailed
  <2>3. x \in LinkStep(case.Mails) /\ x.mail \in case.Mails /\ mail[x.mail].state # "NONE"
          /\ linkWork' = [linkWork EXCEPT ![w] = x]
    BY <1>6, <1>9, <2>1 DEF Link!Send, Link!To
  <2>4. n \in Int /\ mail[m] \in LinkLetter
    BY <1>1, <2>1 DEF LinkLetter
  <2> HIDE DEF n, x
  <2>5. y \in LinkLetter /\ LinkSameMail(mail[m], y) /\ LinkSameLink(mail[m], y)
    BY <2>4, LinkMailedIs
  <2> HIDE DEF y
  <2> QED BY <1>5, <2>1, <2>2, <2>3, <2>5
<1>10. CASE Link(case)!Refused(w)
  <2> DEFINE m == linkWork[w].mail
             t == Link(case)!At(linkWork[w].now + case.RetryAfter)
             y == LinkPostponed(mail[m], t)
  <2>1. m \in case.Mails /\ UNCHANGED <<linkClock, ask, redeem, claims>>
          /\ linkWork' = [linkWork EXCEPT ![w] = Link(case)!Idle]
    BY <1>1, <1>10 DEF Link!Refused
  <2>2. mail' = [mail EXCEPT ![m] = y] \/ mail' = mail
    BY <1>10, Zenon DEF Link!Refused, Link!FailLoginEmail, LinkPostponed
  <2>3. t \in Int /\ mail[m] \in LinkLetter
    BY <1>1, <1>3, <2>1
  <2> HIDE DEF t
  <2>4. y \in LinkLetter /\ LinkSameMail(mail[m], y) /\ LinkSameLink(mail[m], y)
    BY <2>3, LinkPostponedIs
  <2> HIDE DEF y
  <2>5. CASE mail' = mail
    BY <1>4, <2>1, <2>5, LinkIdleStep
  <2>6. CASE mail' = [mail EXCEPT ![m] = y]
    BY <1>5, <2>1, <2>4, <2>6, LinkIdleStep
  <2> QED BY <2>2, <2>5, <2>6
<1>11. CASE Link(case)!Delivered(w)
  <2> DEFINE m == linkWork[w].mail
             y == LinkFinished(mail[m])
  <2>1. m \in case.Mails /\ UNCHANGED <<linkClock, ask, redeem, claims>>
          /\ linkWork' = [linkWork EXCEPT ![w] = Link(case)!Idle]
        /\ mail[m].state # "NONE"
    BY <1>1, <1>11 DEF Link!Delivered
  <2>2. mail' = [mail EXCEPT ![m] = y]
    BY <1>11, Zenon DEF Link!Delivered, Link!CompleteLoginEmail, LinkFinished
  <2>3. y \in LinkLetter /\ LinkSameMail(mail[m], y) /\ LinkSameLink(mail[m], y)
    BY <1>1, <2>1, LinkFinishedIs
  <2> HIDE DEF y
  <2> QED BY <1>5, <2>1, <2>2, <2>3, LinkIdleStep
<1>12. CASE Link(case)!Die(w)
  BY <1>4, <1>12, LinkIdleStep DEF Link!Die
<1> QED BY <1>7, <1>8, <1>9, <1>10, <1>11, <1>12 DEF Link!DeliverNext

LEMMA LinksStep ==
  ASSUME NEW case, Link(case)!LoginLinksAssumption, LinksInv(case), Link(case)!Next
  PROVE  LinksInv(case)'
<1>1. CASE \E a \in case.Askers : Link(case)!QueueLogin(a) \/ Link(case)!queueLoginEmail(a)
  BY <1>1, LinkAskInv
<1>2. CASE \E r \in case.Redeemers : Link(case)!claim(r)
        \/ \E m \in case.Mails : Link(case)!LoginLink(r, m)
  BY <1>2, LinkRedeemInv
<1>3. CASE \E w \in case.Workers : Link(case)!DeliverNext(w) \/ Link(case)!Refused(w)
        \/ Link(case)!Die(w)
  BY <1>3, LinkWorkInv
<1>4. CASE Link(case)!DeleteAccount
  <2>1. mail' = Link(case)!ConsumeDonorLinks(mail)
          /\ UNCHANGED <<linkClock, ask, redeem, linkWork, claims>>
          /\ mail \in [case.Mails -> LinkLetter]
    BY <1>4 DEF Link!DeleteAccount, LinksInv, LinksTyped
  <2>2. LinksTyped(case)'
    <3>1. /\ mail' \in [case.Mails -> LinkLetter]
             /\ \A n \in case.Mails : LinkSameMail(mail[n], mail'[n])
      BY <2>1, LinkConsumedIs
    <3>2. \A n \in case.Mails : mail[n].state # "NONE" => mail'[n].state # "NONE"
      BY <3>1 DEF LinkSameMail
    <3> QED BY <2>1, <3>1, <3>2 DEF LinksInv, LinksTyped
  <2>3. \A m \in case.Mails : LinkSameMail(mail[m], mail[m])
    BY DEF LinkSameMail
  <2>4. \A m \in case.Mails : mail[m].link = "redeemed" => mail[m].redeemed = mail[m].minted
    BY DEF LinksInv, Link!OneOfTheOpen
  <2> QED BY <2>1, <2>2, <2>3, <2>4, LinksClosed
<1>5. CASE Link(case)!Tick
  <2>1. LinksTyped(case)'
    BY <1>5 DEF Link!Tick, LinksInv, LinksTyped
  <2> QED BY <1>5, <2>1, LinkMailsStay DEF Link!Tick
<1> QED BY <1>1, <1>2, <1>3, <1>4, <1>5 DEF Link!Next

-----------------------------------------------------------------------------
(***************************************************************************)
(* Phone codes. A code is numbered by how many were sent: what signed in   *)
(* is not the code in force, and guesses are counted where the code is     *)
(* kept.                                                                   *)
(***************************************************************************)
PhoneCode == [id : Nat, attempts : Nat, at : Int, expires : Int, tries : Nat]
PhoneShown(case) ==
  [way : {"none", "phone"}, with : case.Phones \cup {"none"}, n : Nat, ceremony : {"none"}]
PhoneSignedIn(case) ==
  [owner : case.Donors \cup {"none"}, live : BOOLEAN, verified : Int, proof : PhoneShown(case),
   era : {0}]
PhoneAnswer(case) ==
  [pc : {"idle", "begin", "finish"}, of : case.Donors \cup {"none"}, proof : PhoneShown(case)]

PhoneTyped(case) ==
  /\ credentialClock \in Int /\ codes \in Nat /\ code \in [case.Phones -> PhoneCode]
  /\ credentialSess \in [case.Sessions -> PhoneSignedIn(case)]
  /\ credentialReq \in [case.Requests -> PhoneAnswer(case)]
  /\ \A r \in case.Requests : credentialReq[r].pc # "idle" =>
       credentialReq[r].proof.way = "phone" /\ credentialReq[r].proof.with \in case.Phones

\* A code is numbered by the codes sent, and its guesses are its attempts.
PhoneCodesCounted(case) ==
  \A p \in case.Phones : /\ code[p].id <= codes /\ code[p].tries = code[p].attempts
                         /\ code[p].attempts <= case.phoneCodeMaxTries
                         /\ code[p].id = 0 => code[p] = Credential(case)!NoCode

\* A code that signed in is one of those sent, and not the one in force.
PhoneUsedUp(case, proof) ==
  proof.way = "phone" =>
    proof.n \in 1 .. codes /\ proof.with \in case.Phones /\ code[proof.with].id # proof.n

PhoneInv(case) ==
  /\ PhoneTyped(case) /\ PhoneCodesCounted(case) /\ Credential(case)!SignsInOnce
  /\ \A s \in case.Sessions : PhoneUsedUp(case, credentialSess[s].proof)

LEMMA PhoneNothingShown ==
  ASSUME NEW case
  PROVE  /\ Credential(case)!NoProof \in PhoneShown(case) /\ Credential(case)!NoProof.way = "none"
         /\ Credential(case)!NoCode \in PhoneCode /\ Credential(case)!NoCode.id = 0
         /\ Credential(case)!NoCode.tries = 0 /\ Credential(case)!NoCode.attempts = 0
         /\ Credential(case)!NoSession \in PhoneSignedIn(case)
         /\ Credential(case)!NoSession.proof = Credential(case)!NoProof
         /\ Credential(case)!Idle \in PhoneAnswer(case) /\ Credential(case)!Idle.pc = "idle"
<1>1. Credential(case)!NoProof \in PhoneShown(case) /\ Credential(case)!NoProof.way = "none"
  BY DEF Credential!NoProof, PhoneShown
<1>2. Credential(case)!NoCode \in PhoneCode /\ Credential(case)!NoCode.id = 0
        /\ Credential(case)!NoCode.tries = 0 /\ Credential(case)!NoCode.attempts = 0
  BY DEF Credential!NoCode, PhoneCode
<1>3. Credential(case)!NoSession \in PhoneSignedIn(case)
        /\ Credential(case)!NoSession.proof = Credential(case)!NoProof
        /\ Credential(case)!Idle \in PhoneAnswer(case) /\ Credential(case)!Idle.pc = "idle"
  BY <1>1 DEF Credential!NoSession, PhoneSignedIn, Credential!Idle, PhoneAnswer
<1> QED BY <1>1, <1>2, <1>3

LEMMA PhoneInit ==
  ASSUME NEW case, Credential(case)!CredentialsAssumption, Credential(case)!Init
  PROVE  PhoneInv(case)
<1>1. case.phoneCodeMaxTries \in Nat
  BY DEF Credential!CredentialsAssumption
<1>2. PhoneTyped(case) /\ PhoneCodesCounted(case)
  BY <1>1, PhoneNothingShown DEF Credential!Init, PhoneTyped, PhoneCodesCounted
<1> QED BY <1>2, PhoneNothingShown DEF Credential!Init, PhoneInv, Credential!SignsInOnce,
      PhoneUsedUp

\* The proofs of sessions and the codes stay, or codes go.
LEMMA PhoneProofsStay ==
  ASSUME NEW case, Credential(case)!CredentialsAssumption, PhoneInv(case),
         credentialClock' \in Int, codes' = codes,
         credentialReq' \in [case.Requests -> PhoneAnswer(case)],
         \A r \in case.Requests : credentialReq'[r].pc # "idle"
           => credentialReq'[r].proof.way = "phone" /\ credentialReq'[r].proof.with \in case.Phones,
         code' \in [case.Phones -> PhoneCode], \A p \in case.Phones : code'[p] = code[p]
           \/ code'[p] = Credential(case)!NoCode,
         credentialSess' \in [case.Sessions -> PhoneSignedIn(case)],
         \A s \in case.Sessions : credentialSess'[s].proof = credentialSess[s].proof
           \/ credentialSess'[s].proof = Credential(case)!NoProof
  PROVE  PhoneInv(case)'
<1>1. PhoneTyped(case)'
  BY DEF PhoneInv, PhoneTyped
<1>2. case.phoneCodeMaxTries \in Nat
  BY DEF Credential!CredentialsAssumption
<1>3. PhoneCodesCounted(case)'
  BY <1>2, PhoneNothingShown DEF PhoneInv, PhoneTyped, PhoneCodesCounted
<1>4. Credential(case)!SignsInOnce'
  BY PhoneNothingShown DEF PhoneInv, Credential!SignsInOnce
<1>5. \A s \in case.Sessions : PhoneUsedUp(case, credentialSess[s].proof)'
  <2> SUFFICES ASSUME NEW s \in case.Sessions PROVE PhoneUsedUp(case, credentialSess[s].proof)'
    OBVIOUS
  <2>1. CASE credentialSess'[s].proof = Credential(case)!NoProof
    BY <2>1, PhoneNothingShown DEF PhoneUsedUp
  <2>2. CASE credentialSess'[s].proof = credentialSess[s].proof
    BY <2>2, PhoneNothingShown DEF PhoneInv, PhoneUsedUp
  <2> QED BY <2>1, <2>2
<1> QED BY <1>1, <1>3, <1>4, <1>5 DEF PhoneInv

LEMMA PhoneProof_ ==
  ASSUME NEW case, PhoneInv(case), NEW r \in case.Requests, credentialReq[r].pc # "idle"
  PROVE  /\ credentialReq[r] \in PhoneAnswer(case) /\ credentialReq[r].proof \in PhoneShown(case)
            /\ credentialReq[r].proof.way = "phone"
         /\ credentialReq[r].proof.with \in case.Phones
            /\ credentialReq[r].of \in case.Donors \cup {"none"}
<1>1. credentialReq[r] \in PhoneAnswer(case)
  BY DEF PhoneInv, PhoneTyped
<1>2. credentialReq[r].proof.way = "phone" /\ credentialReq[r].proof.with \in case.Phones
  BY Zenon DEF PhoneInv, PhoneTyped
<1> QED BY <1>1, <1>2 DEF PhoneAnswer

LEMMA PhoneRests ==
  ASSUME NEW case, PhoneInv(case), NEW r \in case.Requests, Credential(case)!Answered(r)
  PROVE  /\ credentialReq' \in [case.Requests -> PhoneAnswer(case)]
         /\ \A q \in case.Requests : credentialReq'[q].pc # "idle"
            => credentialReq'[q].proof.way = "phone" /\ credentialReq'[q].proof.with \in case.Phones
<1>1. credentialReq' = [credentialReq EXCEPT ![r] = Credential(case)!Idle]
        /\ credentialReq \in [case.Requests -> PhoneAnswer(case)]
  BY DEF Credential!Answered, PhoneInv, PhoneTyped
<1>2. \A q \in case.Requests : credentialReq'[q] = IF q = r THEN Credential(case)!Idle
        ELSE credentialReq[q]
  BY <1>1
<1>3. credentialReq' \in [case.Requests -> PhoneAnswer(case)]
  BY <1>1, PhoneNothingShown
<1>4. \A q \in case.Requests : credentialReq[q].pc # "idle"
        => credentialReq[q].proof.way = "phone" /\ credentialReq[q].proof.with \in case.Phones
  BY Zenon DEF PhoneInv, PhoneTyped
<1> QED BY <1>2, <1>3, <1>4, PhoneNothingShown

LEMMA PhoneFindStep ==
  ASSUME NEW case, Credential(case)!CredentialsAssumption, PhoneInv(case), NEW r \in case.Requests,
         NEW p \in case.Phones, NEW guess \in Nat,
         NEW what \in {"begin", "finish"}, Credential(case)!DonorByPhone(r, p, guess, what)
  PROVE  PhoneInv(case)'
<1> PICK d \in case.Donors : Credential(case)!Found(r, what,
      d, [way |-> "phone", with |-> p, n |-> guess, ceremony |-> "none"])
  BY Zenon DEF Credential!DonorByPhone
<1> DEFINE proof == [way |-> "phone", with |-> p, n |-> guess, ceremony |-> "none"]
           answer == [pc |-> what, of |-> d, proof |-> proof]
<1>1. proof \in PhoneShown(case) /\ proof.way = "phone" /\ proof.with \in case.Phones
  BY DEF PhoneShown
<1>2. credentialReq' = [credentialReq EXCEPT ![r] = answer]
        /\ UNCHANGED <<credentialClock, codes, code, credentialSess>>
  BY Zenon DEF Credential!Found, Credential!DonorByPhone
<1> HIDE DEF proof
<1>3. answer \in PhoneAnswer(case) /\ answer.proof = proof
  BY <1>1 DEF PhoneAnswer
<1> HIDE DEF answer
<1>4. credentialReq' \in [case.Requests -> PhoneAnswer(case)]
        /\ \A q \in case.Requests : credentialReq'[q] = IF q = r THEN answer ELSE credentialReq[q]
  BY <1>2, <1>3 DEF PhoneInv, PhoneTyped
<1>5. \A q \in case.Requests : credentialReq[q].pc # "idle"
        => credentialReq[q].proof.way = "phone" /\ credentialReq[q].proof.with \in case.Phones
  BY Zenon DEF PhoneInv, PhoneTyped
<1>6. \A q \in case.Requests : credentialReq'[q].pc # "idle"
        => credentialReq'[q].proof.way = "phone" /\ credentialReq'[q].proof.with \in case.Phones
  BY <1>1, <1>3, <1>4, <1>5
<1>7. credentialClock' \in Int /\ code' \in [case.Phones -> PhoneCode]
        /\ credentialSess' \in [case.Sessions -> PhoneSignedIn(case)]
  BY <1>2 DEF PhoneInv, PhoneTyped
<1> QED BY <1>2, <1>4, <1>6, <1>7, PhoneProofsStay

LEMMA PhoneBeginStep ==
  ASSUME NEW case, Credential(case)!CredentialsAssumption, PhoneInv(case), NEW r \in case.Requests,
         Credential(case)!BeginPhoneSignIn(r)
  PROVE  PhoneInv(case)'
<1> DEFINE p == credentialReq[r].proof.with
<1>1. credentialReq[r].pc # "idle" /\ Credential(case)!Answered(r)
        /\ UNCHANGED <<credentialClock, credentialSess>>
  BY DEF Credential!BeginPhoneSignIn
<1>2. p \in case.Phones
  BY <1>1, PhoneProof_
<1>3. /\ credentialReq' \in [case.Requests -> PhoneAnswer(case)]
      /\ \A q \in case.Requests : credentialReq'[q].pc # "idle"
         => credentialReq'[q].proof.way = "phone" /\ credentialReq'[q].proof.with \in case.Phones
  BY <1>1, PhoneRests
<1>4. CASE UNCHANGED <<code, codes>>
  BY <1>1, <1>3, <1>4, PhoneProofsStay DEF PhoneInv, PhoneTyped
<1>5. CASE code' = Credential(case)!UpsertPhoneCode(p) /\ codes' = codes + 1
  <2> DEFINE new == [id |-> codes + 1, attempts |-> 0, at |-> credentialClock,
        expires |-> credentialClock + case.phoneCodeTTL, tries |-> 0]
  <2>1. codes \in Nat /\ credentialClock \in Int /\ case.phoneCodeTTL \in Nat
          /\ case.phoneCodeMaxTries \in Nat
        /\ code \in [case.Phones -> PhoneCode]
    BY DEF PhoneInv, PhoneTyped, Credential!CredentialsAssumption
  <2>2. new \in PhoneCode /\ new.id = codes + 1 /\ new.attempts = 0 /\ new.tries = 0
    BY <2>1 DEF PhoneCode
  <2>3. code' = [code EXCEPT ![p] = new]
    BY <1>5, Zenon DEF Credential!UpsertPhoneCode
  <2> HIDE DEF new, p
  <2>4. code' \in [case.Phones -> PhoneCode]
          /\ \A q \in case.Phones : code'[q] = IF q = p THEN new ELSE code[q]
    BY <2>1, <2>2, <2>3
  <2>5. PhoneTyped(case)'
    BY <1>1, <1>3, <1>5, <2>1, <2>4 DEF PhoneInv, PhoneTyped
  <2>6. \A q \in case.Phones : code[q] \in PhoneCode /\ code[q].id <= codes
          /\ code[q].tries = code[q].attempts /\ code[q].attempts <= case.phoneCodeMaxTries
           /\ (code[q].id = 0 => code[q] = Credential(case)!NoCode)
    BY <2>1 DEF PhoneInv, PhoneCodesCounted
  <2>7. PhoneCodesCounted(case)'
    <3> SUFFICES ASSUME NEW q \in case.Phones
                 PROVE  /\ code'[q].id <= codes' /\ code'[q].tries = code'[q].attempts
                        /\ code'[q].attempts <= case.phoneCodeMaxTries
                           /\ (code'[q].id = 0 => code'[q] = Credential(case)!NoCode)
      BY DEF PhoneCodesCounted
    <3>1. CASE q = p
      BY <1>5, <2>1, <2>2, <2>4, <3>1
    <3>2. CASE q # p
      BY <1>5, <2>1, <2>4, <2>6, <3>2 DEF PhoneCode
    <3> QED BY <3>1, <3>2
  <2>8. Credential(case)!SignsInOnce'
    BY <1>1, <1>5 DEF PhoneInv, Credential!SignsInOnce
  <2>9. ASSUME NEW s \in case.Sessions, credentialSess'[s].proof.way = "phone"
        PROVE  credentialSess'[s].proof.n \in 1 .. codes'
               /\ credentialSess'[s].proof.with \in case.Phones
               /\ code'[credentialSess'[s].proof.with].id # credentialSess'[s].proof.n
    <3>1. credentialSess[s].proof.way = "phone" /\ PhoneUsedUp(case, credentialSess[s].proof)
            /\ credentialSess'[s] = credentialSess[s]
      BY <1>1, <2>9 DEF PhoneInv
    <3>2. credentialSess[s].proof.n \in 1 .. codes /\ credentialSess[s].proof.with \in case.Phones
            /\ code[credentialSess[s].proof.with].id # credentialSess[s].proof.n
      BY <3>1 DEF PhoneUsedUp
    <3> QED BY <1>5, <2>1, <2>2, <2>4, <3>1, <3>2
  <2> QED BY <2>5, <2>7, <2>8, <2>9 DEF PhoneInv, PhoneUsedUp
<1> QED BY <1>4, <1>5, Zenon DEF Credential!BeginPhoneSignIn

\* What becomes of a code whose guess was wrong.
PhoneGuessed(x, a, t) == [x EXCEPT !.attempts = a, !.tries = t]

LEMMA PhoneCodeGuessed ==
  ASSUME NEW x \in PhoneCode, NEW a \in Nat, NEW t \in Nat
  PROVE  /\ PhoneGuessed(x, a, t) \in PhoneCode /\ PhoneGuessed(x, a, t).id = x.id
            /\ PhoneGuessed(x, a, t).attempts = a
         /\ PhoneGuessed(x, a, t).tries = t
BY DEF PhoneCode, PhoneGuessed

LEMMA PhoneFinishStep ==
  ASSUME NEW case, Credential(case)!CredentialsAssumption, PhoneInv(case), NEW r \in case.Requests,
         NEW s \in case.Sessions, Credential(case)!FinishPhoneSignIn(r, s)
  PROVE  PhoneInv(case)'
<1> DEFINE p == credentialReq[r].proof.with
           proof == credentialReq[r].proof
<1>1. credentialReq[r].pc # "idle" /\ Credential(case)!Answered(r)
        /\ UNCHANGED <<credentialClock, codes>> /\ s \in Credential(case)!Fresh
  BY DEF Credential!FinishPhoneSignIn
<1>2. p \in case.Phones /\ proof \in PhoneShown(case) /\ proof.way = "phone"
        /\ credentialReq[r].of \in case.Donors \cup {"none"}
  BY <1>1, PhoneProof_
<1>3. /\ credentialReq' \in [case.Requests -> PhoneAnswer(case)]
      /\ \A q \in case.Requests : credentialReq'[q].pc # "idle"
         => credentialReq'[q].proof.way = "phone" /\ credentialReq'[q].proof.with \in case.Phones
  BY <1>1, PhoneRests
<1>4. codes \in Nat /\ credentialClock \in Int /\ case.phoneCodeMaxTries \in Nat
        /\ code \in [case.Phones -> PhoneCode]
        /\ credentialSess \in [case.Sessions -> PhoneSignedIn(case)]
  BY DEF PhoneInv, PhoneTyped, Credential!CredentialsAssumption
<1>5. \A q \in case.Phones : code[q] \in PhoneCode /\ code[q].id <= codes
        /\ code[q].tries = code[q].attempts /\ code[q].attempts <= case.phoneCodeMaxTries
         /\ (code[q].id = 0 => code[q] = Credential(case)!NoCode)
  BY <1>4 DEF PhoneInv, PhoneCodesCounted
<1>6. \A t \in case.Sessions : credentialSess[t].proof.way = "phone" =>
         credentialSess[t].proof.n \in 1 .. codes /\ credentialSess[t].proof.with \in case.Phones
           /\ code[credentialSess[t].proof.with].id # credentialSess[t].proof.n
  BY DEF PhoneInv, PhoneUsedUp
<1>7. \A t, u \in case.Sessions : t # u /\ credentialSess[t].proof.way = "phone"
        => credentialSess[t].proof # credentialSess[u].proof
  BY DEF PhoneInv, Credential!SignsInOnce
<1>8. CASE Credential(case)!Open(p) /\ proof.n = code[p].id
        /\ code' = Credential(case)!DeletePhoneCode(p)
        /\ credentialSess' = Credential(case)!issueSession(s, credentialReq[r].of, proof)
  <2> DEFINE row == [owner |-> credentialReq[r].of, live |-> TRUE, verified |-> 0, proof |-> proof,
                     era |-> IF proof.way = "passkey" THEN credentialKey[proof.with].era ELSE 0]
  <2>1. credentialSess' = [credentialSess EXCEPT ![s] = row]
          /\ code' = [code EXCEPT ![p] = Credential(case)!NoCode]
    BY <1>8, Zenon DEF Credential!issueSession, Credential!DeletePhoneCode
  <2>2. proof.n \in 1 .. codes
    BY <1>2, <1>4, <1>5, <1>8 DEF Credential!Open, PhoneCode
  <2>2a. proof.with = p
    OBVIOUS
  <2> HIDE DEF p, proof
  <2>3. row \in PhoneSignedIn(case) /\ row.proof = proof
    BY <1>2 DEF PhoneSignedIn
  <2> HIDE DEF row
  <2>4. \A t \in case.Sessions : credentialSess'[t] = IF t = s THEN row ELSE credentialSess[t]
    BY <1>4, <2>1
  <2>5. \A q \in case.Phones : code'[q] = IF q = p THEN Credential(case)!NoCode ELSE code[q]
    BY <1>4, <2>1
  <2>6. PhoneTyped(case)'
    BY <1>1, <1>3, <1>4, <2>1, <2>3, PhoneNothingShown DEF PhoneInv, PhoneTyped
  <2>7. PhoneCodesCounted(case)'
    BY <1>1, <1>4, <1>5, <2>5, PhoneNothingShown DEF PhoneCodesCounted
  <2>8. \A t \in case.Sessions : credentialSess[t].proof # proof
    BY <1>2, <1>6, <1>8, <2>2a
  <2>9. Credential(case)!SignsInOnce'
    BY <1>7, <2>3, <2>4, <2>8 DEF Credential!SignsInOnce
  <2>10. ASSUME NEW t \in case.Sessions, credentialSess'[t].proof.way = "phone"
         PROVE  credentialSess'[t].proof.n \in 1 .. codes'
                /\ credentialSess'[t].proof.with \in case.Phones
                /\ code'[credentialSess'[t].proof.with].id # credentialSess'[t].proof.n
    <3>1. CASE t = s
      BY <1>1, <1>2, <2>2, <2>2a, <2>3, <2>4, <2>5, <3>1, PhoneNothingShown
    <3>2. CASE t # s
      BY <1>1, <1>6, <2>4, <2>5, <2>10, <3>2, PhoneNothingShown
    <3> QED BY <3>1, <3>2
  <2> QED BY <2>6, <2>7, <2>9, <2>10 DEF PhoneInv, PhoneUsedUp
<1>9. CASE Credential(case)!Open(p) /\ code' = Credential(case)!RecordPhoneCodeAttempt(p)
        /\ UNCHANGED credentialSess
  <2> DEFINE new == PhoneGuessed(code[p], code[p].attempts + 1, code[p].tries + 1)
  <2>1. code' = [code EXCEPT ![p] = new]
    BY <1>9, Zenon DEF Credential!RecordPhoneCodeAttempt, PhoneGuessed
  <2>2. code[p] \in PhoneCode /\ code[p].attempts < case.phoneCodeMaxTries
          /\ code[p] # Credential(case)!NoCode
    BY <1>2, <1>4, <1>9 DEF Credential!Open
  <2>3. code[p].attempts + 1 \in Nat /\ code[p].tries + 1 \in Nat
    BY <2>2 DEF PhoneCode
  <2>4. new \in PhoneCode /\ new.id = code[p].id /\ new.attempts = code[p].attempts + 1
          /\ new.tries = code[p].tries + 1
    BY <2>2, <2>3, PhoneCodeGuessed
  <2> HIDE DEF new, p, proof
  <2>5. code' \in [case.Phones -> PhoneCode]
          /\ \A q \in case.Phones : code'[q] = IF q = p THEN new ELSE code[q]
    BY <1>2, <1>4, <2>1, <2>4
  <2>6. PhoneTyped(case)'
    BY <1>1, <1>3, <1>4, <1>9, <2>5 DEF PhoneInv, PhoneTyped
  <2>7. PhoneCodesCounted(case)'
    <3> SUFFICES ASSUME NEW q \in case.Phones
                 PROVE  /\ code'[q].id <= codes' /\ code'[q].tries = code'[q].attempts
                        /\ code'[q].attempts <= case.phoneCodeMaxTries
                           /\ (code'[q].id = 0 => code'[q] = Credential(case)!NoCode)
      BY DEF PhoneCodesCounted
    <3>1. CASE q = p
      BY <1>1, <1>4, <1>5, <2>2, <2>4, <2>5, <3>1 DEF PhoneCode
    <3>2. CASE q # p
      BY <1>1, <1>5, <2>5, <3>2
    <3> QED BY <3>1, <3>2
  <2>8. \A q \in case.Phones : code'[q].id = code[q].id
    BY <2>4, <2>5
  <2>9. Credential(case)!SignsInOnce'
    BY <1>7, <1>9 DEF Credential!SignsInOnce
  <2>10. \A t \in case.Sessions : PhoneUsedUp(case, credentialSess[t].proof)'
    BY <1>1, <1>6, <1>9, <2>8 DEF PhoneUsedUp
  <2> QED BY <2>6, <2>7, <2>9, <2>10 DEF PhoneInv
<1>10. CASE UNCHANGED <<code, credentialSess>>
  BY <1>1, <1>3, <1>4, <1>10, PhoneProofsStay
<1> QED BY <1>8, <1>9, <1>10, Zenon DEF Credential!FinishPhoneSignIn

\* A code may go with a number.
LEMMA PhoneCodeGoes ==
  ASSUME NEW case, PhoneInv(case), NEW p,
         code' = code \/ code' = Credential(case)!DeletePhoneCode(p)
  PROVE  code' \in [case.Phones -> PhoneCode] /\ \A q \in case.Phones : code'[q] = code[q]
         \/ code'[q] = Credential(case)!NoCode
BY PhoneNothingShown DEF PhoneInv, PhoneTyped, Credential!DeletePhoneCode

\* Sessions may end.
LEMMA PhoneSessionsEnd ==
  ASSUME NEW case, PhoneInv(case), NEW d, credentialSess' = Credential(case)!RevokeAllSessions(d)
  PROVE  credentialSess' \in [case.Sessions -> PhoneSignedIn(case)]
         /\ \A s \in case.Sessions : credentialSess'[s].proof = credentialSess[s].proof
<1>1. \A s \in case.Sessions : credentialSess[s] \in PhoneSignedIn(case)
  BY DEF PhoneInv, PhoneTyped
<1>2. \A s \in case.Sessions : [credentialSess[s] EXCEPT !.live = FALSE] \in PhoneSignedIn(case)
        /\ [credentialSess[s] EXCEPT !.live = FALSE].proof = credentialSess[s].proof
  BY <1>1 DEF PhoneSignedIn
<1> QED BY <1>1, <1>2 DEF Credential!RevokeAllSessions

LEMMA PhoneProfileStep ==
  ASSUME NEW case, Credential(case)!CredentialsAssumption, PhoneInv(case), NEW s \in case.Sessions,
         NEW p, Credential(case)!UpdateProfile(s, p)
  PROVE  PhoneInv(case)'
<1>1. UNCHANGED <<credentialClock, codes, credentialSess, credentialReq>>
      /\ (code' = code
         \/ code' = Credential(case)!DeletePhoneCode(credentialDonor[credentialSess[s].owner].phone))
  BY DEF Credential!UpdateProfile
<1>2. code' \in [case.Phones -> PhoneCode] /\ \A q \in case.Phones : code'[q] = code[q]
        \/ code'[q] = Credential(case)!NoCode
  BY <1>1, PhoneCodeGoes
<1> QED BY <1>1, <1>2, PhoneProofsStay DEF PhoneInv, PhoneTyped

PhoneVerified(x, t) == [x EXCEPT !.verified = t]

LEMMA PhoneSessionVerified ==
  ASSUME NEW case, NEW x \in PhoneSignedIn(case), NEW t \in Int
  PROVE  PhoneVerified(x, t) \in PhoneSignedIn(case) /\ PhoneVerified(x, t).proof = x.proof
BY DEF PhoneSignedIn, PhoneVerified

LEMMA PhoneLinkSignInStep ==
  ASSUME NEW case, Credential(case)!CredentialsAssumption, PhoneInv(case), NEW d \in case.Donors,
         NEW s \in case.Sessions, Credential(case)!LinkSignIn(d, s)
  PROVE  PhoneInv(case)'
<1> DEFINE none == Credential(case)!NoProof
           row == [owner |-> d, live |-> TRUE, verified |-> 0, proof |-> none,
                   era |-> IF none.way = "passkey" THEN credentialKey[none.with].era ELSE 0]
           issued == Credential(case)!issueSession(s, d, Credential(case)!NoProof)
<1>1. UNCHANGED <<credentialClock, codes, code, credentialReq>>
        /\ credentialSess' = [issued EXCEPT ![s] = PhoneVerified(issued[s], credentialClock + 1)]
  BY Zenon DEF Credential!LinkSignIn, PhoneVerified
<1>2. credentialClock + 1 \in Int /\ credentialSess \in [case.Sessions -> PhoneSignedIn(case)]
  BY DEF PhoneInv, PhoneTyped
<1>3. issued = [credentialSess EXCEPT ![s] = row]
  BY Zenon DEF Credential!issueSession
<1>4. row \in PhoneSignedIn(case) /\ row.proof = none
  <2>1. none \in PhoneShown(case) /\ none.way = "none"
    BY PhoneNothingShown
  <2> HIDE DEF none
  <2> QED BY <2>1 DEF PhoneSignedIn
<1> HIDE DEF row, issued
<1>5. issued \in [case.Sessions -> PhoneSignedIn(case)]
        /\ \A t \in case.Sessions : issued[t].proof = credentialSess[t].proof
        \/ issued[t].proof = Credential(case)!NoProof
  BY <1>2, <1>3, <1>4
<1>6. PhoneVerified(issued[s], credentialClock + 1) \in PhoneSignedIn(case)
        /\ PhoneVerified(issued[s], credentialClock + 1).proof = issued[s].proof
  BY <1>2, <1>5, PhoneSessionVerified
<1>7. credentialSess' \in [case.Sessions -> PhoneSignedIn(case)]
        /\ \A t \in case.Sessions : credentialSess'[t].proof = credentialSess[t].proof
        \/ credentialSess'[t].proof = Credential(case)!NoProof
  BY <1>1, <1>5, <1>6
<1> QED BY <1>1, <1>2, <1>7, PhoneProofsStay DEF PhoneInv, PhoneTyped

LEMMA PhoneStep ==
  ASSUME NEW case, Credential(case)!CredentialsAssumption, PhoneInv(case),
         Credential(case)!PhoneCodes \/ Credential(case)!AccountChanges
  PROVE  PhoneInv(case)'
<1>1. codes \in Nat
  BY DEF PhoneInv, PhoneTyped
<1>2. ASSUME NEW r \in case.Requests, NEW p \in case.Phones,
             Credential(case)!DonorByPhone(r, p, 0, "begin") PROVE PhoneInv(case)'
  BY <1>2, PhoneFindStep
<1>3. ASSUME NEW r \in case.Requests, NEW p \in case.Phones, NEW guess \in 0 .. codes,
             Credential(case)!DonorByPhone(r, p, guess, "finish") PROVE PhoneInv(case)'
  <2>1. guess \in Nat
    BY <1>1
  <2> QED BY <1>3, <2>1, PhoneFindStep
<1>4. ASSUME NEW s \in case.Sessions, Credential(case)!SignOut(s) PROVE PhoneInv(case)'
  <2>1. UNCHANGED <<credentialClock, codes, code, credentialReq>>
          /\ credentialSess' = [credentialSess EXCEPT ![s].live = FALSE]
          /\ credentialSess \in [case.Sessions -> PhoneSignedIn(case)]
    BY <1>4 DEF Credential!SignOut, PhoneInv, PhoneTyped
  <2>2. credentialSess' \in [case.Sessions -> PhoneSignedIn(case)]
          /\ \A t \in case.Sessions : credentialSess'[t].proof = credentialSess[t].proof
    BY <2>1 DEF PhoneSignedIn
  <2> QED BY <2>1, <2>2, PhoneProofsStay DEF PhoneInv, PhoneTyped
<1>5. ASSUME NEW d \in case.Donors, NEW e \in case.Emails, Credential(case)!ChangeEmail(d, e)
      PROVE  PhoneInv(case)'
  <2>1. UNCHANGED <<credentialClock, codes, code, credentialReq>>
          /\ credentialSess' = Credential(case)!RevokeAllSessions(d)
    BY <1>5 DEF Credential!ChangeEmail
  <2> QED BY <2>1, PhoneSessionsEnd, PhoneProofsStay DEF PhoneInv, PhoneTyped
<1>6. ASSUME NEW s \in case.Sessions, Credential(case)!DeleteAccount(s) PROVE PhoneInv(case)'
  <2>1. UNCHANGED <<credentialClock, codes, credentialReq>>
          /\ credentialSess' = Credential(case)!RevokeAllSessions(credentialSess[s].owner)
        /\ (code' = code
           \/ code' = Credential(case)!DeletePhoneCode(credentialDonor[credentialSess[s].owner].phone))
    BY <1>6 DEF Credential!DeleteAccount
  <2>2. code' \in [case.Phones -> PhoneCode] /\ \A q \in case.Phones : code'[q] = code[q]
          \/ code'[q] = Credential(case)!NoCode
    BY <2>1, PhoneCodeGoes
  <2> QED BY <2>1, <2>2, PhoneSessionsEnd, PhoneProofsStay DEF PhoneInv, PhoneTyped
<1>7. ASSUME Credential(case)!Tick PROVE PhoneInv(case)'
  <2>1. UNCHANGED <<codes, code, credentialReq, credentialSess>> /\ credentialClock' \in Int
    BY <1>7 DEF Credential!Tick, PhoneInv, PhoneTyped
  <2> QED BY <2>1, PhoneProofsStay DEF PhoneInv, PhoneTyped
<1>8. CASE Credential(case)!PhoneCodes
  BY <1>2, <1>3, <1>8, PhoneBeginStep, PhoneFinishStep, PhoneProfileStep,
     Zenon DEF Credential!PhoneCodes
<1>9. CASE Credential(case)!AccountChanges
  BY <1>4, <1>5, <1>6, <1>7, <1>9, PhoneLinkSignInStep, Zenon DEF Credential!AccountChanges
<1> QED BY <1>8, <1>9

-----------------------------------------------------------------------------
(***************************************************************************)
(* Passkeys, passwords and identities. A ceremony that is being answered   *)
(* is one request's, a passkey's counter is not behind what it signed in,  *)
(* and an identity stays a donor's until the donor's account is erased.    *)
(***************************************************************************)
WayShown(case) ==
  [way : {"none", "passkey", "password", "oidc"},
   with : case.Keys \cup case.Emails \cup case.Subjects \cup {"none"}, n : Nat,
   ceremony : case.Ceremonies \cup {"none"}]
WaySession(case) ==
  [owner : case.Donors \cup {"none"}, live : BOOLEAN, verified : Int, proof : WayShown(case),
   era : Nat]
WayRequest(case) ==
  [pc : {"idle", "taken", "owner", "matched", "linked", "unlinked"},
   of : case.Donors \cup {"none"}, proof : WayShown(case)]
WayDonor(case) ==
  [state : {"absent", "live", "erased"}, email : case.Emails \cup {"none"}, claimed : BOOLEAN,
   phone : case.Phones \cup {"none"}, password : Nat]
WayKey(case) == [owner : case.Donors \cup {"none"}, count : Nat, era : Nat]
WayCeremony(case) ==
  [state : {"none", "open", "taken", "spent", "gone"}, kind : {"none", "SIGN_IN", "REGISTER"},
   session : case.Sessions \cup {"none"}, expires : Int, answers : Int]

WayTyped(case) ==
  /\ credentialClock \in Int
  /\ credentialDonor \in [case.Donors -> WayDonor(case)]
  /\ credentialKey \in [case.Keys -> WayKey(case)]
  /\ link \in [case.Subjects -> case.Donors \cup {"none"}]
  /\ credentialCeremony \in [case.Ceremonies -> WayCeremony(case)]
  /\ credentialSess \in [case.Sessions -> WaySession(case)]
  /\ credentialReq \in [case.Requests -> WayRequest(case)]

WayAnswering == {"taken", "owner"}

\* What a request that waits for the donor has found, and what of it still holds.
WayWaits(case, r) ==
  LET q == credentialReq[r]
      p == q.proof
  IN /\ q.pc \in WayAnswering =>
          /\ p.way = "passkey" /\ p.with \in case.Keys /\ p.ceremony \in case.Ceremonies
          /\ credentialCeremony[p.ceremony].state = "taken"
     /\ q.pc \in {"owner", "matched", "linked", "unlinked"} => q.of \in case.Donors
     /\ q.pc \in {"owner", "linked"} => q.of # "none"
     /\ q.pc = "matched" => p.way = "password"
     /\ q.pc \in {"linked", "unlinked"} => p.way = "oidc" /\ p.with \in case.Subjects
     /\ q.pc = "linked" => link[p.with] = q.of \/ credentialDonor[q.of].state = "erased"

WayApart(case) ==
  \A q, r \in case.Requests :
    q # r /\ credentialReq[q].pc \in WayAnswering /\ credentialReq[r].pc \in WayAnswering =>
      credentialReq[q].proof.ceremony # credentialReq[r].proof.ceremony

\* A session that a passkey signed in spent its ceremony, and while the passkey
\* is registered as it was then its counter has come so far.
WayCounted(case, s) ==
  LET p == credentialSess[s].proof
      k == credentialKey[p.with]
  IN p.way = "passkey" =>
       /\ p.with \in case.Keys /\ p.ceremony \in case.Ceremonies
       /\ credentialCeremony[p.ceremony].state = "spent"
       /\ credentialSess[s].era <= k.era
       /\ credentialSess[s].era = k.era /\ k.owner # "none" => p.n <= k.count

WayInv(case) ==
  /\ WayTyped(case) /\ (\A r \in case.Requests : WayWaits(case, r)) /\ WayApart(case)
  /\ (\A s \in case.Sessions : WayCounted(case, s)) /\ Credential(case)!CountsOnce

LEMMA WayNothing ==
  ASSUME NEW case
  PROVE  /\ Credential(case)!NoProof \in WayShown(case) /\ Credential(case)!NoProof.way = "none"
         /\ Credential(case)!NoSession \in WaySession(case)
         /\ Credential(case)!NoSession.proof = Credential(case)!NoProof
         /\ Credential(case)!Idle \in WayRequest(case) /\ Credential(case)!Idle.pc = "idle"
         /\ Credential(case)!NoKey \in WayKey(case)
         /\ Credential(case)!NoCeremony \in WayCeremony(case)
<1>1. Credential(case)!NoProof \in WayShown(case) /\ Credential(case)!NoProof.way = "none"
  BY DEF Credential!NoProof, WayShown
<1>2. /\ Credential(case)!NoSession \in WaySession(case)
      /\ Credential(case)!NoSession.proof = Credential(case)!NoProof
      /\ Credential(case)!Idle \in WayRequest(case) /\ Credential(case)!Idle.pc = "idle"
  BY <1>1 DEF Credential!NoSession, WaySession, Credential!Idle, WayRequest
<1>3. /\ Credential(case)!NoKey \in WayKey(case)
      /\ Credential(case)!NoCeremony \in WayCeremony(case)
  BY DEF Credential!NoKey, WayKey, Credential!NoCeremony, WayCeremony
<1> QED BY <1>1, <1>2, <1>3

LEMMA WayInit ==
  ASSUME NEW case, Credential(case)!CredentialsAssumption, Credential(case)!Init
  PROVE  WayInv(case)
<1> DEFINE first(d) == [state |-> IF d \in case.Present THEN "live" ELSE "absent",
                        email |-> IF d \in case.Present THEN case.FirstEmail[d] ELSE "none",
                        claimed |-> FALSE, phone |-> "none", password |-> 0]
<1>1. ASSUME NEW d \in case.Donors PROVE first(d) \in WayDonor(case)
  BY DEF WayDonor, Credential!CredentialsAssumption
<1>2. credentialDonor = [d \in case.Donors |-> first(d)]
  BY DEF Credential!Init
<1> HIDE DEF first
<1>3. credentialDonor \in [case.Donors -> WayDonor(case)]
  BY <1>1, <1>2
<1>4. WayTyped(case)
  BY <1>3, WayNothing DEF Credential!Init, WayTyped
<1>5. /\ \A r \in case.Requests : credentialReq[r].pc = "idle"
      /\ \A s \in case.Sessions : credentialSess[s].proof.way = "none"
  BY WayNothing DEF Credential!Init
<1>6. (\A r \in case.Requests : WayWaits(case, r)) /\ WayApart(case)
  BY <1>5 DEF WayWaits, WayApart, WayAnswering
<1>7. (\A s \in case.Sessions : WayCounted(case, s)) /\ Credential(case)!CountsOnce
  BY <1>5 DEF WayCounted, Credential!CountsOnce
<1> QED BY <1>4, <1>6, <1>7 DEF WayInv

-----------------------------------------------------------------------------
\* Spent ceremonies stay spent, and a counter goes back only with the passkey.
WaySpentStay(case) ==
  \A t \in case.Ceremonies :
    credentialCeremony[t].state = "spent" => credentialCeremony'[t].state = "spent"
WayTakenStay(case) ==
  \A t \in case.Ceremonies :
    credentialCeremony[t].state = "taken" => credentialCeremony'[t].state = "taken"
WayForward(case) ==
  \A k \in case.Keys :
    /\ credentialKey[k].era <= credentialKey'[k].era
    /\ credentialKey'[k].era = credentialKey[k].era /\ credentialKey'[k].owner # "none" =>
         credentialKey[k].owner # "none" /\ credentialKey[k].count <= credentialKey'[k].count
WayLinked(case) ==
  /\ \A b \in case.Subjects : link[b] # "none" =>
       link'[b] = link[b] \/ credentialDonor'[link[b]].state = "erased"
  /\ \A d \in case.Donors : credentialDonor[d].state = "erased" =>
       credentialDonor'[d].state = "erased"
WayIssued(s) ==
  /\ credentialSess'[s].proof = credentialSess[s].proof
  /\ credentialSess'[s].era = credentialSess[s].era

LEMMA WayCountStays ==
  ASSUME NEW case, WayInv(case), WayTyped(case)', WaySpentStay(case), WayForward(case),
         NEW s \in case.Sessions, WayIssued(s)
  PROVE  WayCounted(case, s)'
<1> DEFINE p == credentialSess[s].proof
<1>1. WayCounted(case, s)
  BY DEF WayInv
<1> SUFFICES ASSUME p.way = "passkey"
             PROVE  /\ p.with \in case.Keys /\ p.ceremony \in case.Ceremonies
                    /\ credentialCeremony'[p.ceremony].state = "spent"
                    /\ credentialSess[s].era <= credentialKey'[p.with].era
                    /\ credentialSess[s].era = credentialKey'[p.with].era
                         /\ credentialKey'[p.with].owner # "none" =>
                           p.n <= credentialKey'[p.with].count
  BY DEF WayCounted, WayIssued
<1>2. /\ p.with \in case.Keys /\ p.ceremony \in case.Ceremonies
      /\ credentialCeremony[p.ceremony].state = "spent"
      /\ credentialSess[s].era <= credentialKey[p.with].era
      /\ credentialSess[s].era = credentialKey[p.with].era
           /\ credentialKey[p.with].owner # "none" => p.n <= credentialKey[p.with].count
  BY <1>1 DEF WayCounted
<1>3. credentialSess[s].era \in Nat /\ p.n \in Nat
  BY DEF WayInv, WayTyped, WaySession, WayShown
<1>4. credentialKey[p.with] \in WayKey(case) /\ credentialKey'[p.with] \in WayKey(case)
  BY <1>2 DEF WayInv, WayTyped
<1> HIDE DEF p
<1>5. /\ credentialKey[p.with].era <= credentialKey'[p.with].era
      /\ credentialKey'[p.with].era = credentialKey[p.with].era
           /\ credentialKey'[p.with].owner # "none" =>
             credentialKey[p.with].owner # "none"
               /\ credentialKey[p.with].count <= credentialKey'[p.with].count
  BY <1>2 DEF WayForward
<1>6. credentialKey[p.with].era \in Nat /\ credentialKey'[p.with].era \in Nat
        /\ credentialKey[p.with].count \in Nat /\ credentialKey'[p.with].count \in Nat
  BY <1>4 DEF WayKey
<1> QED BY <1>2, <1>3, <1>5, <1>6 DEF WaySpentStay

\* Sessions stay, or are issued for something else than a passkey.
LEMMA WaySessionsStay ==
  ASSUME NEW case, WayInv(case), WayTyped(case)', WaySpentStay(case), WayForward(case),
         \A s \in case.Sessions : WayIssued(s) \/ credentialSess'[s].proof.way # "passkey"
  PROVE  (\A s \in case.Sessions : WayCounted(case, s)') /\ Credential(case)!CountsOnce'
<1>1. ASSUME NEW s \in case.Sessions PROVE WayCounted(case, s)'
  <2>1. CASE WayIssued(s)
    BY <2>1, WayCountStays
  <2>2. CASE credentialSess'[s].proof.way # "passkey"
    BY <2>2 DEF WayCounted
  <2> QED BY <2>1, <2>2
<1>2. Credential(case)!CountsOnce
  BY DEF WayInv
<1>3. Credential(case)!CountsOnce'
  BY <1>2 DEF Credential!CountsOnce, WayIssued
<1> QED BY <1>1, <1>3

\* What a request waits with stays.
LEMMA WayWaitStays ==
  ASSUME NEW case, WayInv(case), NEW r \in case.Requests, WayLinked(case),
         credentialReq'[r] = credentialReq[r],
         credentialReq[r].pc \in WayAnswering =>
           credentialCeremony'[credentialReq[r].proof.ceremony].state = "taken"
  PROVE  WayWaits(case, r)'
<1> DEFINE q == credentialReq[r]
<1>1. WayWaits(case, r)
  BY DEF WayInv
<1>2. q.pc = "linked" => link'[q.proof.with] = q.of \/ credentialDonor'[q.of].state = "erased"
  BY <1>1 DEF WayWaits, WayLinked
<1> QED BY <1>1, <1>2 DEF WayWaits

LEMMA WayRequestsStay ==
  ASSUME NEW case, WayInv(case), WayLinked(case),
         \A r \in case.Requests :
           \/ credentialReq'[r].pc = "idle"
           \/ /\ credentialReq'[r] = credentialReq[r]
              /\ credentialReq[r].pc \in WayAnswering =>
                   credentialCeremony'[credentialReq[r].proof.ceremony].state = "taken"
  PROVE  (\A r \in case.Requests : WayWaits(case, r)') /\ WayApart(case)'
<1>1. ASSUME NEW r \in case.Requests PROVE WayWaits(case, r)'
  <2>1. CASE credentialReq'[r].pc = "idle"
    BY <2>1 DEF WayWaits, WayAnswering
  <2>2. CASE credentialReq'[r].pc # "idle"
    BY <2>2, WayWaitStays
  <2> QED BY <2>1, <2>2
<1>2. WayApart(case)'
  BY DEF WayInv, WayApart, WayAnswering
<1> QED BY <1>1, <1>2

\* A step that answers no ceremony.
LEMMA WayQuiet ==
  ASSUME NEW case, WayInv(case), WayTyped(case)', WaySpentStay(case), WayTakenStay(case),
         WayForward(case), WayLinked(case),
         \A r \in case.Requests :
           credentialReq'[r] = credentialReq[r] \/ credentialReq'[r].pc = "idle",
         \A s \in case.Sessions : WayIssued(s) \/ credentialSess'[s].proof.way # "passkey"
  PROVE  WayInv(case)'
<1>1. \A r \in case.Requests : credentialReq[r].pc \in WayAnswering =>
        credentialCeremony'[credentialReq[r].proof.ceremony].state = "taken"
  BY DEF WayInv, WayWaits, WayTakenStay
<1>2. (\A r \in case.Requests : WayWaits(case, r)') /\ WayApart(case)'
  BY <1>1, WayRequestsStay
<1>3. (\A s \in case.Sessions : WayCounted(case, s)') /\ Credential(case)!CountsOnce'
  BY WaySessionsStay
<1> QED BY <1>2, <1>3 DEF WayInv

\* A request that has looked something up, and none else has changed.
LEMMA WayJoins ==
  ASSUME NEW case, WayInv(case), WayTyped(case)', WaySpentStay(case), WayTakenStay(case),
         WayForward(case), WayLinked(case), NEW r \in case.Requests,
         \A q \in case.Requests : q # r => credentialReq'[q] = credentialReq[q],
         WayWaits(case, r)',
         credentialReq'[r].pc \in WayAnswering =>
           \A q \in case.Requests : q # r /\ credentialReq[q].pc \in WayAnswering =>
             credentialReq[q].proof.ceremony # credentialReq'[r].proof.ceremony,
         \A s \in case.Sessions : WayIssued(s)
  PROVE  WayInv(case)'
<1>1. \A q \in case.Requests : credentialReq[q].pc \in WayAnswering =>
        credentialCeremony'[credentialReq[q].proof.ceremony].state = "taken"
  BY DEF WayInv, WayWaits, WayTakenStay
<1>2. ASSUME NEW q \in case.Requests PROVE WayWaits(case, q)'
  BY <1>1, WayWaitStays
<1>3. WayApart(case)'
  BY DEF WayInv, WayApart
<1>4. (\A s \in case.Sessions : WayCounted(case, s)') /\ Credential(case)!CountsOnce'
  BY WaySessionsStay
<1> QED BY <1>2, <1>3, <1>4 DEF WayInv

LEMMA WayStill ==
  ASSUME NEW case, WayInv(case)
  PROVE  /\ UNCHANGED credentialCeremony => WaySpentStay(case) /\ WayTakenStay(case)
         /\ UNCHANGED credentialKey => WayForward(case)
         /\ UNCHANGED <<link, credentialDonor>> => WayLinked(case)
         /\ UNCHANGED credentialSess => \A s \in case.Sessions : WayIssued(s)
<1>1. \A k \in case.Keys : credentialKey[k].era \in Nat /\ credentialKey[k].count \in Nat
  BY DEF WayInv, WayTyped, WayKey
<1>2. UNCHANGED credentialKey => WayForward(case)
  BY <1>1 DEF WayForward
<1>3. UNCHANGED credentialCeremony => WaySpentStay(case) /\ WayTakenStay(case)
  BY DEF WaySpentStay, WayTakenStay
<1>4. UNCHANGED <<link, credentialDonor>> => WayLinked(case)
  BY DEF WayLinked
<1>5. UNCHANGED credentialSess => \A s \in case.Sessions : WayIssued(s)
  BY DEF WayIssued
<1> QED BY <1>2, <1>3, <1>4, <1>5

LEMMA WayProof_ ==
  ASSUME NEW case, WayInv(case), NEW r \in case.Requests
  PROVE  /\ credentialReq[r] \in WayRequest(case) /\ credentialReq[r].proof \in WayShown(case)
         /\ credentialReq[r].of \in case.Donors \cup {"none"} /\ WayWaits(case, r)
BY DEF WayInv, WayTyped, WayRequest

\* The request that looked something up.
LEMMA WayFinds ==
  ASSUME NEW case, WayInv(case), NEW r \in case.Requests,
         NEW pc \in {"taken", "owner", "matched", "linked", "unlinked"},
         NEW of \in case.Donors \cup {"none"}, NEW proof \in WayShown(case),
         Credential(case)!Found(r, pc, of, proof)
  PROVE  /\ credentialReq' \in [case.Requests -> WayRequest(case)]
         /\ credentialReq'[r].pc = pc /\ credentialReq'[r].of = of
         /\ credentialReq'[r].proof = proof
         /\ \A q \in case.Requests : q # r => credentialReq'[q] = credentialReq[q]
<1> DEFINE answer == [pc |-> pc, of |-> of, proof |-> proof]
<1>1. answer \in WayRequest(case) /\ answer.pc = pc /\ answer.of = of /\ answer.proof = proof
  BY DEF WayRequest
<1>2. credentialReq' = [credentialReq EXCEPT ![r] = answer]
  BY Zenon DEF Credential!Found
<1> HIDE DEF answer
<1> QED BY <1>1, <1>2 DEF WayInv, WayTyped

LEMMA WayRests ==
  ASSUME NEW case, WayInv(case), NEW r \in case.Requests, Credential(case)!Answered(r)
  PROVE  /\ credentialReq' \in [case.Requests -> WayRequest(case)]
         /\ credentialReq'[r].pc = "idle"
         /\ \A q \in case.Requests : q # r => credentialReq'[q] = credentialReq[q]
<1>1. credentialReq' = [credentialReq EXCEPT ![r] = Credential(case)!Idle]
  BY Zenon DEF Credential!Answered
<1> QED BY <1>1, WayNothing DEF WayInv, WayTyped

WayIssuedRow(case, d, proof) ==
  [owner |-> d, live |-> TRUE, verified |-> 0, proof |-> proof,
   era |-> IF proof.way = "passkey" THEN credentialKey[proof.with].era ELSE 0]

\* A session is issued.
LEMMA WayIssues ==
  ASSUME NEW case, WayInv(case), NEW s \in case.Sessions, NEW d \in case.Donors,
         NEW proof \in WayShown(case), proof.way = "passkey" => proof.with \in case.Keys
  PROVE  LET x == Credential(case)!issueSession(s, d, proof)
         IN /\ x \in [case.Sessions -> WaySession(case)]
            /\ x[s].owner = d /\ x[s].proof = proof
            /\ x[s].era = IF proof.way = "passkey" THEN credentialKey[proof.with].era ELSE 0
            /\ \A t \in case.Sessions : t # s => x[t] = credentialSess[t]
<1> DEFINE row == WayIssuedRow(case, d, proof)
<1>1. Credential(case)!issueSession(s, d, proof) = [credentialSess EXCEPT ![s] = row]
  BY Zenon DEF Credential!issueSession, WayIssuedRow
<1>2. proof.way = "passkey" => credentialKey[proof.with].era \in Nat
  BY DEF WayInv, WayTyped, WayKey
<1>3. /\ row \in WaySession(case) /\ row.owner = d /\ row.proof = proof
      /\ row.era = IF proof.way = "passkey" THEN credentialKey[proof.with].era ELSE 0
  BY <1>2 DEF WaySession, WayIssuedRow
<1> HIDE DEF row
<1>4. credentialSess \in [case.Sessions -> WaySession(case)]
  BY DEF WayInv, WayTyped
<1> QED BY <1>1, <1>3, <1>4

-----------------------------------------------------------------------------
WayGone(x) == [x EXCEPT !.state = "gone"]
WayOpened(x, kind, s, t) == [x EXCEPT !.state = "open", !.kind = kind, !.session = s, !.expires = t]
WayTook(x) == [x EXCEPT !.state = "taken"]
WayAnswered(x, state, n) == [x EXCEPT !.state = state, !.answers = n]

LEMMA WayGoneIs ==
  ASSUME NEW case, NEW x \in WayCeremony(case)
  PROVE  /\ WayGone(x) \in WayCeremony(case)
         /\ WayTook(x) \in WayCeremony(case) /\ WayTook(x).state = "taken"
BY DEF WayGone, WayTook, WayCeremony

LEMMA WayOpenedIs ==
  ASSUME NEW case, NEW x \in WayCeremony(case), NEW kind \in {"SIGN_IN", "REGISTER"},
         NEW s \in case.Sessions \cup {"none"}, NEW t \in Int
  PROVE  WayOpened(x, kind, s, t) \in WayCeremony(case)
BY DEF WayOpened, WayCeremony

LEMMA WayAnsweredIs ==
  ASSUME NEW case, NEW x \in WayCeremony(case), NEW state \in {"open", "spent"}, NEW n \in Int
  PROVE  WayAnswered(x, state, n) \in WayCeremony(case) /\ WayAnswered(x, state, n).state = state
BY DEF WayAnswered, WayCeremony

LEMMA WayBeginStep ==
  ASSUME NEW case, Credential(case)!CredentialsAssumption, WayInv(case),
         NEW t \in case.Ceremonies, NEW kind \in {"SIGN_IN", "REGISTER"},
         NEW s \in case.Sessions \cup {"none"}, Credential(case)!saveDonorCeremony(t, kind, s)
  PROVE  WayInv(case)'
<1> DEFINE swept == Credential(case)!DeleteExpiredDonorCeremonies
           opened == WayOpened(Credential(case)!NoCeremony, kind, s,
                               credentialClock + case.ceremonyLifetime)
<1>1. credentialCeremony \in [case.Ceremonies -> WayCeremony(case)]
  BY DEF WayInv, WayTyped
<1>2. \A u \in case.Ceremonies : WayGone(credentialCeremony[u]) \in WayCeremony(case)
  BY <1>1, WayGoneIs
<1>3. swept = [u \in case.Ceremonies |->
        IF credentialCeremony[u].state = "open" /\ credentialCeremony[u].expires <= credentialClock
        THEN WayGone(credentialCeremony[u]) ELSE credentialCeremony[u]]
  BY Zenon DEF Credential!DeleteExpiredDonorCeremonies, WayGone
<1>4. /\ swept \in [case.Ceremonies -> WayCeremony(case)]
      /\ \A u \in case.Ceremonies :
           swept[u] = credentialCeremony[u] \/ credentialCeremony[u].state = "open"
  BY <1>1, <1>2, <1>3
<1>5. credentialClock + case.ceremonyLifetime \in Int
  BY DEF WayInv, WayTyped, Credential!CredentialsAssumption
<1>6. opened \in WayCeremony(case)
  BY <1>5, WayNothing, WayOpenedIs
<1>7. /\ credentialCeremony[t].state = "none" /\ credentialCeremony' = [swept EXCEPT ![t] = opened]
      /\ UNCHANGED <<credentialClock, credentialDonor, credentialKey, link, credentialSess,
                     credentialReq>>
  BY Zenon DEF Credential!saveDonorCeremony, WayOpened
<1> HIDE DEF swept, opened
<1>8. credentialCeremony' \in [case.Ceremonies -> WayCeremony(case)]
  BY <1>4, <1>6, <1>7
<1>9. WaySpentStay(case) /\ WayTakenStay(case)
  BY <1>1, <1>4, <1>7 DEF WaySpentStay, WayTakenStay
<1>10. WayTyped(case)'
  BY <1>7, <1>8 DEF WayInv, WayTyped
<1> QED BY <1>7, <1>9, <1>10, WayStill, WayQuiet

LEMMA WayTakeStep ==
  ASSUME NEW case, Credential(case)!CredentialsAssumption, WayInv(case), NEW r \in case.Requests,
         NEW t \in case.Ceremonies, NEW kind, NEW k \in case.Keys, NEW n \in Nat,
         Credential(case)!takeDonorCeremony(r, t, kind, k, n)
  PROVE  WayInv(case)'
<1> DEFINE proof == [way |-> "passkey", with |-> k, n |-> n, ceremony |-> t]
           took == WayTook(credentialCeremony[t])
<1>1. /\ credentialCeremony[t].state = "open"
      /\ credentialCeremony' = [credentialCeremony EXCEPT ![t] = took]
      /\ Credential(case)!Found(r, "taken", "none", proof)
      /\ UNCHANGED <<credentialClock, credentialDonor, credentialKey, link, credentialSess>>
  BY Zenon DEF Credential!takeDonorCeremony, Credential!TakeDonorCeremony, WayTook
<1>2. /\ proof \in WayShown(case) /\ proof.way = "passkey" /\ proof.with = k /\ proof.ceremony = t
  BY DEF WayShown
<1> HIDE DEF proof
<1>3. credentialCeremony \in [case.Ceremonies -> WayCeremony(case)]
  BY DEF WayInv, WayTyped
<1>4. took \in WayCeremony(case) /\ took.state = "taken"
  BY <1>3, WayGoneIs
<1> HIDE DEF took
<1>5. /\ credentialCeremony' \in [case.Ceremonies -> WayCeremony(case)]
      /\ credentialCeremony'[t].state = "taken"
      /\ \A u \in case.Ceremonies : u # t => credentialCeremony'[u] = credentialCeremony[u]
  BY <1>1, <1>3, <1>4
<1>6. /\ credentialReq' \in [case.Requests -> WayRequest(case)]
      /\ credentialReq'[r].pc = "taken" /\ credentialReq'[r].proof = proof
      /\ \A q \in case.Requests : q # r => credentialReq'[q] = credentialReq[q]
  <2>1. "none" \in case.Donors \cup {"none"} /\ proof \in WayShown(case)
    BY <1>2
  <2> QED BY <1>1, <2>1, WayFinds
<1>7. WayTyped(case)'
  BY <1>1, <1>5, <1>6 DEF WayInv, WayTyped
<1>8. WaySpentStay(case) /\ WayTakenStay(case)
  BY <1>1, <1>5 DEF WaySpentStay, WayTakenStay
<1>9. WayWaits(case, r)'
  BY <1>2, <1>5, <1>6 DEF WayWaits, WayAnswering
<1>10. \A q \in case.Requests : q # r /\ credentialReq[q].pc \in WayAnswering =>
         credentialReq[q].proof.ceremony # credentialReq'[r].proof.ceremony
  BY <1>1, <1>2, <1>6 DEF WayInv, WayWaits
<1> QED BY <1>1, <1>6, <1>7, <1>8, <1>9, <1>10, WayStill, WayJoins

\* A ceremony that was taken is answered.
LEMMA WayLeast ==
  ASSUME NEW case, NEW a \in Int
  PROVE  Credential(case)!Min({a, 2}) \in Int
<1>1. \E x \in {a, 2} : \A y \in {a, 2} : x <= y
  OBVIOUS
<1>2. Credential(case)!Min({a, 2}) \in {a, 2}
  BY <1>1 DEF Credential!Min
<1> QED BY <1>2

LEMMA WayAnswers ==
  ASSUME NEW case, WayInv(case), NEW r \in case.Requests, credentialReq[r].pc \in WayAnswering,
         NEW state \in {"open", "spent"}, Credential(case)!Answered(r),
         credentialCeremony' = Credential(case)!Answer(credentialReq[r].proof.ceremony, state)
  PROVE  /\ credentialCeremony' \in [case.Ceremonies -> WayCeremony(case)]
         /\ credentialCeremony'[credentialReq[r].proof.ceremony].state = state
         /\ credentialReq' \in [case.Requests -> WayRequest(case)]
         /\ WaySpentStay(case)
         /\ \A q \in case.Requests :
              \/ credentialReq'[q].pc = "idle"
              \/ /\ credentialReq'[q] = credentialReq[q]
                 /\ credentialReq[q].pc \in WayAnswering =>
                      credentialCeremony'[credentialReq[q].proof.ceremony].state = "taken"
<1> DEFINE t == credentialReq[r].proof.ceremony
           n == Credential(case)!Min({credentialCeremony[t].answers + 1, 2})
           row == WayAnswered(credentialCeremony[t], state, n)
<1>1. t \in case.Ceremonies /\ credentialCeremony[t].state = "taken"
  BY WayProof_ DEF WayWaits
<1>2. credentialCeremony' = [credentialCeremony EXCEPT ![t] = row]
  BY Zenon DEF Credential!Answer, WayAnswered
<1>3. credentialCeremony \in [case.Ceremonies -> WayCeremony(case)]
  BY DEF WayInv, WayTyped
<1>4. credentialCeremony[t] \in WayCeremony(case) /\ credentialCeremony[t].answers + 1 \in Int
  BY <1>1, <1>3 DEF WayCeremony
<1>5. n \in Int
  BY <1>4, WayLeast
<1> HIDE DEF n
<1>6. row \in WayCeremony(case) /\ row.state = state
  BY <1>4, <1>5, WayAnsweredIs
<1> HIDE DEF row, t
<1>7. /\ credentialCeremony' \in [case.Ceremonies -> WayCeremony(case)]
      /\ credentialCeremony'[t].state = state
      /\ \A u \in case.Ceremonies : u # t => credentialCeremony'[u] = credentialCeremony[u]
  BY <1>1, <1>2, <1>3, <1>6
<1>8. WaySpentStay(case)
  BY <1>1, <1>7 DEF WaySpentStay
<1>9. ASSUME NEW q \in case.Requests, q # r, credentialReq[q].pc \in WayAnswering
      PROVE  credentialCeremony'[credentialReq[q].proof.ceremony].state = "taken"
  <2>1. credentialReq[q].proof.ceremony # t
    BY <1>9 DEF WayInv, WayApart, t
  <2>2. /\ credentialReq[q].proof.ceremony \in case.Ceremonies
        /\ credentialCeremony[credentialReq[q].proof.ceremony].state = "taken"
    BY <1>9, WayProof_ DEF WayWaits
  <2> QED BY <1>7, <2>1, <2>2
<1> QED BY <1>7, <1>8, <1>9, WayRests DEF t

\* A refusal changes the ceremony only.
LEMMA WayRefused ==
  ASSUME NEW case, WayInv(case), NEW r \in case.Requests, credentialReq[r].pc \in WayAnswering,
         NEW state \in {"open", "spent"}, Credential(case)!Answered(r),
         credentialCeremony' = Credential(case)!Answer(credentialReq[r].proof.ceremony, state),
         UNCHANGED <<credentialClock, credentialDonor, credentialKey, link, credentialSess>>
  PROVE  WayInv(case)'
<1>1. /\ credentialCeremony' \in [case.Ceremonies -> WayCeremony(case)]
      /\ credentialReq' \in [case.Requests -> WayRequest(case)]
      /\ WaySpentStay(case)
      /\ \A q \in case.Requests :
           \/ credentialReq'[q].pc = "idle"
           \/ /\ credentialReq'[q] = credentialReq[q]
              /\ credentialReq[q].pc \in WayAnswering =>
                   credentialCeremony'[credentialReq[q].proof.ceremony].state = "taken"
  BY WayAnswers
<1>2. WayTyped(case)'
  BY <1>1 DEF WayInv, WayTyped
<1>3. WayForward(case) /\ WayLinked(case) /\ \A s \in case.Sessions : WayIssued(s)
  BY WayStill
<1>4. (\A q \in case.Requests : WayWaits(case, q)') /\ WayApart(case)'
  BY <1>1, <1>3, WayRequestsStay
<1>5. (\A s \in case.Sessions : WayCounted(case, s)') /\ Credential(case)!CountsOnce'
  BY <1>1, <1>2, <1>3, WaySessionsStay
<1> QED BY <1>2, <1>4, <1>5 DEF WayInv

\* The passkey names its donor.
LEMMA WayOwnerStep ==
  ASSUME NEW case, Credential(case)!CredentialsAssumption, WayInv(case), NEW r \in case.Requests,
         Credential(case)!DonorPasskeyOwner(r)
  PROVE  WayInv(case)'
<1> DEFINE p == credentialReq[r].proof
           d == credentialKey[p.with].owner
<1>1. /\ credentialReq[r].pc = "taken"
      /\ UNCHANGED <<credentialClock, credentialDonor, credentialKey, link, credentialSess>>
  BY DEF Credential!DonorPasskeyOwner
<1>2. /\ p \in WayShown(case) /\ p.way = "passkey" /\ p.with \in case.Keys
      /\ p.ceremony \in case.Ceremonies /\ credentialCeremony[p.ceremony].state = "taken"
  BY <1>1, WayProof_ DEF WayWaits, WayAnswering
<1>3. CASE d = "none"
  <2>1. /\ credentialCeremony' = Credential(case)!Answer(p.ceremony, "spent")
        /\ Credential(case)!Answered(r)
    BY <1>3, Zenon DEF Credential!DonorPasskeyOwner, Credential!answerCeremony
  <2>2. credentialReq[r].pc \in WayAnswering
    BY <1>1 DEF WayAnswering
  <2> QED BY <1>1, <2>1, <2>2, WayRefused
<1>4. CASE d # "none"
  <2>1. Credential(case)!Found(r, "owner", d, p) /\ UNCHANGED credentialCeremony
    BY <1>4, Zenon DEF Credential!DonorPasskeyOwner
  <2>2. d \in case.Donors
    BY <1>2, <1>4 DEF WayInv, WayTyped, WayKey
  <2> HIDE DEF d, p
  <2>3. /\ credentialReq' \in [case.Requests -> WayRequest(case)]
        /\ credentialReq'[r].pc = "owner" /\ credentialReq'[r].of = d
        /\ credentialReq'[r].proof = p
        /\ \A q \in case.Requests : q # r => credentialReq'[q] = credentialReq[q]
    BY <1>2, <2>1, <2>2, WayFinds
  <2>4. WayTyped(case)'
    BY <1>1, <2>1, <2>3 DEF WayInv, WayTyped
  <2>5. WayWaits(case, r)'
    BY <1>2, <1>4, <2>1, <2>2, <2>3 DEF WayWaits, WayAnswering, d
  <2>6. \A q \in case.Requests : q # r /\ credentialReq[q].pc \in WayAnswering =>
          credentialReq[q].proof.ceremony # credentialReq'[r].proof.ceremony
    BY <1>1, <2>3 DEF WayInv, WayApart, WayAnswering, p
  <2> QED BY <1>1, <2>1, <2>3, <2>4, <2>5, <2>6, WayStill, WayJoins
<1> QED BY <1>3, <1>4

WayKeyCounted(x, n) == [x EXCEPT !.count = n]

LEMMA WayKeyIs ==
  ASSUME NEW case, NEW x \in WayKey(case), NEW n \in Nat
  PROVE  /\ WayKeyCounted(x, n) \in WayKey(case) /\ WayKeyCounted(x, n).count = n
         /\ WayKeyCounted(x, n).owner = x.owner /\ WayKeyCounted(x, n).era = x.era
         /\ Credential(case)!Gone(x) \in WayKey(case)
         /\ Credential(case)!Gone(x).owner = "none" /\ Credential(case)!Gone(x).era = x.era
BY DEF WayKeyCounted, WayKey, Credential!Gone

\* A passkey signs in: its counter moves on, and its ceremony is spent.
LEMMA WayPasskeyStep ==
  ASSUME NEW case, Credential(case)!CredentialsAssumption, WayInv(case), NEW r \in case.Requests,
         NEW s \in case.Sessions, Credential(case)!FinishSignIn(r, s)
  PROVE  WayInv(case)'
<1> DEFINE p == credentialReq[r].proof
           d == credentialReq[r].of
           k == p.with
<1>1. /\ credentialReq[r].pc = "owner" /\ Credential(case)!Answered(r)
      /\ credentialCeremony' = Credential(case)!Answer(p.ceremony, "spent")
      /\ UNCHANGED <<credentialClock, credentialDonor, link>>
  BY DEF Credential!FinishSignIn, Credential!answerCeremony
<1>2. credentialReq[r].pc \in WayAnswering
  BY <1>1 DEF WayAnswering
<1>3. /\ p \in WayShown(case) /\ p.way = "passkey" /\ k \in case.Keys
      /\ p.ceremony \in case.Ceremonies /\ credentialCeremony[p.ceremony].state = "taken"
      /\ d \in case.Donors /\ d # "none"
  BY <1>1, <1>2, WayProof_ DEF WayWaits
<1>4. CASE UNCHANGED <<credentialKey, credentialSess>>
  BY <1>1, <1>2, <1>4, WayRefused
<1>5. CASE /\ Credential(case)!ValidatePasskeyLogin(d, k, p.n)
           /\ credentialKey' = Credential(case)!RecordDonorPasskeyUse(k, p.n)
           /\ credentialSess' = Credential(case)!issueSession(s, d, p)
  <2> DEFINE t == p.ceremony
             n == p.n
             row == WayKeyCounted(credentialKey[k], n)
  <2>1. /\ credentialKey[k].owner = d
        /\ n > credentialKey[k].count \/ (n = 0 /\ credentialKey[k].count = 0)
    BY <1>5, Zenon DEF Credential!ValidatePasskeyLogin, Credential!Counted
  <2>2. credentialKey' = [credentialKey EXCEPT ![k] = row]
    BY <1>5, Zenon DEF Credential!RecordDonorPasskeyUse, WayKeyCounted
  <2>3. /\ credentialCeremony' \in [case.Ceremonies -> WayCeremony(case)]
        /\ credentialCeremony'[t].state = "spent"
        /\ credentialReq' \in [case.Requests -> WayRequest(case)]
        /\ WaySpentStay(case)
        /\ \A q \in case.Requests :
             \/ credentialReq'[q].pc = "idle"
             \/ /\ credentialReq'[q] = credentialReq[q]
                /\ credentialReq[q].pc \in WayAnswering =>
                     credentialCeremony'[credentialReq[q].proof.ceremony].state = "taken"
    BY <1>1, <1>2, WayAnswers
  <2>4. n \in Nat
    BY <1>3 DEF WayShown
  <2>5. credentialKey \in [case.Keys -> WayKey(case)]
    BY DEF WayInv, WayTyped
  <2>6. credentialKey[k] \in WayKey(case)
    BY <1>3, <2>5
  <2>7. /\ row \in WayKey(case) /\ row.count = n /\ row.owner = d
        /\ row.era = credentialKey[k].era
    BY <2>1, <2>4, <2>6, WayKeyIs
  <2>8. credentialKey[k].era \in Nat /\ credentialKey[k].count \in Nat
    BY <2>6 DEF WayKey
  <2>9. /\ credentialSess' \in [case.Sessions -> WaySession(case)]
        /\ credentialSess'[s].proof = p /\ credentialSess'[s].era = credentialKey[k].era
        /\ \A u \in case.Sessions : u # s => credentialSess'[u] = credentialSess[u]
    BY <1>3, <1>5, WayIssues
  <2> HIDE DEF row
  <2>10. /\ credentialKey' \in [case.Keys -> WayKey(case)] /\ credentialKey'[k] = row
         /\ \A l \in case.Keys : l # k => credentialKey'[l] = credentialKey[l]
    BY <1>3, <2>2, <2>5, <2>7
  <2>11. WayTyped(case)'
    BY <1>1, <2>3, <2>9, <2>10 DEF WayInv, WayTyped
  <2>12. WayForward(case)
    <3> SUFFICES ASSUME NEW l \in case.Keys
                 PROVE  /\ credentialKey[l].era <= credentialKey'[l].era
                        /\ credentialKey'[l].era = credentialKey[l].era
                             /\ credentialKey'[l].owner # "none" =>
                               credentialKey[l].owner # "none"
                                 /\ credentialKey[l].count <= credentialKey'[l].count
      BY DEF WayForward
    <3>1. credentialKey[l].era \in Nat /\ credentialKey[l].count \in Nat
      BY <2>5 DEF WayKey
    <3>2. CASE l = k
      BY <2>1, <2>4, <2>7, <2>8, <2>10, <3>2
    <3>3. CASE l # k
      BY <2>10, <3>1, <3>3
    <3> QED BY <3>2, <3>3
  <2>13. WayLinked(case)
    BY <1>1, WayStill
  <2>14. (\A q \in case.Requests : WayWaits(case, q)') /\ WayApart(case)'
    BY <2>3, <2>13, WayRequestsStay
  <2>15. ASSUME NEW u \in case.Sessions, u # s PROVE WayCounted(case, u)'
    <3>1. WayIssued(u)
      BY <2>9, <2>15 DEF WayIssued
    <3> QED BY <2>3, <2>11, <2>12, <3>1, WayCountStays
  <2>16. WayCounted(case, s)'
    BY <1>3, <2>3, <2>4, <2>7, <2>8, <2>9, <2>10 DEF WayCounted
  <2>17. ASSUME NEW u \in case.Sessions, u # s, credentialSess[u].proof.way = "passkey",
                credentialSess[u].proof.with = k
         PROVE  /\ credentialSess[u].proof.ceremony # t
                /\ credentialSess[u].era = credentialKey[k].era /\ credentialSess[u].proof.n = n =>
                     n = 0
    <3>1. /\ credentialCeremony[credentialSess[u].proof.ceremony].state = "spent"
          /\ credentialSess[u].era = credentialKey[k].era /\ credentialKey[k].owner # "none" =>
               credentialSess[u].proof.n <= credentialKey[k].count
      BY <2>17 DEF WayInv, WayCounted
    <3> QED BY <1>3, <2>1, <2>4, <2>8, <3>1
  <2>18. Credential(case)!CountsOnce'
    <3> SUFFICES ASSUME NEW u \in case.Sessions, NEW v \in case.Sessions, u # v,
                        credentialSess'[u].proof.way = "passkey",
                        credentialSess'[v].proof.way = "passkey",
                        credentialSess'[u].proof.with = credentialSess'[v].proof.with
                 PROVE  /\ credentialSess'[u].proof.ceremony # credentialSess'[v].proof.ceremony
                        /\ \/ credentialSess'[u].era # credentialSess'[v].era
                           \/ credentialSess'[u].proof.n # credentialSess'[v].proof.n
                           \/ credentialSess'[u].proof.n = 0
      BY DEF Credential!CountsOnce
    <3>1. CASE u = s
      BY <2>9, <2>17, <3>1
    <3>2. CASE v = s
      BY <2>9, <2>17, <3>2
    <3>3. CASE u # s /\ v # s
      BY <2>9, <3>3 DEF WayInv, Credential!CountsOnce
    <3> QED BY <3>1, <3>2, <3>3
  <2> QED BY <2>11, <2>14, <2>15, <2>16, <2>18 DEF WayInv
<1> QED BY <1>4, <1>5, Zenon DEF Credential!FinishSignIn

LEMMA WayRegisterStep ==
  ASSUME NEW case, Credential(case)!CredentialsAssumption, WayInv(case), NEW r \in case.Requests,
         NEW s \in case.Sessions, Credential(case)!FinishRegister(r, s)
  PROVE  WayInv(case)'
<1> DEFINE p == credentialReq[r].proof
           k == p.with
           row == [owner |-> credentialSess[s].owner, count |-> 0, era |-> credentialKey[k].era + 1]
<1>1. /\ credentialReq[r].pc \in WayAnswering /\ Credential(case)!Answered(r)
      /\ UNCHANGED <<credentialClock, credentialDonor, link, credentialSess>>
  BY DEF Credential!FinishRegister, WayAnswering
<1>2. k \in case.Keys
  BY <1>1, WayProof_ DEF WayWaits
<1>3. CASE UNCHANGED credentialKey
  <2>1. \/ credentialCeremony' = Credential(case)!Answer(p.ceremony, "open")
        \/ credentialCeremony' = Credential(case)!Answer(p.ceremony, "spent")
    BY DEF Credential!FinishRegister, Credential!answerCeremony
  <2> QED BY <1>1, <1>3, <2>1, WayRefused
<1>4. CASE /\ credentialCeremony' = Credential(case)!Answer(p.ceremony, "spent")
           /\ credentialKey' = [credentialKey EXCEPT ![k] = row]
  <2>1. /\ credentialCeremony' \in [case.Ceremonies -> WayCeremony(case)]
        /\ credentialReq' \in [case.Requests -> WayRequest(case)]
        /\ WaySpentStay(case)
        /\ \A q \in case.Requests :
             \/ credentialReq'[q].pc = "idle"
             \/ /\ credentialReq'[q] = credentialReq[q]
                /\ credentialReq[q].pc \in WayAnswering =>
                     credentialCeremony'[credentialReq[q].proof.ceremony].state = "taken"
    BY <1>1, <1>4, WayAnswers
  <2>2. credentialKey \in [case.Keys -> WayKey(case)]
          /\ credentialSess[s].owner \in case.Donors \cup {"none"}
    BY DEF WayInv, WayTyped, WaySession
  <2>3. \A l \in case.Keys : credentialKey[l].era \in Nat /\ credentialKey[l].count \in Nat
    BY <2>2 DEF WayKey
  <2>4. row \in WayKey(case) /\ row.era = credentialKey[k].era + 1
    BY <1>2, <2>2, <2>3 DEF WayKey
  <2> HIDE DEF row, k, p
  <2>5. /\ credentialKey' \in [case.Keys -> WayKey(case)] /\ credentialKey'[k] = row
        /\ \A l \in case.Keys : l # k => credentialKey'[l] = credentialKey[l]
    BY <1>2, <1>4, <2>2, <2>4
  <2>6. WayForward(case)
    BY <2>3, <2>4, <2>5 DEF WayForward
  <2>7. WayTyped(case)'
    BY <1>1, <2>1, <2>5 DEF WayInv, WayTyped
  <2>8. WayLinked(case) /\ \A u \in case.Sessions : WayIssued(u)
    BY <1>1, WayStill
  <2>9. (\A q \in case.Requests : WayWaits(case, q)') /\ WayApart(case)'
    BY <2>1, <2>8, WayRequestsStay
  <2>10. (\A u \in case.Sessions : WayCounted(case, u)') /\ Credential(case)!CountsOnce'
    BY <2>1, <2>6, <2>7, <2>8, WaySessionsStay
  <2> QED BY <2>7, <2>9, <2>10 DEF WayInv
<1> QED BY <1>3, <1>4, Zenon DEF Credential!FinishRegister, Credential!answerCeremony

\* Passkeys may go.
LEMMA WayKeysGo ==
  ASSUME NEW case, WayInv(case), DOMAIN credentialKey' = case.Keys,
         credentialKey' = [k \in case.Keys |-> credentialKey'[k]],
         \A k \in case.Keys : credentialKey'[k] = credentialKey[k]
           \/ credentialKey'[k] = Credential(case)!Gone(credentialKey[k])
  PROVE  credentialKey' \in [case.Keys -> WayKey(case)] /\ WayForward(case)
<1>1. ASSUME NEW k \in case.Keys
      PROVE  /\ credentialKey[k] \in WayKey(case) /\ credentialKey[k].era \in Nat
             /\ credentialKey[k].count \in Nat
             /\ Credential(case)!Gone(credentialKey[k]) \in WayKey(case)
             /\ Credential(case)!Gone(credentialKey[k]).owner = "none"
             /\ Credential(case)!Gone(credentialKey[k]).era = credentialKey[k].era
  <2>1. credentialKey[k] \in WayKey(case)
    BY DEF WayInv, WayTyped
  <2>2. credentialKey[k].era \in Nat /\ credentialKey[k].count \in Nat
    BY <2>1 DEF WayKey
  <2> QED BY <2>1, <2>2, WayKeyIs
<1>2. credentialKey' \in [case.Keys -> WayKey(case)]
  BY <1>1
<1> QED BY <1>1, <1>2 DEF WayForward

LEMMA WayDeleteStep ==
  ASSUME NEW case, Credential(case)!CredentialsAssumption, WayInv(case), NEW s \in case.Sessions,
         NEW k \in case.Keys, Credential(case)!DeletePasskey(s, k)
  PROVE  WayInv(case)'
<1>1. /\ credentialKey' = [credentialKey EXCEPT ![k] = Credential(case)!Gone(credentialKey[k])]
      /\ UNCHANGED <<credentialClock, credentialDonor, link, credentialCeremony, credentialSess,
                     credentialReq>>
  BY Zenon DEF Credential!DeletePasskey
<1>2. credentialKey \in [case.Keys -> WayKey(case)]
  BY DEF WayInv, WayTyped
<1>3. /\ DOMAIN credentialKey' = case.Keys
      /\ credentialKey' = [l \in case.Keys |-> credentialKey'[l]]
      /\ \A l \in case.Keys : credentialKey'[l] = credentialKey[l]
           \/ credentialKey'[l] = Credential(case)!Gone(credentialKey[l])
  BY <1>1, <1>2
<1>4. credentialKey' \in [case.Keys -> WayKey(case)] /\ WayForward(case)
  BY <1>3, WayKeysGo
<1>5. WayTyped(case)'
  BY <1>1, <1>4 DEF WayInv, WayTyped
<1> QED BY <1>1, <1>4, <1>5, WayStill, WayQuiet

-----------------------------------------------------------------------------
\* A password that matched, and an identity that was found.
LEMMA WayMatchStep ==
  ASSUME NEW case, Credential(case)!CredentialsAssumption, WayInv(case), NEW r \in case.Requests,
         NEW d \in case.Donors, NEW typed \in Nat, Credential(case)!MatchPassword(r, d, typed)
  PROVE  WayInv(case)'
<1> DEFINE proof == [way |-> "password", with |-> credentialDonor[d].email, n |-> typed,
                     ceremony |-> "none"]
<1>1. /\ Credential(case)!Found(r, "matched", d, proof)
      /\ UNCHANGED <<credentialClock, credentialDonor, credentialKey, link, credentialCeremony,
                     credentialSess>>
  BY Zenon DEF Credential!MatchPassword
<1>2. credentialDonor[d].email \in case.Emails \cup {"none"}
  BY DEF WayInv, WayTyped, WayDonor
<1>3. proof \in WayShown(case) /\ proof.way = "password"
  BY <1>2 DEF WayShown
<1> HIDE DEF proof
<1>4. /\ credentialReq' \in [case.Requests -> WayRequest(case)]
      /\ credentialReq'[r].pc = "matched" /\ credentialReq'[r].of = d
      /\ credentialReq'[r].proof = proof
      /\ \A q \in case.Requests : q # r => credentialReq'[q] = credentialReq[q]
  BY <1>1, <1>3, WayFinds
<1>5. WayTyped(case)'
  BY <1>1, <1>4 DEF WayInv, WayTyped
<1>6. WayWaits(case, r)' /\ credentialReq'[r].pc \notin WayAnswering
  BY <1>3, <1>4 DEF WayWaits, WayAnswering
<1> QED BY <1>1, <1>4, <1>5, <1>6, WayStill, WayJoins

WayMade(x, e) == [x EXCEPT !.state = "live", !.email = e]
WayClaimed(x) == [x EXCEPT !.claimed = TRUE]
WaySet(x, n) == [x EXCEPT !.password = n]
WayMoved(x, e) == [x EXCEPT !.email = e]
WayErased(x) == [x EXCEPT !.state = "erased", !.email = "none", !.phone = "none", !.password = 0]

LEMMA WayDonorIs ==
  ASSUME NEW case, NEW x \in WayDonor(case)
  PROVE  /\ WayClaimed(x) \in WayDonor(case) /\ WayClaimed(x).state = x.state
         /\ \A n \in Nat : WaySet(x, n) \in WayDonor(case) /\ WaySet(x, n).state = x.state
         /\ \A e \in case.Emails : /\ WayMoved(x, e) \in WayDonor(case)
                                  /\ WayMoved(x, e).state = x.state
                                  /\ WayMade(x, e) \in WayDonor(case)
         /\ WayErased(x) \in WayDonor(case) /\ WayErased(x).state = "erased"
BY DEF WayDonor, WayClaimed, WaySet, WayMoved, WayMade, WayErased

\* One donor changes, and does not come back.
LEMMA WayOneDonor ==
  ASSUME NEW case, WayInv(case), NEW d, NEW x, d \in case.Donors => x \in WayDonor(case),
         credentialDonor' = [credentialDonor EXCEPT ![d] = x]
  PROVE  /\ credentialDonor' \in [case.Donors -> WayDonor(case)]
         /\ d \in case.Donors => credentialDonor'[d] = x
         /\ \A e \in case.Donors : e # d => credentialDonor'[e] = credentialDonor[e]
BY DEF WayInv, WayTyped

LEMMA WayFindStep ==
  ASSUME NEW case, Credential(case)!CredentialsAssumption, WayInv(case), NEW r \in case.Requests,
         NEW b \in case.Subjects, Credential(case)!OIDCIdentity(r, b)
  PROVE  WayInv(case)'
<1> DEFINE proof == [way |-> "oidc", with |-> b, n |-> 0, ceremony |-> "none"]
<1>1. UNCHANGED <<credentialClock, credentialKey, link, credentialCeremony, credentialSess>>
  BY Zenon DEF Credential!OIDCIdentity
<1>2. proof \in WayShown(case) /\ proof.way = "oidc" /\ proof.with = b
  BY DEF WayShown
<1> HIDE DEF proof
<1>3. credentialDonor \in [case.Donors -> WayDonor(case)]
  BY DEF WayInv, WayTyped
<1>4. ASSUME NEW d \in case.Donors, NEW pc \in {"linked", "unlinked"},
             Credential(case)!Found(r, pc, d, proof), WayLinked(case),
             credentialDonor' \in [case.Donors -> WayDonor(case)],
             pc = "linked" => d # "none" /\ link[b] = d
      PROVE  WayInv(case)'
  <2>1. /\ credentialReq' \in [case.Requests -> WayRequest(case)]
        /\ credentialReq'[r].pc = pc /\ credentialReq'[r].of = d /\ credentialReq'[r].proof = proof
        /\ \A q \in case.Requests : q # r => credentialReq'[q] = credentialReq[q]
    BY <1>2, <1>4, WayFinds
  <2>2. WayTyped(case)'
    BY <1>1, <1>4, <2>1 DEF WayInv, WayTyped
  <2>3. WayWaits(case, r)' /\ credentialReq'[r].pc \notin WayAnswering
    BY <1>1, <1>2, <1>4, <2>1 DEF WayWaits, WayAnswering
  <2> QED BY <1>1, <1>4, <2>1, <2>2, <2>3, WayStill, WayJoins
<1>5. CASE link[b] # "none" /\ Credential(case)!Found(r, "linked", link[b], proof)
             /\ UNCHANGED credentialDonor
  <2>1. link[b] \in case.Donors
    BY <1>5 DEF WayInv, WayTyped
  <2> QED BY <1>1, <1>3, <1>4, <1>5, <2>1, WayStill
<1>6. CASE \E d \in case.Donors :
             Credential(case)!Found(r, "unlinked", d, proof) /\ UNCHANGED credentialDonor
  BY <1>1, <1>3, <1>4, <1>6, WayStill
<1>7. CASE \E d \in case.Donors :
             /\ credentialDonor[d].state = "absent" /\ Credential(case)!Found(r, "unlinked", d, proof)
             /\ credentialDonor' = [credentialDonor EXCEPT
                  ![d] = WayMade(credentialDonor[d], case.SubjectEmail[b])]
  <2>1. PICK d \in case.Donors :
          /\ credentialDonor[d].state = "absent" /\ Credential(case)!Found(r, "unlinked", d, proof)
          /\ credentialDonor' = [credentialDonor EXCEPT
               ![d] = WayMade(credentialDonor[d], case.SubjectEmail[b])]
    BY <1>7
  <2>2. credentialDonor[d] \in WayDonor(case) /\ case.SubjectEmail[b] \in case.Emails
    BY <1>3 DEF Credential!CredentialsAssumption
  <2>3. WayMade(credentialDonor[d], case.SubjectEmail[b]) \in WayDonor(case)
    BY <2>2, WayDonorIs
  <2>4. /\ credentialDonor' \in [case.Donors -> WayDonor(case)]
        /\ \A e \in case.Donors : e # d => credentialDonor'[e] = credentialDonor[e]
    BY <2>1, <2>3, WayOneDonor
  <2>5. WayLinked(case)
    BY <1>1, <2>1, <2>4 DEF WayLinked
  <2> QED BY <1>4, <2>1, <2>4, <2>5
<1> QED BY <1>5, <1>6, <1>7, Zenon DEF Credential!OIDCIdentity, WayMade, proof

-----------------------------------------------------------------------------
\* A password or an identity signs in.
LEMMA WayPasswordStep ==
  ASSUME NEW case, Credential(case)!CredentialsAssumption, WayInv(case), NEW r \in case.Requests,
         NEW s \in case.Sessions, Credential(case)!PasswordSignIn(r, s)
  PROVE  WayInv(case)'
<1> DEFINE p == credentialReq[r].proof
           d == credentialReq[r].of
<1>1. /\ credentialReq[r].pc = "matched" /\ Credential(case)!Answered(r)
      /\ UNCHANGED <<credentialClock, credentialDonor, credentialKey, link, credentialCeremony>>
  BY DEF Credential!PasswordSignIn
<1>2. d \in case.Donors /\ p \in WayShown(case) /\ p.way = "password"
  BY <1>1, WayProof_ DEF WayWaits
<1>3. \/ UNCHANGED credentialSess
      \/ credentialSess' = Credential(case)!issueSession(s, d, p)
  BY Zenon DEF Credential!PasswordSignIn
<1> HIDE DEF p, d
<1>4. /\ credentialSess' \in [case.Sessions -> WaySession(case)]
      /\ \A t \in case.Sessions : WayIssued(t) \/ credentialSess'[t].proof.way # "passkey"
  <2>1. CASE UNCHANGED credentialSess
    BY <2>1 DEF WayInv, WayTyped, WayIssued
  <2>2. CASE credentialSess' = Credential(case)!issueSession(s, d, p)
    <3>1. /\ credentialSess' \in [case.Sessions -> WaySession(case)]
          /\ credentialSess'[s].proof = p
          /\ \A t \in case.Sessions : t # s => credentialSess'[t] = credentialSess[t]
      BY <1>2, <2>2, WayIssues
    <3> QED BY <1>2, <3>1 DEF WayIssued
  <2> QED BY <1>3, <2>1, <2>2
<1>5. WayTyped(case)'
  BY <1>1, <1>4, WayRests DEF WayInv, WayTyped
<1> QED BY <1>1, <1>4, <1>5, WayRests, WayStill, WayQuiet

LEMMA WayProviderStep ==
  ASSUME NEW case, Credential(case)!CredentialsAssumption, WayInv(case), NEW r \in case.Requests,
         NEW s \in case.Sessions, Credential(case)!OIDCSignIn(r, s)
  PROVE  WayInv(case)'
<1> DEFINE p == credentialReq[r].proof
           d == credentialReq[r].of
           b == p.with
<1>1. /\ credentialReq[r].pc \in {"linked", "unlinked"} /\ Credential(case)!Answered(r)
      /\ UNCHANGED <<credentialClock, credentialKey, credentialCeremony>>
  BY DEF Credential!OIDCSignIn
<1>2. d \in case.Donors /\ p \in WayShown(case) /\ p.way = "oidc" /\ b \in case.Subjects
  BY <1>1, WayProof_ DEF WayWaits
<1>3. credentialDonor \in [case.Donors -> WayDonor(case)]
        /\ link \in [case.Subjects -> case.Donors \cup {"none"}]
  BY DEF WayInv, WayTyped
<1>4. CASE UNCHANGED <<credentialDonor, credentialSess, link>>
  <2>1. WayTyped(case)'
    BY <1>1, <1>4, WayRests DEF WayInv, WayTyped
  <2> QED BY <1>1, <1>4, <2>1, WayRests, WayStill, WayQuiet
<1>5. CASE /\ credentialDonor' = [credentialDonor EXCEPT ![d] = WayClaimed(credentialDonor[d])]
           /\ credentialSess' = Credential(case)!issueSession(s, d, p)
           /\ link' = link \/ (link[b] = "none" /\ link' = [link EXCEPT ![b] = d])
  <2>1. /\ WayClaimed(credentialDonor[d]) \in WayDonor(case)
        /\ WayClaimed(credentialDonor[d]).state = credentialDonor[d].state
    BY <1>2, <1>3, WayDonorIs
  <2>2. /\ credentialDonor' \in [case.Donors -> WayDonor(case)]
        /\ credentialDonor'[d] = WayClaimed(credentialDonor[d])
        /\ \A e \in case.Donors : e # d => credentialDonor'[e] = credentialDonor[e]
    BY <1>2, <1>5, <2>1, WayOneDonor
  <2>3. /\ credentialSess' \in [case.Sessions -> WaySession(case)]
        /\ credentialSess'[s].proof = p
        /\ \A t \in case.Sessions : t # s => credentialSess'[t] = credentialSess[t]
    BY <1>2, <1>5, WayIssues
  <2>4. \A t \in case.Sessions : WayIssued(t) \/ credentialSess'[t].proof.way # "passkey"
    BY <1>2, <2>3 DEF WayIssued
  <2> HIDE DEF d, b, p
  <2>5. link' \in [case.Subjects -> case.Donors \cup {"none"}]
          /\ \A c \in case.Subjects : link[c] # "none" => link'[c] = link[c]
    BY <1>2, <1>3, <1>5
  <2>6. WayLinked(case)
    BY <2>1, <2>2, <2>5 DEF WayLinked
  <2>7. WayTyped(case)'
    BY <1>1, <2>2, <2>3, <2>5, WayRests DEF WayInv, WayTyped
  <2> QED BY <1>1, <2>4, <2>6, <2>7, WayRests, WayStill, WayQuiet
<1> QED BY <1>4, <1>5, Zenon DEF Credential!OIDCSignIn, Credential!MarkClaimed, WayClaimed

-----------------------------------------------------------------------------
\* What ends or changes an account meanwhile.
WayEnded(x) == [x EXCEPT !.live = FALSE]
WayVerified(x, t) == [x EXCEPT !.verified = t]

LEMMA WaySessionIs ==
  ASSUME NEW case, NEW x \in WaySession(case)
  PROVE  /\ WayEnded(x) \in WaySession(case) /\ WayEnded(x).proof = x.proof /\ WayEnded(x).era = x.era
         /\ WayEnded(x).owner = x.owner
         /\ \A t \in Int : /\ WayVerified(x, t) \in WaySession(case)
                           /\ WayVerified(x, t).proof = x.proof /\ WayVerified(x, t).owner = x.owner
BY DEF WaySession, WayEnded, WayVerified

LEMMA WaySessionsEnd ==
  ASSUME NEW case, WayInv(case),
         (\E d : credentialSess' = Credential(case)!RevokeAllSessions(d))
           \/ \E s : credentialSess' = [credentialSess EXCEPT ![s] = WayEnded(credentialSess[s])]
  PROVE  /\ credentialSess' \in [case.Sessions -> WaySession(case)]
         /\ \A s \in case.Sessions :
              WayIssued(s) /\ credentialSess'[s].owner = credentialSess[s].owner
<1>1. credentialSess \in [case.Sessions -> WaySession(case)]
  BY DEF WayInv, WayTyped
<1>2. \A s \in case.Sessions : /\ WayEnded(credentialSess[s]) \in WaySession(case)
                               /\ WayEnded(credentialSess[s]).proof = credentialSess[s].proof
                               /\ WayEnded(credentialSess[s]).era = credentialSess[s].era
                               /\ WayEnded(credentialSess[s]).owner = credentialSess[s].owner
  BY <1>1, WaySessionIs
<1>3. CASE \E d : credentialSess' = Credential(case)!RevokeAllSessions(d)
  <2>1. PICK d : credentialSess' = [s \in case.Sessions |->
          IF credentialSess[s].owner = d THEN WayEnded(credentialSess[s]) ELSE credentialSess[s]]
    BY <1>3, Zenon DEF Credential!RevokeAllSessions, WayEnded
  <2> QED BY <1>1, <1>2, <2>1 DEF WayIssued
<1>4. CASE \E s : credentialSess' = [credentialSess EXCEPT ![s] = WayEnded(credentialSess[s])]
  BY <1>1, <1>2, <1>4 DEF WayIssued
<1> QED BY <1>3, <1>4

LEMMA WayDrops ==
  ASSUME NEW case, WayInv(case), NEW d, credentialKey' = Credential(case)!Drop(d)
  PROVE  credentialKey' \in [case.Keys -> WayKey(case)] /\ WayForward(case)
<1>1. credentialKey' = [k \in case.Keys |-> IF credentialKey[k].owner = d
        THEN Credential(case)!Gone(credentialKey[k]) ELSE credentialKey[k]]
  BY Zenon DEF Credential!Drop
<1> QED BY <1>1, WayKeysGo

LEMMA WaySetStep ==
  ASSUME NEW case, Credential(case)!CredentialsAssumption, WayInv(case), NEW s \in case.Sessions,
         NEW typed, Credential(case)!Set(s, typed)
  PROVE  WayInv(case)'
<1> DEFINE d == credentialSess[s].owner
           x == WaySet(credentialDonor[d], credentialDonor[d].password + 1)
<1>1. /\ credentialDonor' = [credentialDonor EXCEPT ![d] = x]
      /\ UNCHANGED <<credentialClock, credentialKey, link, credentialCeremony, credentialSess,
                     credentialReq>>
  BY Zenon DEF Credential!Set, WaySet
<1>2. ASSUME d \in case.Donors PROVE x \in WayDonor(case) /\ x.state = credentialDonor[d].state
  <2>1. credentialDonor[d] \in WayDonor(case)
    BY <1>2 DEF WayInv, WayTyped
  <2>2. credentialDonor[d].password + 1 \in Nat
    BY <2>1 DEF WayDonor
  <2> QED BY <2>1, <2>2, WayDonorIs
<1> HIDE DEF x, d
<1>3. /\ credentialDonor' \in [case.Donors -> WayDonor(case)]
      /\ d \in case.Donors => credentialDonor'[d] = x
      /\ \A e \in case.Donors : e # d => credentialDonor'[e] = credentialDonor[e]
  BY <1>1, <1>2, WayOneDonor
<1>4. WayLinked(case)
  BY <1>1, <1>2, <1>3 DEF WayLinked
<1>5. WayTyped(case)'
  BY <1>1, <1>3 DEF WayInv, WayTyped
<1> QED BY <1>1, <1>4, <1>5, WayStill, WayQuiet

LEMMA WayLinkSignInStep ==
  ASSUME NEW case, Credential(case)!CredentialsAssumption, WayInv(case), NEW d \in case.Donors,
         NEW s \in case.Sessions, Credential(case)!LinkSignIn(d, s)
  PROVE  WayInv(case)' /\ credentialSess'[s].proof.way = "none"
         /\ \A t \in case.Sessions : t # s => credentialSess'[t] = credentialSess[t]
<1> DEFINE issued == Credential(case)!issueSession(s, d, Credential(case)!NoProof)
<1>1. /\ credentialDonor' = [credentialDonor EXCEPT ![d] = WayClaimed(credentialDonor[d])]
      /\ credentialSess' = [issued EXCEPT ![s] = WayVerified(issued[s], credentialClock + 1)]
      /\ UNCHANGED <<credentialClock, credentialKey, link, credentialCeremony, credentialReq>>
  BY Zenon DEF Credential!LinkSignIn, Credential!MarkClaimed, WayClaimed, WayVerified
<1>2. credentialDonor[d] \in WayDonor(case) /\ credentialClock + 1 \in Int
  BY DEF WayInv, WayTyped
<1>3. /\ WayClaimed(credentialDonor[d]) \in WayDonor(case)
      /\ WayClaimed(credentialDonor[d]).state = credentialDonor[d].state
  BY <1>2, WayDonorIs
<1>4. /\ credentialDonor' \in [case.Donors -> WayDonor(case)]
      /\ \A e \in case.Donors : credentialDonor'[e].state = credentialDonor[e].state
  BY <1>1, <1>3, WayOneDonor
<1>5. Credential(case)!NoProof \in WayShown(case) /\ Credential(case)!NoProof.way = "none"
  BY WayNothing
<1>6. /\ issued \in [case.Sessions -> WaySession(case)]
      /\ issued[s].proof = Credential(case)!NoProof
      /\ \A t \in case.Sessions : t # s => issued[t] = credentialSess[t]
  BY <1>5, WayIssues
<1> HIDE DEF issued
<1>7. /\ WayVerified(issued[s], credentialClock + 1) \in WaySession(case)
      /\ WayVerified(issued[s], credentialClock + 1).proof = issued[s].proof
  BY <1>2, <1>6, WaySessionIs
<1>8. /\ credentialSess' \in [case.Sessions -> WaySession(case)]
      /\ credentialSess'[s].proof.way = "none"
      /\ \A t \in case.Sessions : t # s => credentialSess'[t] = credentialSess[t]
  BY <1>1, <1>5, <1>6, <1>7
<1>9. WayLinked(case)
  BY <1>1, <1>4 DEF WayLinked
<1>10. WayTyped(case)'
  BY <1>1, <1>4, <1>8 DEF WayInv, WayTyped
<1>11. \A t \in case.Sessions : WayIssued(t) \/ credentialSess'[t].proof.way # "passkey"
  BY <1>8 DEF WayIssued
<1> QED BY <1>1, <1>8, <1>9, <1>10, <1>11, WayStill, WayQuiet

LEMMA WayEmailStep ==
  ASSUME NEW case, Credential(case)!CredentialsAssumption, WayInv(case), NEW d \in case.Donors,
         NEW e \in case.Emails, Credential(case)!ChangeEmail(d, e)
  PROVE  WayInv(case)'
<1> DEFINE x == WayMoved(credentialDonor[d], e)
<1>1. /\ credentialDonor' = [credentialDonor EXCEPT ![d] = x]
      /\ credentialKey' = Credential(case)!Drop(d)
      /\ credentialSess' = Credential(case)!RevokeAllSessions(d)
      /\ UNCHANGED <<credentialClock, link, credentialCeremony, credentialReq>>
  BY Zenon DEF Credential!ChangeEmail, WayMoved
<1>2. credentialDonor[d] \in WayDonor(case)
  BY DEF WayInv, WayTyped
<1>3. x \in WayDonor(case) /\ x.state = credentialDonor[d].state
  BY <1>2, WayDonorIs
<1> HIDE DEF x
<1>4. /\ credentialDonor' \in [case.Donors -> WayDonor(case)]
      /\ \A f \in case.Donors : credentialDonor'[f].state = credentialDonor[f].state
  BY <1>1, <1>3, WayOneDonor
<1>5. credentialKey' \in [case.Keys -> WayKey(case)] /\ WayForward(case)
  BY <1>1, WayDrops
<1>6. /\ credentialSess' \in [case.Sessions -> WaySession(case)]
      /\ \A s \in case.Sessions : WayIssued(s)
  BY <1>1, WaySessionsEnd
<1>7. WayLinked(case)
  BY <1>1, <1>4 DEF WayLinked
<1>8. WayTyped(case)'
  BY <1>1, <1>4, <1>5, <1>6 DEF WayInv, WayTyped
<1> QED BY <1>1, <1>5, <1>6, <1>7, <1>8, WayStill, WayQuiet

LEMMA WayEraseStep ==
  ASSUME NEW case, Credential(case)!CredentialsAssumption, WayInv(case), NEW s \in case.Sessions,
         Credential(case)!DeleteAccount(s)
  PROVE  WayInv(case)'
<1> DEFINE d == credentialSess[s].owner
           x == WayErased(credentialDonor[d])
<1>1. /\ credentialDonor' = [credentialDonor EXCEPT ![d] = x]
      /\ credentialKey' = Credential(case)!Drop(d)
      /\ link' = [b \in case.Subjects |-> IF link[b] = d THEN "none" ELSE link[b]]
      /\ credentialSess' = Credential(case)!RevokeAllSessions(d)
      /\ UNCHANGED <<credentialClock, credentialCeremony, credentialReq>>
  BY Zenon DEF Credential!DeleteAccount, Credential!DeleteDonorOIDCIdentities, WayErased
<1>2. ASSUME d \in case.Donors PROVE x \in WayDonor(case) /\ x.state = "erased"
  <2>1. credentialDonor[d] \in WayDonor(case)
    BY <1>2 DEF WayInv, WayTyped
  <2> QED BY <2>1, WayDonorIs
<1> HIDE DEF x, d
<1>3. /\ credentialDonor' \in [case.Donors -> WayDonor(case)]
      /\ d \in case.Donors => credentialDonor'[d].state = "erased"
      /\ \A e \in case.Donors : e # d => credentialDonor'[e] = credentialDonor[e]
  BY <1>1, <1>2, WayOneDonor
<1>4. credentialKey' \in [case.Keys -> WayKey(case)] /\ WayForward(case)
  BY <1>1, WayDrops
<1>5. /\ credentialSess' \in [case.Sessions -> WaySession(case)]
      /\ \A t \in case.Sessions : WayIssued(t)
  BY <1>1, WaySessionsEnd
<1>6. link \in [case.Subjects -> case.Donors \cup {"none"}]
  BY DEF WayInv, WayTyped
<1>7. link' \in [case.Subjects -> case.Donors \cup {"none"}] /\ WayLinked(case)
  BY <1>1, <1>3, <1>6 DEF WayLinked
<1>8. WayTyped(case)'
  BY <1>1, <1>3, <1>4, <1>5, <1>7 DEF WayInv, WayTyped
<1> QED BY <1>1, <1>4, <1>5, <1>7, <1>8, WayStill, WayQuiet

LEMMA WayStep ==
  ASSUME NEW case, Credential(case)!CredentialsAssumption, WayInv(case),
         \/ Credential(case)!Passkeys \/ Credential(case)!Passwords \/ Credential(case)!Providers
         \/ Credential(case)!AccountChanges
  PROVE  WayInv(case)'
<1>1. ASSUME NEW t \in case.Ceremonies, Credential(case)!BeginSignIn(t) PROVE WayInv(case)'
  BY <1>1, WayBeginStep DEF Credential!BeginSignIn
<1>2. ASSUME NEW t \in case.Ceremonies, NEW s \in case.Sessions, Credential(case)!BeginRegister(t, s)
      PROVE  WayInv(case)'
  BY <1>2, WayBeginStep DEF Credential!BeginRegister
<1>3. ASSUME NEW r \in case.Requests, NEW t \in case.Ceremonies, NEW k \in case.Keys,
             \/ Credential(case)!takeDonorCeremony(r, t, "REGISTER", k, 0)
             \/ \E n \in 0 .. case.MaxCount : Credential(case)!takeDonorCeremony(r, t, "SIGN_IN", k, n)
      PROVE  WayInv(case)'
  BY <1>3, WayTakeStep
<1>4. CASE Credential(case)!Passkeys
  BY <1>1, <1>2, <1>3, <1>4, WayOwnerStep, WayPasskeyStep, WayRegisterStep, WayDeleteStep,
     Zenon DEF Credential!Passkeys
<1>5. ASSUME NEW r \in case.Requests, NEW d \in case.Donors, NEW typed \in 0 .. case.MaxPasswords,
             Credential(case)!MatchPassword(r, d, typed)
      PROVE  WayInv(case)'
  <2>1. typed \in Nat
    OBVIOUS
  <2> QED BY <1>5, <2>1, WayMatchStep
<1>6. CASE Credential(case)!Passwords
  BY <1>5, <1>6, WayPasswordStep, WaySetStep, Zenon DEF Credential!Passwords
<1>7. CASE Credential(case)!Providers
  BY <1>7, WayFindStep, WayProviderStep, Zenon DEF Credential!Providers
<1>8. ASSUME NEW s \in case.Sessions, Credential(case)!SignOut(s) PROVE WayInv(case)'
  <2>1. /\ credentialSess' = [credentialSess EXCEPT ![s] = WayEnded(credentialSess[s])]
        /\ UNCHANGED <<credentialClock, credentialDonor, credentialKey, link, credentialCeremony,
                       credentialReq>>
    BY <1>8, Zenon DEF Credential!SignOut, WayEnded
  <2>2. /\ credentialSess' \in [case.Sessions -> WaySession(case)]
        /\ \A t \in case.Sessions : WayIssued(t)
    BY <2>1, WaySessionsEnd
  <2>3. WayTyped(case)'
    BY <2>1, <2>2 DEF WayInv, WayTyped
  <2> QED BY <2>1, <2>2, <2>3, WayStill, WayQuiet
<1>9. CASE Credential(case)!Tick
  <2>1. /\ credentialClock' = credentialClock + 1
        /\ UNCHANGED <<credentialDonor, credentialKey, link, credentialCeremony, credentialSess,
                       credentialReq>>
    BY <1>9, Zenon DEF Credential!Tick
  <2>2. WayTyped(case)'
    BY <2>1 DEF WayInv, WayTyped
  <2> QED BY <2>1, <2>2, WayStill, WayQuiet
<1>10. CASE Credential(case)!AccountChanges
  BY <1>8, <1>9, <1>10, WayLinkSignInStep, WayEmailStep, WayEraseStep,
     Zenon DEF Credential!AccountChanges
<1> QED BY <1>4, <1>6, <1>7, <1>10

-----------------------------------------------------------------------------
\* What a session is issued for is held then.
WayHeld(case, s) ==
  LET p == credentialSess'[s].proof
      d == credentialSess'[s].owner
  IN \/ p.way = "none"
     \/ p.way = "passkey" /\ credentialKey[p.with].owner = d
     \/ p.way = "password" /\ credentialDonor[d].password = p.n /\ credentialDonor[d].email = p.with
     \/ /\ p.way = "oidc"
        /\ \/ link[p.with] = d
           \/ link[p.with] = "none" /\ credentialDonor[d].email = case.SubjectEmail[p.with]

LEMMA WayAllHeld ==
  ASSUME NEW case,
         \A s \in case.Sessions : credentialSess'[s].owner = credentialSess[s].owner \/ WayHeld(case, s)
  PROVE  Credential(case)!Presented
<1> SUFFICES ASSUME NEW s \in case.Sessions, credentialSess[s].owner = "none",
                    credentialSess'[s].owner # "none"
             PROVE  LET p == credentialSess'[s].proof
                        d == credentialSess'[s].owner
                    IN \/ p.way = "none"
                       \/ p.way = "passkey" /\ credentialKey[p.with].owner = d
                       \/ p.way = "phone" /\ credentialDonor[d].phone = p.with
                       \/ /\ p.way = "password" /\ credentialDonor[d].password = p.n
                          /\ credentialDonor[d].email = p.with
                       \/ /\ p.way = "oidc"
                          /\ \/ link[p.with] = d
                             \/ /\ link[p.with] = "none"
                                /\ credentialDonor[d].email = case.SubjectEmail[p.with]
  BY Zenon DEF Credential!Presented, Credential!Fresh
<1>1. WayHeld(case, s)
  OBVIOUS
<1> QED BY <1>1 DEF WayHeld

LEMMA WayOneHeld ==
  ASSUME NEW case, WayInv(case), NEW s \in case.Sessions, NEW d \in case.Donors,
         NEW p \in WayShown(case), p.way = "passkey" => p.with \in case.Keys,
         credentialSess' = Credential(case)!issueSession(s, d, p),
         \/ p.way = "passkey" /\ credentialKey[p.with].owner = d
         \/ p.way = "password" /\ credentialDonor[d].password = p.n /\ credentialDonor[d].email = p.with
         \/ /\ p.way = "oidc"
            /\ \/ link[p.with] = d
               \/ link[p.with] = "none" /\ credentialDonor[d].email = case.SubjectEmail[p.with]
  PROVE  Credential(case)!Presented
<1>1. /\ credentialSess'[s].owner = d /\ credentialSess'[s].proof = p
      /\ \A t \in case.Sessions : t # s => credentialSess'[t] = credentialSess[t]
  BY WayIssues
<1>2. WayHeld(case, s)
  BY <1>1 DEF WayHeld
<1> QED BY <1>1, <1>2, WayAllHeld

LEMMA WayPresents ==
  ASSUME NEW case, Credential(case)!CredentialsAssumption, WayInv(case),
         \/ Credential(case)!Passkeys \/ Credential(case)!Passwords \/ Credential(case)!Providers
         \/ Credential(case)!AccountChanges
  PROVE  Credential(case)!Presented
<1>1. ASSUME \/ UNCHANGED credentialSess
             \/ \E d : credentialSess' = Credential(case)!RevokeAllSessions(d)
             \/ \E s : credentialSess' = [credentialSess EXCEPT ![s] = WayEnded(credentialSess[s])]
      PROVE  Credential(case)!Presented
  <2>1. \A s \in case.Sessions : credentialSess'[s].owner = credentialSess[s].owner
    BY <1>1, WaySessionsEnd
  <2> QED BY <2>1, WayAllHeld
<1>2. ASSUME NEW r \in case.Requests, NEW s \in case.Sessions, Credential(case)!FinishSignIn(r, s)
      PROVE  Credential(case)!Presented
  <2> DEFINE p == credentialReq[r].proof
             d == credentialReq[r].of
  <2>1. \/ UNCHANGED credentialSess
        \/ /\ credentialKey[p.with].owner = d
           /\ credentialSess' = Credential(case)!issueSession(s, d, p)
    BY <1>2, Zenon DEF Credential!FinishSignIn, Credential!ValidatePasskeyLogin
  <2>2. credentialReq[r].pc = "owner"
    BY <1>2 DEF Credential!FinishSignIn
  <2>3. p \in WayShown(case) /\ p.way = "passkey" /\ p.with \in case.Keys /\ d \in case.Donors
    BY <2>2, WayProof_ DEF WayWaits, WayAnswering
  <2> QED BY <1>1, <2>1, <2>3, WayOneHeld
<1>3. ASSUME NEW r \in case.Requests, NEW s \in case.Sessions, Credential(case)!PasswordSignIn(r, s)
      PROVE  Credential(case)!Presented
  <2> DEFINE p == credentialReq[r].proof
             d == credentialReq[r].of
  <2>1. \/ UNCHANGED credentialSess
        \/ /\ credentialDonor[d].password = p.n /\ credentialDonor[d].email = p.with
           /\ credentialSess' = Credential(case)!issueSession(s, d, p)
    BY <1>3, Zenon DEF Credential!PasswordSignIn, Credential!StillMatches
  <2>2. credentialReq[r].pc = "matched"
    BY <1>3 DEF Credential!PasswordSignIn
  <2>3. p \in WayShown(case) /\ p.way = "password" /\ d \in case.Donors
    BY <2>2, WayProof_ DEF WayWaits
  <2> QED BY <1>1, <2>1, <2>3, WayOneHeld
<1>4. ASSUME NEW r \in case.Requests, NEW s \in case.Sessions, Credential(case)!OIDCSignIn(r, s)
      PROVE  Credential(case)!Presented
  <2> DEFINE p == credentialReq[r].proof
             d == credentialReq[r].of
  <2>1. \/ UNCHANGED credentialSess
        \/ /\ credentialSess' = Credential(case)!issueSession(s, d, p)
           /\ \/ credentialReq[r].pc = "linked" /\ credentialDonor[d].state # "erased"
              \/ /\ link[p.with] = "none"
                 /\ credentialDonor[d].email = case.SubjectEmail[p.with]
    BY <1>4, Zenon DEF Credential!OIDCSignIn, Credential!Disabled, Credential!MayLink
  <2>2. credentialReq[r].pc \in {"linked", "unlinked"}
    BY <1>4 DEF Credential!OIDCSignIn
  <2>3. /\ p \in WayShown(case) /\ p.way = "oidc" /\ d \in case.Donors
        /\ credentialReq[r].pc = "linked" => link[p.with] = d \/ credentialDonor[d].state = "erased"
    BY <2>2, WayProof_ DEF WayWaits
  <2> QED BY <1>1, <2>1, <2>3, WayOneHeld
<1>5. ASSUME NEW d \in case.Donors, NEW s \in case.Sessions, Credential(case)!LinkSignIn(d, s)
      PROVE  Credential(case)!Presented
  <2>1. /\ credentialSess'[s].proof.way = "none"
        /\ \A t \in case.Sessions : t # s => credentialSess'[t] = credentialSess[t]
    BY <1>5, WayLinkSignInStep
  <2>2. WayHeld(case, s)
    BY <2>1 DEF WayHeld
  <2> QED BY <2>1, <2>2, WayAllHeld
<1>6. CASE Credential(case)!Passkeys
  <2>1. \/ UNCHANGED credentialSess
        \/ \E r \in case.Requests, s \in case.Sessions : Credential(case)!FinishSignIn(r, s)
    BY <1>6 DEF Credential!Passkeys, Credential!BeginSignIn, Credential!BeginRegister,
       Credential!saveDonorCeremony, Credential!takeDonorCeremony, Credential!DonorPasskeyOwner,
       Credential!FinishRegister, Credential!DeletePasskey
  <2> QED BY <1>1, <1>2, <2>1
<1>7. CASE Credential(case)!Passwords
  <2>1. \/ UNCHANGED credentialSess
        \/ \E r \in case.Requests, s \in case.Sessions : Credential(case)!PasswordSignIn(r, s)
    BY <1>7 DEF Credential!Passwords, Credential!MatchPassword, Credential!Set
  <2> QED BY <1>1, <1>3, <2>1
<1>8. CASE Credential(case)!Providers
  <2>1. \/ UNCHANGED credentialSess
        \/ \E r \in case.Requests, s \in case.Sessions : Credential(case)!OIDCSignIn(r, s)
    BY <1>8 DEF Credential!Providers, Credential!OIDCIdentity
  <2> QED BY <1>1, <1>4, <2>1
<1>9. CASE Credential(case)!AccountChanges
  <2>1. \/ UNCHANGED credentialSess
        \/ \E d : credentialSess' = Credential(case)!RevokeAllSessions(d)
        \/ \E s : credentialSess' = [credentialSess EXCEPT ![s] = WayEnded(credentialSess[s])]
        \/ \E d \in case.Donors, s \in case.Sessions : Credential(case)!LinkSignIn(d, s)
    BY <1>9, Zenon DEF Credential!AccountChanges, Credential!Tick, Credential!DeleteAccount,
       Credential!ChangeEmail, Credential!SignOut, WayEnded
  <2> QED BY <1>1, <1>5, <2>1
<1> QED BY <1>6, <1>7, <1>8, <1>9

-----------------------------------------------------------------------------
(***************************************************************************)
(* The partner portal. A link belongs to one user until it opens a session *)
(* or is cut off, and a user is enabled in one organization.               *)
(***************************************************************************)
LEMMA PortalLeastOf ==
  ASSUME NEW case, NEW a \in Int, NEW b \in Int
  PROVE  Portal(case)!Min({a, b}) \in {a, b} /\ Portal(case)!Min({a, b}) <= a
         /\ Portal(case)!Min({a, b}) <= b
<1>1. \E x \in {a, b} : \A y \in {a, b} : x <= y
  OBVIOUS
<1> QED BY <1>1 DEF Portal!Min

LEMMA PortalTimes ==
  ASSUME NEW case, Portal(case)!PartnerPortalAssumption, NEW t \in Int
  PROVE  Portal(case)!At(t) \in Int /\ Portal(case)!Later(t) \in Int
<1>1. case.Horizon \in Int /\ case.Horizon + 1 \in Int
  BY DEF Portal!PartnerPortalAssumption
<1>2. Portal(case)!Min({t, case.Horizon}) \in {t, case.Horizon}
  BY <1>1, PortalLeastOf, Zenon
<1>3. Portal(case)!Min({t, case.Horizon + 1}) \in {t, case.Horizon + 1}
  BY <1>1, PortalLeastOf, Zenon
<1>4. Portal(case)!At(t) \in {t, case.Horizon + 1} /\ Portal(case)!Later(t) \in {t, case.Horizon}
  BY <1>2, <1>3, Zenon DEF Portal!At, Portal!Later
<1> QED BY <1>1, <1>4

LEMMA PortalLeastNumber ==
  ASSUME NEW case, NEW T \in SUBSET Nat, T # {}
  PROVE  Portal(case)!Min(T) \in T
<1> DEFINE R == OpToRel(<, Nat)
<1>1. \A x, y \in Nat : <<y, x>> \in R <=> y < x
  BY DEF OpToRel
<1>2. IsWellFoundedOn(R, Nat)
  BY NatLessThanWellFounded
<1> HIDE DEF R
<1>3. PICK x \in T : \A y \in T : ~(<<y, x>> \in R)
  BY <1>2, WFMin
<1>4. \A y \in T : ~(y < x)
  BY <1>1, <1>3
<1>5. \A y \in T : x <= y
  BY <1>4
<1> QED BY <1>5 DEF Portal!Min

PortalForm(case) ==
  [status : {"none", "PENDING", "APPROVED", "REJECTED"}, email : case.Emails \cup {"none"},
   receipt : case.Receipts \cup {"none"}]
PortalUser(case) ==
  [state : {"none", "enabled", "disabled"}, role : {"ADMIN", "VIEWER"},
   link : 0 .. case.MaxJobs, exp : Int]
PortalLetter(case) ==
  [org : case.Applications \cup {"none"}, email : case.Emails \cup {"none"},
   kind : {"none", "APPROVED", "INVITED", "SIGN_IN"}, minted : BOOLEAN, exp : Int, at : Int,
   born : Int, attempts : Nat, done : BOOLEAN]
PortalVisit(case) ==
  [org : case.Applications \cup {"none"}, email : case.Emails \cup {"none"},
   via : 0 .. case.MaxJobs, exp : Int, revoked : BOOLEAN]
PortalWish(case) ==
  [op : {"idle", "profile", "remove", "invite", "export", "queue"}, s : 0 .. case.MaxSessions,
   target : case.Emails \cup {"none"}, role : {"ADMIN", "VIEWER"},
   queue : SUBSET case.Applications]
PortalTask(case) ==
  [pc : {"idle", "send", "sent", "failed"}, j : 0 .. case.MaxJobs]
PortalUsers(case) == case.Applications \X case.Emails

PortalFormsOK(case) ==
  /\ app \in [case.Applications -> PortalForm(case)]
  /\ \A a \in case.Applications : app[a].status = "PENDING" => app[a].email \in case.Emails

\* An email is enabled in one organization, and in none when it is taken.
PortalUsersOK(case) ==
  /\ user \in [PortalUsers(case) -> PortalUser(case)]
  /\ \A e \in case.Emails, a, b \in case.Applications : user[<<a, e>>].state = "enabled" =>
       e \notin case.Taken /\ (user[<<b, e>>].state = "enabled" => a = b)
PortalLettersOK(case) ==
  /\ job \in [Portal(case)!Jobs -> PortalLetter(case)]
  /\ \A j \in Portal(case)!Jobs : ~job[j].done =>
       job[j].org \in case.Applications /\ job[j].email \in case.Emails
PortalWishesOK(case) ==
  /\ portalReq \in [case.Requests -> PortalWish(case)]
  /\ \A r \in case.Requests : /\ portalReq[r].op \in {"profile", "remove", "invite", "export"}
                                 => portalReq[r].s \in Portal(case)!PartnerSessions
                              /\ portalReq[r].op \in {"remove", "invite", "queue"}
                                 => portalReq[r].target \in case.Emails
PortalTasksOK(case) ==
  /\ wrk \in [case.Workers -> PortalTask(case)]
  /\ \A w \in case.Workers : wrk[w].pc # "idle" => wrk[w].j \in Portal(case)!Jobs

\* What was mailed and what is being sent was claimed.
PortalSending(case, j) == {w \in case.Workers : wrk[w].pc = "send" /\ wrk[w].j = j}
PortalSendsCounted(case) ==
  /\ mailbox \in [Portal(case)!Jobs -> Nat]
  /\ \A j \in Portal(case)!Jobs :
       /\ mailbox[j] + Cardinality(PortalSending(case, j)) <= job[j].attempts
       /\ job[j].attempts <= case.MaxAttempts

\* A link is a user's, one that was cut off, or one that opened a session.
PortalLinksKnown(case) ==
  /\ portalSess \in [Portal(case)!PartnerSessions -> PortalVisit(case)]
  /\ cut \in [links : SUBSET Portal(case)!Jobs, sessions : SUBSET Portal(case)!PartnerSessions]
  /\ \A x \in PortalUsers(case) : user[x].link # 0 =>
       LET m == job[user[x].link] IN m.minted /\ <<m.org, m.email>> = x
  /\ \A l \in cut.links : job[l].minted /\ \A x \in PortalUsers(case) : user[x].link # l
  /\ \A s \in Portal(case)!PartnerSessions : portalSess[s] # Portal(case)!NoSession =>
       /\ <<portalSess[s].org, portalSess[s].email>> \in PortalUsers(case)
       /\ portalSess[s].via \in Portal(case)!Jobs /\ job[portalSess[s].via].minted
       /\ portalSess[s].via \notin cut.links
       /\ \A x \in PortalUsers(case) : user[x].link # portalSess[s].via
  /\ \A s \in cut.sessions : portalSess[s].revoked /\ portalSess[s] # Portal(case)!NoSession
  /\ Portal(case)!LinkUsedOnce

PortalInv(case) ==
  /\ portalClock \in Int /\ PortalFormsOK(case) /\ PortalUsersOK(case) /\ PortalLettersOK(case)
  /\ PortalWishesOK(case) /\ PortalTasksOK(case) /\ PortalSendsCounted(case)
  /\ PortalLinksKnown(case)

LEMMA PortalNoneYet ==
  ASSUME NEW case, Portal(case)!PartnerPortalAssumption
  PROVE  /\ Portal(case)!NoApplication \in PortalForm(case)
            /\ Portal(case)!NoApplication.status = "none"
         /\ Portal(case)!NoUser \in PortalUser(case) /\ Portal(case)!NoUser.state = "none"
            /\ Portal(case)!NoUser.link = 0
         /\ Portal(case)!NoJob \in PortalLetter(case) /\ Portal(case)!NoJob.done
            /\ ~Portal(case)!NoJob.minted /\ Portal(case)!NoJob.attempts = 0
         /\ Portal(case)!NoSession \in PortalVisit(case) /\ Portal(case)!NoSession.org = "none"
            /\ Portal(case)!NoSession.via = 0 /\ Portal(case)!NoSession.revoked
         /\ Portal(case)!NoRequest \in PortalWish(case) /\ Portal(case)!NoRequest.op = "idle"
         /\ Portal(case)!NoWork \in PortalTask(case) /\ Portal(case)!NoWork.pc = "idle"
<1>1. 0 \in 0 .. case.MaxJobs /\ 0 \in 0 .. case.MaxSessions
  BY DEF Portal!PartnerPortalAssumption
<1>2. Portal(case)!NoApplication \in PortalForm(case) /\ Portal(case)!NoApplication.status = "none"
  BY DEF Portal!NoApplication, PortalForm
<1>3. Portal(case)!NoUser \in PortalUser(case) /\ Portal(case)!NoUser.state = "none"
        /\ Portal(case)!NoUser.link = 0
  BY <1>1 DEF Portal!NoUser, PortalUser
<1>4. Portal(case)!NoJob \in PortalLetter(case) /\ Portal(case)!NoJob.done
        /\ ~Portal(case)!NoJob.minted /\ Portal(case)!NoJob.attempts = 0
  BY DEF Portal!NoJob, PortalLetter
<1>5. Portal(case)!NoSession \in PortalVisit(case) /\ Portal(case)!NoSession.org = "none"
        /\ Portal(case)!NoSession.via = 0 /\ Portal(case)!NoSession.revoked
  BY <1>1 DEF Portal!NoSession, PortalVisit
<1>6. Portal(case)!NoRequest \in PortalWish(case) /\ Portal(case)!NoRequest.op = "idle"
  BY <1>1 DEF Portal!NoRequest, PortalWish
<1>7. Portal(case)!NoWork \in PortalTask(case) /\ Portal(case)!NoWork.pc = "idle"
  BY <1>1 DEF Portal!NoWork, PortalTask
<1> QED BY <1>2, <1>3, <1>4, <1>5, <1>6, <1>7

LEMMA PortalInit ==
  ASSUME NEW case, Portal(case)!PartnerPortalAssumption, Portal(case)!Init
  PROVE  PortalInv(case)
<1>1. PortalFormsOK(case) /\ portalClock \in Int
  BY PortalNoneYet DEF Portal!Init, PortalFormsOK
<1>2. PortalUsersOK(case)
  BY PortalNoneYet DEF Portal!Init, PortalUsersOK, PortalUsers
<1>3. PortalLettersOK(case)
  BY PortalNoneYet DEF Portal!Init, PortalLettersOK
<1>4. PortalWishesOK(case)
  BY PortalNoneYet DEF Portal!Init, PortalWishesOK
<1>5. PortalTasksOK(case)
  BY PortalNoneYet DEF Portal!Init, PortalTasksOK
<1>6. PortalSendsCounted(case)
  <2>1. \A j \in Portal(case)!Jobs : PortalSending(case, j) = {}
    BY PortalNoneYet DEF Portal!Init, PortalSending
  <2>2. Cardinality({}) = 0
    BY FS_EmptySet
  <2>3. case.MaxAttempts \in Nat
    BY DEF Portal!PartnerPortalAssumption
  <2>4. \A j \in Portal(case)!Jobs : job[j].attempts = 0 /\ mailbox[j] = 0
    BY PortalNoneYet DEF Portal!Init
  <2>5. mailbox \in [Portal(case)!Jobs -> Nat]
    BY DEF Portal!Init
  <2>6. \A j \in Portal(case)!Jobs : Cardinality(PortalSending(case, j)) = 0
    BY <2>1, <2>2, Zenon
  <2> QED BY <2>3, <2>4, <2>5, <2>6 DEF PortalSendsCounted
<1>7. PortalLinksKnown(case)
  <2>1. portalSess \in [Portal(case)!PartnerSessions -> PortalVisit(case)]
          /\ cut \in [links : SUBSET Portal(case)!Jobs,
          sessions : SUBSET Portal(case)!PartnerSessions]
        /\ cut.links = {} /\ cut.sessions = {}
    BY PortalNoneYet DEF Portal!Init
  <2>2. \A s \in Portal(case)!PartnerSessions : portalSess[s] = Portal(case)!NoSession
    BY DEF Portal!Init
  <2>3. \A x \in PortalUsers(case) : user[x].link = 0
    BY PortalNoneYet DEF Portal!Init, PortalUsers
  <2>4. Portal(case)!LinkUsedOnce
    BY <2>2 DEF Portal!LinkUsedOnce
  <2>5. \A x \in PortalUsers(case) : user[x].link # 0
          => LET m == job[user[x].link] IN m.minted /\ <<m.org, m.email>> = x
    BY <2>3
  <2>6. /\ \A l \in cut.links : job[l].minted /\ \A x \in PortalUsers(case) : user[x].link # l
        /\ \A l \in cut.sessions : portalSess[l].revoked /\ portalSess[l] # Portal(case)!NoSession
    BY <2>1
  <2>7. \A s \in Portal(case)!PartnerSessions : portalSess[s] # Portal(case)!NoSession =>
       /\ <<portalSess[s].org, portalSess[s].email>> \in PortalUsers(case)
       /\ portalSess[s].via \in Portal(case)!Jobs /\ job[portalSess[s].via].minted
          /\ portalSess[s].via \notin cut.links
       /\ \A x \in PortalUsers(case) : user[x].link # portalSess[s].via
    BY <2>2
  <2> QED BY <2>1, <2>4, <2>5, <2>6, <2>7, Zenon DEF PortalLinksKnown
<1> QED BY <1>1, <1>2, <1>3, <1>4, <1>5, <1>6, <1>7 DEF PortalInv
(* What the steps do to one table. *)
PortalEnabled(x, role) == [x EXCEPT !.state = "enabled", !.role = role]
PortalCleared(x, state, j, t) == [x EXCEPT !.state = state, !.link = j, !.exp = t]
PortalLinked(x, j, t) == [x EXCEPT !.link = j, !.exp = t]

LEMMA PortalEnabledIs ==
  ASSUME NEW case, NEW x \in PortalUser(case), NEW role \in {"ADMIN", "VIEWER"}
  PROVE  PortalEnabled(x, role) \in PortalUser(case) /\ PortalEnabled(x, role).link = x.link
BY DEF PortalEnabled, PortalUser

LEMMA PortalClearedIs ==
  ASSUME NEW case, NEW x \in PortalUser(case), NEW state \in {"none", "enabled", "disabled"},
         NEW j \in 0 .. case.MaxJobs, NEW t \in Int
  PROVE  PortalCleared(x, state, j, t) \in PortalUser(case)
         /\ PortalCleared(x, state, j, t).link = j /\ PortalCleared(x, state, j, t).state = state
BY DEF PortalCleared, PortalUser

LEMMA PortalLinkedIs ==
  ASSUME NEW case, NEW x \in PortalUser(case), NEW j \in 0 .. case.MaxJobs, NEW t \in Int
  PROVE  PortalLinked(x, j, t) \in PortalUser(case) /\ PortalLinked(x, j, t).link = j
         /\ PortalLinked(x, j, t).state = x.state
BY DEF PortalLinked, PortalUser

LEMMA PortalAcceptedIs ==
  ASSUME NEW case, Portal(case)!PartnerPortalAssumption, NEW x \in PortalUser(case)
  PROVE  Portal(case)!AcceptPartnerInvite(x) \in PortalUser(case)
         /\ Portal(case)!AcceptPartnerInvite(x).link = 0
         /\ Portal(case)!AcceptPartnerInvite(x).state = x.state
<1>1. 0 \in 0 .. case.MaxJobs /\ 0 \in Int
  BY DEF Portal!PartnerPortalAssumption
<1>2. Portal(case)!AcceptPartnerInvite(x) = PortalLinked(x, 0, 0)
  BY Zenon DEF Portal!AcceptPartnerInvite, PortalLinked
<1> QED BY <1>1, <1>2, PortalLinkedIs

LEMMA PortalInviteKeeps ==
  ASSUME NEW case, PortalInv(case), NEW a \in case.Applications, NEW e \in case.Emails,
         NEW role \in {"ADMIN", "VIEWER"},
         Portal(case)!reserveEmailIdentity(e, a), Portal(case)!InvitePartnerUser(a, e, role)
  PROVE  PortalUsersOK(case)' /\ \A x \in PortalUsers(case) : user'[x].link = user[x].link
<1> DEFINE k == <<a, e>>
           row == PortalEnabled(user[k], role)
<1>1. user' = [user EXCEPT ![k] = row] /\ k \in PortalUsers(case)
        /\ user \in [PortalUsers(case) -> PortalUser(case)]
  <2>1. user' = [user EXCEPT ![k] = row]
    BY Zenon DEF Portal!InvitePartnerUser, PortalEnabled
  <2> QED BY <2>1 DEF PortalInv, PortalUsersOK, PortalUsers
<1>2. row \in PortalUser(case) /\ row.link = user[k].link
  BY <1>1, PortalEnabledIs
<1>3. \A b \in case.Applications, f \in case.Emails : <<b, f>> \in PortalUsers(case)
        /\ (<<b, f>> = k <=> b = a /\ f = e)
  BY DEF PortalUsers
<1> HIDE DEF row, k
<1>4. user' \in [PortalUsers(case) -> PortalUser(case)]
        /\ \A x \in PortalUsers(case) : user'[x] = IF x = k THEN row ELSE user[x]
  BY <1>1, <1>2
<1>5. ASSUME NEW f \in case.Emails, NEW b \in case.Applications, NEW c \in case.Applications,
             user'[<<b, f>>].state = "enabled"
      PROVE  f \notin case.Taken /\ (user'[<<c, f>>].state = "enabled" => b = c)
  <2>1. e \notin case.Taken /\ \A d \in case.Applications \ {a} : user[<<d, e>>].state # "enabled"
    BY Zenon DEF Portal!reserveEmailIdentity
  <2>2. CASE f = e
    BY <1>3, <1>4, <1>5, <2>1, <2>2
  <2>3. CASE f # e
    BY <1>3, <1>4, <1>5, <2>3 DEF PortalInv, PortalUsersOK
  <2> QED BY <2>2, <2>3
<1> QED BY <1>2, <1>4, <1>5 DEF PortalUsersOK

LEMMA PortalQueueKeeps ==
  ASSUME NEW case, Portal(case)!PartnerPortalAssumption, PortalInv(case),
         NEW a \in case.Applications, NEW e \in case.Emails,
         NEW kind \in {"APPROVED", "INVITED", "SIGN_IN"}, Portal(case)!queuePartnerLogin(a, e, kind)
  PROVE  /\ PortalLettersOK(case)'
            /\ \A j \in Portal(case)!Jobs : job'[j].attempts = job[j].attempts
         /\ \A j \in Portal(case)!Jobs : job[j].minted => job'[j] = job[j]
<1> DEFINE k == Portal(case)!Min(Portal(case)!Fresh)
           row == Portal(case)!Queued(a, e, kind)
<1>1. Portal(case)!Fresh \in SUBSET Nat /\ Portal(case)!Fresh # {}
  BY DEF Portal!queuePartnerLogin, Portal!Fresh, Portal!Jobs
<1>2. k \in Portal(case)!Fresh
  BY <1>1, PortalLeastNumber
<1>3. k \in Portal(case)!Jobs /\ job[k] = Portal(case)!NoJob
  BY <1>2 DEF Portal!Fresh
<1>4. job' = [job EXCEPT ![k] = row] /\ job \in [Portal(case)!Jobs -> PortalLetter(case)]
        /\ portalClock \in Int
  BY DEF Portal!queuePartnerLogin, PortalInv, PortalLettersOK
<1>5. row \in PortalLetter(case) /\ row.attempts = 0 /\ row.org = a /\ row.email = e
  BY <1>4, PortalNoneYet DEF Portal!Queued, PortalLetter, Portal!NoJob
<1> HIDE DEF k, row
<1>6. job' \in [Portal(case)!Jobs -> PortalLetter(case)]
        /\ \A j \in Portal(case)!Jobs : job'[j] = IF j = k THEN row ELSE job[j]
  BY <1>3, <1>4, <1>5
<1> QED BY <1>3, <1>5, <1>6, PortalNoneYet DEF PortalInv, PortalLettersOK

\* The links stay with whom they are, and sessions may end.
PortalSameVisit(case, s) ==
  /\ portalSess'[s].via = portalSess[s].via /\ portalSess'[s].org = portalSess[s].org
     /\ portalSess'[s].email = portalSess[s].email
  /\ (portalSess'[s] = Portal(case)!NoSession <=> portalSess[s] = Portal(case)!NoSession)
     /\ (portalSess[s].revoked => portalSess'[s].revoked)
PortalSameLetter(j) == job[j].minted => job'[j].minted /\ job'[j].org = job[j].org
  /\ job'[j].email = job[j].email

LEMMA PortalLinksStay ==
  ASSUME NEW case, Portal(case)!PartnerPortalAssumption,
         PortalInv(case), \A x \in PortalUsers(case) : user'[x].link = user[x].link,
         \A j \in Portal(case)!Jobs : PortalSameLetter(j), cut' = cut, portalSess' = portalSess
  PROVE  PortalLinksKnown(case)'
<1>1. /\ \A x \in PortalUsers(case) : user[x].link # 0 => LET m ==
         job[user[x].link] IN m.minted /\ <<m.org, m.email>> = x
      /\ \A l \in cut.links : l \in Portal(case)!Jobs /\ job[l].minted
         /\ \A x \in PortalUsers(case) : user[x].link # l
      /\ \A s \in Portal(case)!PartnerSessions : portalSess[s] # Portal(case)!NoSession
         => portalSess[s].via \in Portal(case)!Jobs /\ job[portalSess[s].via].minted
  BY DEF PortalInv, PortalLinksKnown
<1>2. \A x \in PortalUsers(case) : user[x].link \in 0 .. case.MaxJobs
  BY DEF PortalInv, PortalUsersOK, PortalUser
<1>3. ASSUME NEW x \in PortalUsers(case), user'[x].link # 0
      PROVE  job'[user'[x].link].minted
             /\ <<job'[user'[x].link].org, job'[user'[x].link].email>> = x
  <2>1. user[x].link \in Portal(case)!Jobs /\ user'[x].link = user[x].link
    BY <1>2, <1>3 DEF Portal!Jobs
  <2> QED BY <1>1, <1>3, <2>1 DEF PortalSameLetter
<1>4. \A l \in cut'.links : job'[l].minted /\ \A x \in PortalUsers(case) : user'[x].link # l
  BY <1>1 DEF PortalSameLetter
<1>5. \A s \in Portal(case)!PartnerSessions : portalSess'[s] # Portal(case)!NoSession
        => job'[portalSess'[s].via].minted
  BY <1>1 DEF PortalSameLetter
<1> QED BY <1>3, <1>4, <1>5 DEF PortalInv, PortalLinksKnown, Portal!LinkUsedOnce

LEMMA PortalCountStays ==
  ASSUME NEW case, PortalInv(case),
         UNCHANGED <<mailbox, wrk>>, \A j \in Portal(case)!Jobs : job'[j].attempts = job[j].attempts
  PROVE  PortalSendsCounted(case)'
<1>1. \A j \in Portal(case)!Jobs : PortalSending(case, j)' = PortalSending(case, j)
  BY DEF PortalSending
<1> QED BY <1>1 DEF PortalInv, PortalSendsCounted

\* Steps that only use forms, mail and the time.
LEMMA PortalFormStep ==
  ASSUME NEW case, Portal(case)!PartnerPortalAssumption, PortalInv(case), portalClock' \in Int,
         PortalFormsOK(case)', PortalWishesOK(case)',
         UNCHANGED <<user, job, portalSess, mailbox, cut, wrk>>
  PROVE  PortalInv(case)'
<1>1. PortalLinksKnown(case)'
  BY PortalLinksStay DEF PortalSameLetter
<1>2. PortalSendsCounted(case)'
  BY PortalCountStays
<1>3. PortalUsersOK(case)' /\ PortalLettersOK(case)' /\ PortalTasksOK(case)'
  BY DEF PortalInv, PortalUsersOK, PortalLettersOK, PortalTasksOK
<1> QED BY <1>1, <1>2, <1>3 DEF PortalInv

\* Steps that invite a user and queue a mail.
LEMMA PortalMailStep ==
  ASSUME NEW case, Portal(case)!PartnerPortalAssumption, PortalInv(case),
         NEW a \in case.Applications, NEW e \in case.Emails, NEW role \in {"ADMIN", "VIEWER"},
         NEW kind \in {"APPROVED", "INVITED", "SIGN_IN"}, PortalFormsOK(case)',
         PortalWishesOK(case)',
         UNCHANGED user
           \/ (Portal(case)!reserveEmailIdentity(e, a)
           /\ Portal(case)!InvitePartnerUser(a, e, role)),
         UNCHANGED job \/ Portal(case)!queuePartnerLogin(a, e, kind),
         UNCHANGED <<portalClock, portalSess, mailbox, cut, wrk>>
  PROVE  PortalInv(case)'
<1>1. PortalUsersOK(case)' /\ \A x \in PortalUsers(case) : user'[x].link = user[x].link
  <2>1. CASE UNCHANGED user
    BY <2>1 DEF PortalInv, PortalUsersOK
  <2> QED BY <2>1, PortalInviteKeeps
<1>2. /\ PortalLettersOK(case)' /\ \A j \in Portal(case)!Jobs : job'[j].attempts = job[j].attempts
      /\ \A j \in Portal(case)!Jobs : job[j].minted => job'[j] = job[j]
  <2>1. CASE UNCHANGED job
    BY <2>1 DEF PortalInv, PortalLettersOK
  <2> QED BY <2>1, PortalQueueKeeps
<1>3. \A j \in Portal(case)!Jobs : PortalSameLetter(j)
  BY <1>2 DEF PortalSameLetter
<1>4. PortalLinksKnown(case)'
  BY <1>1, <1>3, PortalLinksStay
<1>5. PortalSendsCounted(case)'
  BY <1>2, PortalCountStays
<1>6. PortalTasksOK(case)' /\ portalClock' \in Int
  BY DEF PortalInv, PortalTasksOK
<1> QED BY <1>1, <1>2, <1>4, <1>5, <1>6 DEF PortalInv

LEMMA PortalRevokedIs ==
  ASSUME NEW case, NEW x \in PortalVisit(case), x.org \in case.Applications,
         Portal(case)!PartnerPortalAssumption
  PROVE  LET y == [x EXCEPT !.revoked = TRUE] IN
           /\ y \in PortalVisit(case) /\ y.via = x.via /\ y.org = x.org /\ y.email = x.email
              /\ y.revoked /\ y # Portal(case)!NoSession
<1>1. [x EXCEPT !.revoked = TRUE].org = x.org /\ x.org # "none"
        /\ Portal(case)!NoSession.org = "none"
  BY PortalNoneYet DEF PortalVisit, Portal!PartnerPortalAssumption
<1> QED BY <1>1 DEF PortalVisit

\* What is known of links, as facts.
LEMMA PortalKnown ==
  ASSUME NEW case, Portal(case)!PartnerPortalAssumption, PortalInv(case)
  PROVE  /\ \A x \in PortalUsers(case) : user[x].link \in 0 .. case.MaxJobs
         /\ \A x \in PortalUsers(case) : user[x].link # 0 =>
              /\ user[x].link \in Portal(case)!Jobs /\ user[x].link \notin cut.links
              /\ job[user[x].link].minted /\ <<job[user[x].link].org, job[user[x].link].email>> = x
         /\ \A x, y \in PortalUsers(case) : user[x].link # 0 /\ user[x].link = user[y].link => x = y
         /\ cut.links \subseteq Portal(case)!Jobs
            /\ cut.sessions \subseteq Portal(case)!PartnerSessions
         /\ \A l \in cut.links : job[l].minted
         /\ \A s \in Portal(case)!PartnerSessions : portalSess[s] # Portal(case)!NoSession =>
              /\ portalSess[s].org \in case.Applications /\ portalSess[s].email \in case.Emails
                 /\ portalSess[s].via \in Portal(case)!Jobs
              /\ job[portalSess[s].via].minted /\ portalSess[s].via \notin cut.links
              /\ \A x \in PortalUsers(case) : user[x].link # portalSess[s].via
         /\ \A s \in cut.sessions : portalSess[s].revoked /\ portalSess[s] # Portal(case)!NoSession
<1>1. \A x \in PortalUsers(case) : user[x].link \in 0 .. case.MaxJobs
  BY DEF PortalInv, PortalUsersOK, PortalUser
<1>2. \A x \in PortalUsers(case) : user[x].link # 0 => user[x].link \in Portal(case)!Jobs
  BY <1>1 DEF Portal!Jobs
<1>3. \A x \in PortalUsers(case) : user[x].link # 0 =>
         job[user[x].link].minted /\ <<job[user[x].link].org, job[user[x].link].email>> = x
  BY Zenon DEF PortalInv, PortalLinksKnown
<1>4. \A x, y \in PortalUsers(case) : user[x].link # 0 /\ user[x].link = user[y].link => x = y
  BY <1>3
<1>5. \A l \in cut.links : job[l].minted /\ \A x \in PortalUsers(case) : user[x].link # l
  BY DEF PortalInv, PortalLinksKnown
<1>6. \A x \in PortalUsers(case) : user[x].link \notin cut.links
  BY <1>5
<1>7. cut.links \subseteq Portal(case)!Jobs /\ cut.sessions \subseteq Portal(case)!PartnerSessions
  BY DEF PortalInv, PortalLinksKnown
<1>8. \A s \in Portal(case)!PartnerSessions : portalSess[s] # Portal(case)!NoSession =>
        /\ <<portalSess[s].org, portalSess[s].email>> \in PortalUsers(case)
        /\ portalSess[s].via \in Portal(case)!Jobs /\ job[portalSess[s].via].minted
           /\ portalSess[s].via \notin cut.links
        /\ \A x \in PortalUsers(case) : user[x].link # portalSess[s].via
  BY Zenon DEF PortalInv, PortalLinksKnown
<1>9. \A s \in cut.sessions : portalSess[s].revoked /\ portalSess[s] # Portal(case)!NoSession
  BY DEF PortalInv, PortalLinksKnown
<1>10. \A s \in Portal(case)!PartnerSessions : portalSess[s] # Portal(case)!NoSession
         => portalSess[s].org \in case.Applications /\ portalSess[s].email \in case.Emails
  BY <1>8 DEF PortalUsers
<1> QED BY <1>1, <1>2, <1>3, <1>4, <1>5, <1>6, <1>7, <1>8, <1>9, <1>10

\* Sessions end, and links of users with them.
LEMMA PortalLinksEnd ==
  ASSUME NEW case, Portal(case)!PartnerPortalAssumption, PortalInv(case), job' = job,
         portalSess' \in [Portal(case)!PartnerSessions -> PortalVisit(case)],
         \A s \in Portal(case)!PartnerSessions : PortalSameVisit(case, s),
         cut' \in [links : SUBSET Portal(case)!Jobs,
           sessions : SUBSET Portal(case)!PartnerSessions],
         \A s \in cut'.sessions : s \in cut.sessions
           \/ (portalSess'[s].revoked /\ portalSess[s] # Portal(case)!NoSession),
         \A x \in PortalUsers(case) : user'[x].link = user[x].link \/ user'[x].link = 0,
         \A l \in cut'.links : l \in cut.links \/ \E x \in PortalUsers(case) : l = user[x].link
           /\ l # 0 /\ user'[x].link = 0
  PROVE  PortalLinksKnown(case)'
<1>1. \A x \in PortalUsers(case) : user'[x].link # 0 => user'[x].link = user[x].link
  OBVIOUS
<1>2. \A x \in PortalUsers(case) : user'[x].link # 0 => LET m ==
        job'[user'[x].link] IN m.minted /\ <<m.org, m.email>> = x
  BY <1>1, PortalKnown
<1>3. ASSUME NEW l \in cut'.links
      PROVE  l # 0 /\ job[l].minted /\ (\A x \in PortalUsers(case) : user'[x].link # l)
             /\ \A s \in Portal(case)!PartnerSessions : portalSess[s] # Portal(case)!NoSession
                => portalSess[s].via # l
  <2>1. CASE l \in cut.links
    <3>1. l # 0
      BY <2>1, PortalKnown DEF Portal!Jobs
    <3> QED BY <1>1, <2>1, <3>1, PortalKnown
  <2>2. ASSUME NEW x \in PortalUsers(case), l = user[x].link, l # 0, user'[x].link = 0
        PROVE  job[l].minted /\ (\A y \in PortalUsers(case) : user'[y].link # l)
               /\ \A s \in Portal(case)!PartnerSessions : portalSess[s] # Portal(case)!NoSession
                  => portalSess[s].via # l
    BY <1>1, <2>2, PortalKnown
  <2> QED BY <2>1, <2>2
<1>4. ASSUME NEW s \in Portal(case)!PartnerSessions, portalSess'[s] # Portal(case)!NoSession
      PROVE  /\ <<portalSess'[s].org, portalSess'[s].email>> \in PortalUsers(case)
             /\ portalSess'[s].via \in Portal(case)!Jobs /\ job'[portalSess'[s].via].minted
                /\ portalSess'[s].via \notin cut'.links
             /\ \A x \in PortalUsers(case) : user'[x].link # portalSess'[s].via
  <2>1. portalSess[s] # Portal(case)!NoSession /\ portalSess'[s].via = portalSess[s].via
          /\ portalSess'[s].org = portalSess[s].org /\ portalSess'[s].email = portalSess[s].email
    BY <1>4 DEF PortalSameVisit
  <2>2. portalSess[s].via # 0 /\ <<portalSess[s].org, portalSess[s].email>> \in PortalUsers(case)
    BY <2>1, PortalKnown DEF Portal!Jobs, PortalUsers
  <2> QED BY <1>1, <1>3, <2>1, <2>2, PortalKnown
<1>5. \A s \in cut'.sessions : portalSess'[s].revoked /\ portalSess'[s] # Portal(case)!NoSession
  BY PortalKnown DEF PortalSameVisit
<1>6. Portal(case)!LinkUsedOnce'
  BY DEF PortalInv, PortalLinksKnown, Portal!LinkUsedOnce, PortalSameVisit
<1>7. \A l \in cut'.links : job'[l].minted /\ \A x \in PortalUsers(case) : user'[x].link # l
  BY <1>3
<1> QED BY <1>2, <1>4, <1>5, <1>6, <1>7 DEF PortalLinksKnown

\* A user is removed, or a session signs out.
LEMMA PortalSessionsEnd ==
  ASSUME NEW case, Portal(case)!PartnerPortalAssumption, PortalInv(case),
         NEW S \in SUBSET Portal(case)!PartnerSessions,
         \A s \in S : portalSess[s] # Portal(case)!NoSession,
         portalSess' = [s \in Portal(case)!PartnerSessions |-> IF s \in S
           THEN [portalSess[s] EXCEPT !.revoked = TRUE] ELSE portalSess[s]]
  PROVE  portalSess' \in [Portal(case)!PartnerSessions -> PortalVisit(case)]
         /\ (\A s \in Portal(case)!PartnerSessions : PortalSameVisit(case, s))
         /\ \A s \in S : portalSess'[s].revoked
<1> SUFFICES ASSUME NEW s \in Portal(case)!PartnerSessions
             PROVE  portalSess'[s] \in PortalVisit(case) /\ PortalSameVisit(case, s)
                    /\ (s \in S => portalSess'[s].revoked)
  OBVIOUS
<1>1. portalSess[s] \in PortalVisit(case)
  BY DEF PortalInv, PortalLinksKnown
<1>2. CASE s \in S
  <2> DEFINE y == [portalSess[s] EXCEPT !.revoked = TRUE]
  <2>1. portalSess[s].org \in case.Applications /\ portalSess[s] # Portal(case)!NoSession
    BY <1>2, PortalKnown
  <2>2. y \in PortalVisit(case) /\ y.via = portalSess[s].via /\ y.org = portalSess[s].org
          /\ y.email = portalSess[s].email /\ y.revoked /\ y # Portal(case)!NoSession
    BY <1>1, <2>1, PortalRevokedIs
  <2>3. portalSess'[s] = y
    BY <1>2
  <2> HIDE DEF y
  <2> QED BY <2>1, <2>2, <2>3 DEF PortalSameVisit
<1>3. CASE s \notin S
  <2>1. portalSess'[s] = portalSess[s]
    BY <1>3
  <2> QED BY <1>1, <1>3, <2>1 DEF PortalSameVisit
<1> QED BY <1>2, <1>3

LEMMA PortalRemoveStep ==
  ASSUME NEW case, Portal(case)!PartnerPortalAssumption, PortalInv(case),
         NEW a \in case.Applications, NEW e \in case.Emails, Portal(case)!Removed(a, e),
         UNCHANGED <<portalClock, app, job, mailbox, wrk>>, PortalWishesOK(case)'
  PROVE  PortalInv(case)'
<1> DEFINE k == <<a, e>>
           row == PortalCleared(user[k], "disabled", 0, 0)
           S == {s \in Portal(case)!PartnerSessions : Portal(case)!Belongs(s, a, e)}
<1>1. k \in PortalUsers(case) /\ user \in [PortalUsers(case) -> PortalUser(case)]
        /\ user[k] \in PortalUser(case)
  BY DEF PortalInv, PortalUsersOK, PortalUsers
<1>2. user' = [user EXCEPT ![k] = row]
  BY Zenon DEF Portal!Removed, Portal!DisablePartnerUser, PortalCleared
<1>3. row \in PortalUser(case) /\ row.link = 0 /\ row.state = "disabled"
  <2>1. 0 \in 0 .. case.MaxJobs /\ 0 \in Int /\ "disabled" \in {"none", "enabled", "disabled"}
    BY DEF Portal!PartnerPortalAssumption
  <2> QED BY <1>1, <2>1, PortalClearedIs
<1>4. portalSess' = [s \in Portal(case)!PartnerSessions |-> IF s \in S
        THEN [portalSess[s] EXCEPT !.revoked = TRUE] ELSE portalSess[s]]
  BY DEF Portal!Removed, Portal!RevokePartnerUserSessions
<1>5. \A s \in S : portalSess[s] # Portal(case)!NoSession
  BY PortalNoneYet DEF Portal!Belongs, Portal!PartnerPortalAssumption
<1>6. cut' = [links |-> cut.links \cup ({user[k].link} \ {0}), sessions |-> cut.sessions \cup S]
  BY Zenon DEF Portal!Removed
<1>7. S \in SUBSET Portal(case)!PartnerSessions
  OBVIOUS
<1> HIDE DEF k, row, S
<1>8. user' \in [PortalUsers(case) -> PortalUser(case)]
        /\ \A x \in PortalUsers(case) : user'[x] = IF x = k THEN row ELSE user[x]
  BY <1>1, <1>2, <1>3
<1>9. portalSess' \in [Portal(case)!PartnerSessions -> PortalVisit(case)]
        /\ (\A s \in Portal(case)!PartnerSessions : PortalSameVisit(case, s))
        /\ \A s \in S : portalSess'[s].revoked
  BY <1>4, <1>5, <1>7, PortalSessionsEnd
<1>10. cut' \in [links : SUBSET Portal(case)!Jobs, sessions : SUBSET Portal(case)!PartnerSessions]
       /\ cut'.links = cut.links \cup ({user[k].link} \ {0}) /\ cut'.sessions = cut.sessions \cup S
  BY <1>1, <1>6, <1>7, PortalKnown
<1>11. PortalLinksKnown(case)'
  <2>1. \A x \in PortalUsers(case) : user'[x].link = user[x].link \/ user'[x].link = 0
    BY <1>3, <1>8
  <2>2. \A s \in cut'.sessions : s \in cut.sessions
          \/ (portalSess'[s].revoked /\ portalSess[s] # Portal(case)!NoSession)
    BY <1>5, <1>9, <1>10
  <2>3. \A l \in cut'.links : l \in cut.links \/ \E x \in PortalUsers(case) : l = user[x].link
          /\ l # 0 /\ user'[x].link = 0
    BY <1>1, <1>3, <1>8, <1>10
  <2>4. job' = job
    OBVIOUS
  <2> QED BY <1>9, <1>10, <2>1, <2>2, <2>3, <2>4, PortalLinksEnd
<1>12. PortalUsersOK(case)'
  <2>1. \A b \in case.Applications, f \in case.Emails : <<b, f>> \in PortalUsers(case)
    BY DEF PortalUsers
  <2>2. \A x \in PortalUsers(case) : user'[x].state = "enabled" => user[x].state = "enabled"
    BY <1>3, <1>8
  <2> QED BY <1>8, <2>1, <2>2 DEF PortalInv, PortalUsersOK
<1>13. PortalSendsCounted(case)'
  BY PortalCountStays
<1>14. PortalFormsOK(case)' /\ PortalLettersOK(case)' /\ PortalTasksOK(case)'
         /\ portalClock' \in Int
  BY DEF PortalInv, PortalFormsOK, PortalLettersOK, PortalTasksOK
<1> QED BY <1>11, <1>12, <1>13, <1>14 DEF PortalInv

LEMMA PortalSignOutStep ==
  ASSUME NEW case, Portal(case)!PartnerPortalAssumption, PortalInv(case),
         NEW t \in Portal(case)!PartnerSessions, Portal(case)!SignOut(t)
  PROVE  PortalInv(case)'
<1>1. portalSess[t] # Portal(case)!NoSession
        /\ UNCHANGED <<portalClock, app, user, job, mailbox, cut, portalReq, wrk>>
  BY DEF Portal!SignOut
<1>2. portalSess' = [s \in Portal(case)!PartnerSessions |-> IF s \in {t}
        THEN [portalSess[s] EXCEPT !.revoked = TRUE] ELSE portalSess[s]]
  BY DEF Portal!SignOut, Portal!RevokePartnerSession, PortalInv, PortalLinksKnown
<1>3. portalSess' \in [Portal(case)!PartnerSessions -> PortalVisit(case)]
        /\ \A s \in Portal(case)!PartnerSessions : PortalSameVisit(case, s)
  <2>1. {t} \in SUBSET Portal(case)!PartnerSessions
          /\ \A s \in {t} : portalSess[s] # Portal(case)!NoSession
    BY <1>1
  <2> QED BY <1>2, <2>1, PortalSessionsEnd
<1>4. PortalLinksKnown(case)'
  <2>1. cut' \in [links : SUBSET Portal(case)!Jobs, sessions : SUBSET Portal(case)!PartnerSessions]
    BY <1>1 DEF PortalInv, PortalLinksKnown
  <2> QED BY <1>1, <1>3, <2>1, PortalLinksEnd
<1>5. PortalSendsCounted(case)'
  BY <1>1, PortalCountStays
<1>6. PortalFormsOK(case)' /\ PortalUsersOK(case)' /\ PortalWishesOK(case)'
        /\ PortalLettersOK(case)' /\ PortalTasksOK(case)' /\ portalClock' \in Int
  BY <1>1 DEF PortalInv, PortalFormsOK, PortalUsersOK, PortalWishesOK, PortalLettersOK,
     PortalTasksOK
<1> QED BY <1>4, <1>5, <1>6 DEF PortalInv

LEMMA PortalAcceptStep ==
  ASSUME NEW case, Portal(case)!PartnerPortalAssumption, PortalInv(case),
         NEW s \in Portal(case)!PartnerSessions, NEW a \in case.Applications, NEW e \in case.Emails,
         NEW j \in Portal(case)!Jobs, Portal(case)!AcceptInvite(s, a, e, j)
  PROVE  PortalInv(case)'
<1> DEFINE k == <<a, e>>
           row == Portal(case)!AcceptPartnerInvite(user[k])
           until == Portal(case)!At(portalClock + case.SessionLifetime)
           visit == [org |-> a, email |-> e, via |-> j, exp |-> until, revoked |-> FALSE]
<1>1. k \in PortalUsers(case) /\ user \in [PortalUsers(case) -> PortalUser(case)]
        /\ user[k] \in PortalUser(case)
  BY DEF PortalInv, PortalUsersOK, PortalUsers
<1>2. user' = [user EXCEPT ![k] = row] /\ portalSess' = [portalSess EXCEPT ![s] = visit]
      /\ UNCHANGED <<portalClock, app, job, mailbox, cut, portalReq, wrk>>
  BY Zenon DEF Portal!AcceptInvite, Portal!issueSession
<1>3. portalSess[s] = Portal(case)!NoSession /\ user[k].link = j
  BY Zenon DEF Portal!AcceptInvite, Portal!PartnerUserByInvite
<1>4. row \in PortalUser(case) /\ row.link = 0 /\ row.state = user[k].state
  BY <1>1, PortalAcceptedIs
<1>5. until \in Int
  <2>1. portalClock + case.SessionLifetime \in Int /\ case.Horizon + 1 \in Int
    BY DEF PortalInv, Portal!PartnerPortalAssumption
  <2> QED BY <2>1, PortalTimes
<1> HIDE DEF until
<1>6. visit \in PortalVisit(case) /\ visit.org = a /\ visit.email = e /\ visit.via = j
  BY <1>5 DEF PortalVisit, Portal!Jobs
<1>7. visit # Portal(case)!NoSession /\ j # 0
  BY <1>6, PortalNoneYet DEF Portal!Jobs
<1> HIDE DEF k, row, visit
<1>8. user' \in [PortalUsers(case) -> PortalUser(case)]
        /\ \A x \in PortalUsers(case) : user'[x] = IF x = k THEN row ELSE user[x]
  BY <1>1, <1>2, <1>4
<1>9. portalSess' \in [Portal(case)!PartnerSessions -> PortalVisit(case)]
        /\ \A t \in Portal(case)!PartnerSessions : portalSess'[t] = IF t = s THEN visit
        ELSE portalSess[t]
  BY <1>2, <1>6 DEF PortalInv, PortalLinksKnown
<1>10. job[j].minted /\ j \notin cut.links
         /\ (\A x \in PortalUsers(case) : x # k => user[x].link # j) /\ s \notin cut.sessions
       /\ \A t \in Portal(case)!PartnerSessions : portalSess[t] # Portal(case)!NoSession
          => portalSess[t].via # j
  BY <1>1, <1>3, <1>7, PortalKnown
<1>11. PortalLinksKnown(case)'
  <2>1. \A x \in PortalUsers(case) : user'[x].link # 0 => user'[x].link = user[x].link
    BY <1>4, <1>8
  <2>2. \A x \in PortalUsers(case) : user'[x].link # 0
          => LET m == job'[user'[x].link] IN m.minted /\ <<m.org, m.email>> = x
    BY <1>2, <2>1, PortalKnown
  <2>3. \A x \in PortalUsers(case) : user'[x].link # j
    BY <1>4, <1>7, <1>8, <1>10
  <2>4. ASSUME NEW l \in cut'.links
        PROVE  job'[l].minted /\ \A x \in PortalUsers(case) : user'[x].link # l
    <3>1. l \in cut.links /\ l # 0
      BY <1>2, PortalKnown DEF Portal!Jobs
    <3> QED BY <1>2, <2>1, <3>1, PortalKnown
  <2>5. ASSUME NEW t \in Portal(case)!PartnerSessions, portalSess'[t] # Portal(case)!NoSession
        PROVE  /\ <<portalSess'[t].org, portalSess'[t].email>> \in PortalUsers(case)
               /\ portalSess'[t].via \in Portal(case)!Jobs /\ job'[portalSess'[t].via].minted
                  /\ portalSess'[t].via \notin cut'.links
               /\ \A x \in PortalUsers(case) : user'[x].link # portalSess'[t].via
    <3>1. CASE t = s
      <4>1. portalSess'[t].via = j /\ <<portalSess'[t].org, portalSess'[t].email>> = k
              /\ k \in PortalUsers(case)
        BY <1>1, <1>6, <1>9, <3>1 DEF k
      <4> QED BY <1>2, <1>10, <2>3, <4>1
    <3>2. CASE t # s
      <4>1. portalSess'[t] = portalSess[t] /\ portalSess[t] # Portal(case)!NoSession
        BY <1>9, <2>5, <3>2
      <4>2. portalSess[t].via # 0
              /\ <<portalSess[t].org, portalSess[t].email>> \in PortalUsers(case)
        BY <4>1, PortalKnown DEF Portal!Jobs, PortalUsers
      <4> QED BY <1>2, <2>1, <4>1, <4>2, PortalKnown
    <3> QED BY <3>1, <3>2
  <2>6. \A t \in cut'.sessions : portalSess'[t].revoked /\ portalSess'[t] # Portal(case)!NoSession
    <3>1. cut' = cut /\ cut.sessions \subseteq Portal(case)!PartnerSessions
            /\ \A t \in cut.sessions : portalSess[t].revoked
            /\ portalSess[t] # Portal(case)!NoSession
      BY <1>2, PortalKnown
    <3> QED BY <1>9, <1>10, <3>1
  <2>7. Portal(case)!LinkUsedOnce'
    <3>1. \A t, u \in Portal(case)!PartnerSessions : portalSess[t] # Portal(case)!NoSession
            /\ portalSess[u] # Portal(case)!NoSession
            /\ portalSess[t].via = portalSess[u].via => t = u
      BY DEF PortalInv, PortalLinksKnown, Portal!LinkUsedOnce
    <3> QED BY <1>6, <1>9, <1>10, <3>1 DEF Portal!LinkUsedOnce
  <2>8. cut' \in [links : SUBSET Portal(case)!Jobs, sessions : SUBSET Portal(case)!PartnerSessions]
    BY <1>2 DEF PortalInv, PortalLinksKnown
  <2> QED BY <1>9, <2>2, <2>4, <2>5, <2>6, <2>7, <2>8 DEF PortalLinksKnown
<1>12. PortalUsersOK(case)'
  <2>1. \A b \in case.Applications, f \in case.Emails : <<b, f>> \in PortalUsers(case)
    BY DEF PortalUsers
  <2>2. \A x \in PortalUsers(case) : user'[x].state = user[x].state
    BY <1>4, <1>8
  <2> QED BY <1>8, <2>1, <2>2 DEF PortalInv, PortalUsersOK
<1>13. PortalSendsCounted(case)'
  BY <1>2, PortalCountStays
<1>14. PortalFormsOK(case)' /\ PortalLettersOK(case)' /\ PortalTasksOK(case)'
         /\ PortalWishesOK(case)' /\ portalClock' \in Int
  BY <1>2 DEF PortalInv, PortalFormsOK, PortalLettersOK, PortalTasksOK, PortalWishesOK
<1> QED BY <1>11, <1>12, <1>13, <1>14 DEF PortalInv

\* What becomes of a mail when it is claimed, minted, sent or put off.
PortalTried(x, n, t) == [x EXCEPT !.attempts = n, !.at = t]
PortalMinted(x, t) == [x EXCEPT !.minted = TRUE, !.exp = t]
PortalPutOff(x, t) == [x EXCEPT !.at = t]
PortalSameLink(case, x, y) == y \in PortalLetter(case) /\ y.org = x.org /\ y.email = x.email
  /\ y.minted = x.minted

LEMMA PortalTriedIs ==
  ASSUME NEW case, NEW x \in PortalLetter(case), NEW n \in Nat, NEW t \in Int
  PROVE  PortalSameLink(case, x, PortalTried(x, n, t)) /\ PortalTried(x, n, t).attempts = n
         /\ PortalTried(x, n, t).done = x.done
BY DEF PortalTried, PortalLetter, PortalSameLink

LEMMA PortalMintedIs ==
  ASSUME NEW case, NEW x \in PortalLetter(case), NEW t \in Int
  PROVE  LET y == PortalMinted(x, t) IN
           /\ y \in PortalLetter(case) /\ y.org = x.org /\ y.email = x.email /\ y.minted = TRUE
              /\ y.attempts = x.attempts
           /\ y.done = x.done
BY DEF PortalMinted, PortalLetter

LEMMA PortalCompletedIs ==
  ASSUME NEW case, NEW x \in PortalLetter(case)
  PROVE  LET y == Portal(case)!CompletePartnerLoginEmail(x) IN PortalSameLink(case, x, y)
         /\ y.attempts = x.attempts /\ y.done
BY DEF Portal!CompletePartnerLoginEmail, PortalLetter, PortalSameLink

LEMMA PortalPutOffIs ==
  ASSUME NEW case, NEW x \in PortalLetter(case), NEW t \in Int
  PROVE  PortalSameLink(case, x, PortalPutOff(x, t)) /\ PortalPutOff(x, t).attempts = x.attempts
         /\ PortalPutOff(x, t).done = x.done
BY DEF PortalPutOff, PortalLetter, PortalSameLink

\* The instance counts the members of a set as the library does.
LEMMA PortalCounts ==
  ASSUME NEW case
  PROVE  \A S : (Portal(case)!IsFiniteSet(S) <=> IsFiniteSet(S))
         /\ Portal(case)!Cardinality(S) = Cardinality(S)
<1>1. \A S : Portal(case)!IsFiniteSet(S) <=> IsFiniteSet(S)
  BY Zenon DEF Portal!IsFiniteSet, IsFiniteSet
<1>2. \A S : Portal(case)!Cardinality(S) = Cardinality(S)
  BY <1>1, Zenon DEF Portal!Cardinality, Cardinality
<1> QED BY <1>1, <1>2

LEMMA PortalSendingFinite ==
  ASSUME NEW case, Portal(case)!PartnerPortalAssumption, NEW j
  PROVE  IsFiniteSet(PortalSending(case, j)) /\ Cardinality(PortalSending(case, j)) \in Nat
<1>1. PortalSending(case, j) \in SUBSET case.Workers /\ IsFiniteSet(case.Workers)
  BY PortalCounts DEF PortalSending, Portal!PartnerPortalAssumption
<1> QED BY <1>1, FS_Subset, FS_CardinalityType

\* One mail changes, as to when it is sent, with nothing of its link.
LEMMA PortalOneLetter ==
  ASSUME NEW case, Portal(case)!PartnerPortalAssumption, PortalInv(case),
         NEW j \in Portal(case)!Jobs, NEW y, PortalSameLink(case, job[j], y),
         ~y.done => ~job[j].done,
         \A i \in Portal(case)!Jobs : job'[i] = IF i = j THEN y ELSE job[i],
         job' \in [Portal(case)!Jobs -> PortalLetter(case)],
         y.attempts \in Nat
  PROVE  PortalLettersOK(case)' /\ (\A i \in Portal(case)!Jobs : PortalSameLetter(i))
         /\ \A i \in Portal(case)!Jobs : job'[i].attempts = IF i = j THEN y.attempts
         ELSE job[i].attempts
<1>1. PortalLettersOK(case)'
  BY DEF PortalInv, PortalLettersOK, PortalSameLink
<1>2. \A i \in Portal(case)!Jobs : PortalSameLetter(i)
  BY DEF PortalSameLetter, PortalSameLink
<1> QED BY <1>1, <1>2

LEMMA PortalSentStep ==
  ASSUME NEW case, Portal(case)!PartnerPortalAssumption, PortalInv(case), NEW w \in case.Workers,
         Portal(case)!DeliverNext(w)
  PROVE  PortalInv(case)'
<1> DEFINE j == wrk[w].j
           y == IF wrk[w].pc = "sent" THEN Portal(case)!CompletePartnerLoginEmail(job[j])
             ELSE Portal(case)!FailPartnerLoginEmail(job[j])
           t == Portal(case)!Later(portalClock + 1)
<1>1. j \in Portal(case)!Jobs /\ wrk \in [case.Workers -> PortalTask(case)]
  BY DEF Portal!DeliverNext, PortalInv, PortalTasksOK
<1>2. job[j] \in PortalLetter(case) /\ portalClock + 1 \in Int
  BY <1>1 DEF PortalInv, PortalLettersOK
<1>3. t \in Int
  BY <1>2, PortalTimes
<1>4. Portal(case)!FailPartnerLoginEmail(job[j]) = IF job[j].done THEN job[j]
        ELSE PortalPutOff(job[j], t)
  BY Zenon DEF Portal!FailPartnerLoginEmail, PortalPutOff
<1>5. job' = [job EXCEPT ![j] = y] /\ wrk' = [wrk EXCEPT ![w] = Portal(case)!NoWork]
        /\ UNCHANGED <<portalClock, app, user, portalSess, mailbox, cut, portalReq>>
  BY Zenon DEF Portal!DeliverNext
<1>6. PortalSameLink(case, job[j], job[j]) /\ job[j].attempts \in Nat
  BY <1>2 DEF PortalSameLink, PortalLetter
<1> HIDE DEF t
<1>7. PortalSameLink(case, job[j], y) /\ (~y.done => ~job[j].done) /\ y.attempts = job[j].attempts
  <2> DEFINE c == Portal(case)!CompletePartnerLoginEmail(job[j])
             f == PortalPutOff(job[j], t)
  <2>1. PortalSameLink(case, job[j], c) /\ c.attempts = job[j].attempts /\ c.done
    BY <1>2, PortalCompletedIs
  <2>2. PortalSameLink(case, job[j], f) /\ f.attempts = job[j].attempts /\ f.done = job[j].done
    BY <1>2, <1>3, PortalPutOffIs
  <2>3. y \in {c, f, job[j]}
    BY <1>4
  <2> HIDE DEF c, f, y
  <2> QED BY <1>6, <2>1, <2>2, <2>3
<1> HIDE DEF y, j
<1>8. PortalLettersOK(case)' /\ (\A i \in Portal(case)!Jobs : PortalSameLetter(i))
        /\ \A i \in Portal(case)!Jobs : job'[i].attempts = job[i].attempts
  <2>1. y.attempts \in Nat /\ j \in Portal(case)!Jobs /\ job' = [job EXCEPT ![j] = y]
    BY <1>1, <1>5, <1>6, <1>7
  <2>0. job' \in [Portal(case)!Jobs -> PortalLetter(case)]
          /\ \A i \in Portal(case)!Jobs : job'[i] = IF i = j THEN y ELSE job[i]
    BY <1>7, <2>1 DEF PortalInv, PortalLettersOK, PortalSameLink
  <2>2. PortalLettersOK(case)' /\ (\A i \in Portal(case)!Jobs : PortalSameLetter(i))
          /\ \A i \in Portal(case)!Jobs : job'[i].attempts = IF i = j THEN y.attempts
          ELSE job[i].attempts
    BY <1>7, <2>1, <2>0, PortalOneLetter
  <2> QED BY <1>7, <2>2
<1>9. PortalTasksOK(case)' /\ \A v \in case.Workers : wrk'[v] = IF v = w THEN Portal(case)!NoWork
        ELSE wrk[v]
  BY <1>1, <1>5, PortalNoneYet DEF PortalInv, PortalTasksOK
<1>10. ASSUME NEW i \in Portal(case)!Jobs
       PROVE  Cardinality(PortalSending(case, i)') <= Cardinality(PortalSending(case, i))
       /\ Cardinality(PortalSending(case, i)') \in Nat
  <2>1. PortalSending(case, i)' \in SUBSET PortalSending(case, i)
    BY <1>9, PortalNoneYet DEF PortalSending
  <2> QED BY <2>1, PortalSendingFinite, FS_Subset, FS_CardinalityType
<1>11. PortalSendsCounted(case)'
  <2> SUFFICES ASSUME NEW i \in Portal(case)!Jobs
               PROVE  mailbox'[i] + Cardinality(PortalSending(case, i)') <= job'[i].attempts
                      /\ job'[i].attempts <= case.MaxAttempts
    BY <1>5 DEF PortalSendsCounted, PortalInv
  <2>1. mailbox[i] + Cardinality(PortalSending(case, i)) <= job[i].attempts
          /\ job[i].attempts <= case.MaxAttempts /\ mailbox[i] \in Nat
    BY DEF PortalSendsCounted, PortalInv
  <2>2. job[i].attempts \in Nat /\ case.MaxAttempts \in Nat
    BY DEF PortalInv, PortalLettersOK, PortalLetter, Portal!PartnerPortalAssumption
  <2> QED BY <1>5, <1>8, <1>10, <2>1, <2>2, PortalSendingFinite
<1>12. PortalLinksKnown(case)'
  BY <1>5, <1>8, PortalLinksStay
<1>13. PortalFormsOK(case)' /\ PortalUsersOK(case)' /\ PortalWishesOK(case)' /\ portalClock' \in Int
  BY <1>5 DEF PortalInv, PortalFormsOK, PortalUsersOK, PortalWishesOK
<1> QED BY <1>8, <1>9, <1>11, <1>12, <1>13 DEF PortalInv

LEMMA PortalSendStep ==
  ASSUME NEW case, Portal(case)!PartnerPortalAssumption, PortalInv(case), NEW w \in case.Workers,
         NEW ok \in BOOLEAN, NEW arrives \in BOOLEAN, Portal(case)!Send(w, ok, arrives)
  PROVE  PortalInv(case)'
<1> DEFINE j == wrk[w].j
           pc == IF ok THEN "sent" ELSE "failed"
           task == [wrk[w] EXCEPT !.pc = pc]
           count == Portal(case)!Min({mailbox[j] + 1, case.MaxAttempts + 1})
<1>1. j \in Portal(case)!Jobs /\ wrk \in [case.Workers -> PortalTask(case)] /\ wrk[w].pc = "send"
        /\ mailbox \in [Portal(case)!Jobs -> Nat]
  BY DEF Portal!Send, PortalInv, PortalTasksOK, PortalSendsCounted
<1>2. wrk' = [wrk EXCEPT ![w] = task]
        /\ (mailbox' = mailbox \/ mailbox' = [mailbox EXCEPT ![j] = count])
      /\ UNCHANGED <<portalClock, app, user, job, portalSess, cut, portalReq>>
  BY DEF Portal!Send
<1>3. pc \in {"sent", "failed"}
  OBVIOUS
<1> HIDE DEF pc
<1>4. task \in PortalTask(case) /\ task.pc = pc /\ task.j = j
  BY <1>1, <1>3 DEF PortalTask
<1>5. count \in Nat /\ count <= mailbox[j] + 1
  <2>1. mailbox[j] + 1 \in Nat /\ case.MaxAttempts + 1 \in Nat
    BY <1>1 DEF Portal!PartnerPortalAssumption
  <2>2. mailbox[j] + 1 \in Int /\ case.MaxAttempts + 1 \in Int
    BY <2>1
  <2>3. count \in {mailbox[j] + 1, case.MaxAttempts + 1} /\ count <= mailbox[j] + 1
    BY <2>2, PortalLeastOf
  <2> QED BY <2>1, <2>3
<1> HIDE DEF task, count
<1>6. \A v \in case.Workers : wrk'[v] = IF v = w THEN task ELSE wrk[v]
  BY <1>1, <1>2, <1>4
<1>7. PortalTasksOK(case)'
  BY <1>1, <1>2, <1>3, <1>4, <1>6 DEF PortalInv, PortalTasksOK
<1>8. w \in PortalSending(case, j)
        /\ \A i \in Portal(case)!Jobs : PortalSending(case, i)' = PortalSending(case, i) \ {w}
  BY <1>1, <1>3, <1>4, <1>6 DEF PortalSending
<1> HIDE DEF j
<1>9. mailbox' \in [Portal(case)!Jobs -> Nat]
        /\ \A i \in Portal(case)!Jobs : mailbox'[i] <= IF i = j THEN mailbox[j] + 1 ELSE mailbox[i]
  BY <1>1, <1>2, <1>5
<1>10. PortalSendsCounted(case)'
  <2> SUFFICES ASSUME NEW i \in Portal(case)!Jobs
               PROVE  mailbox'[i] + Cardinality(PortalSending(case, i)') <= job'[i].attempts
                      /\ job'[i].attempts <= case.MaxAttempts
    BY <1>9 DEF PortalSendsCounted
  <2>1. mailbox[i] + Cardinality(PortalSending(case, i)) <= job[i].attempts
          /\ job[i].attempts <= case.MaxAttempts /\ mailbox[i] \in Nat
    BY DEF PortalSendsCounted, PortalInv
  <2>2. job[i].attempts \in Nat /\ case.MaxAttempts \in Nat
    BY DEF PortalInv, PortalLettersOK, PortalLetter, Portal!PartnerPortalAssumption
  <2>3. Cardinality(PortalSending(case, i)) \in Nat
          /\ Cardinality(PortalSending(case, i)') = IF w \in PortalSending(case, i)
          THEN Cardinality(PortalSending(case, i)) - 1 ELSE Cardinality(PortalSending(case, i))
    BY <1>8, PortalSendingFinite, FS_RemoveElement
  <2>4. mailbox'[i] \in Nat
    BY <1>9
  <2>5. CASE i = j
    <3>1. mailbox'[i] <= mailbox[i] + 1
            /\ Cardinality(PortalSending(case, i)') = Cardinality(PortalSending(case, i)) - 1
      BY <1>8, <1>9, <2>3, <2>5
    <3> QED BY <1>2, <2>1, <2>2, <2>3, <2>4, <3>1
  <2>6. CASE i # j
    <3>1. mailbox'[i] <= mailbox[i]
            /\ Cardinality(PortalSending(case, i)') <= Cardinality(PortalSending(case, i))
            /\ Cardinality(PortalSending(case, i)') \in Int
      BY <1>9, <2>3, <2>6
    <3> QED BY <1>2, <2>1, <2>2, <2>3, <2>4, <3>1
  <2> QED BY <2>5, <2>6
<1>11. PortalLinksKnown(case)'
  BY <1>2, PortalLinksStay DEF PortalSameLetter
<1>12. PortalFormsOK(case)' /\ PortalUsersOK(case)' /\ PortalLettersOK(case)'
         /\ PortalWishesOK(case)' /\ portalClock' \in Int
  BY <1>2 DEF PortalInv, PortalFormsOK, PortalUsersOK, PortalLettersOK, PortalWishesOK
<1> QED BY <1>7, <1>10, <1>11, <1>12 DEF PortalInv

LEMMA PortalCrashStep ==
  ASSUME NEW case, Portal(case)!PartnerPortalAssumption, PortalInv(case), NEW w \in case.Workers,
         Portal(case)!Crash(w)
  PROVE  PortalInv(case)'
<1>1. wrk' = [wrk EXCEPT ![w] = Portal(case)!NoWork]
        /\ UNCHANGED <<portalClock, app, user, job, portalSess, mailbox, cut, portalReq>>
  BY DEF Portal!Crash
<1>2. wrk \in [case.Workers -> PortalTask(case)]
  BY DEF PortalInv, PortalTasksOK
<1>3. PortalTasksOK(case)' /\ \A v \in case.Workers : wrk'[v] = IF v = w THEN Portal(case)!NoWork
        ELSE wrk[v]
  BY <1>1, <1>2, PortalNoneYet DEF PortalInv, PortalTasksOK
<1>4. ASSUME NEW i \in Portal(case)!Jobs
      PROVE  Cardinality(PortalSending(case, i)') <= Cardinality(PortalSending(case, i))
      /\ Cardinality(PortalSending(case, i)') \in Nat
  <2>1. PortalSending(case, i)' \in SUBSET PortalSending(case, i)
    BY <1>3, PortalNoneYet DEF PortalSending
  <2> QED BY <2>1, PortalSendingFinite, FS_Subset, FS_CardinalityType
<1>5. PortalSendsCounted(case)'
  <2> SUFFICES ASSUME NEW i \in Portal(case)!Jobs
               PROVE  mailbox'[i] + Cardinality(PortalSending(case, i)') <= job'[i].attempts
                      /\ job'[i].attempts <= case.MaxAttempts
    BY <1>1 DEF PortalSendsCounted, PortalInv
  <2>1. mailbox[i] + Cardinality(PortalSending(case, i)) <= job[i].attempts
          /\ job[i].attempts <= case.MaxAttempts /\ mailbox[i] \in Nat
    BY DEF PortalSendsCounted, PortalInv
  <2>2. job[i].attempts \in Nat
    BY DEF PortalInv, PortalLettersOK, PortalLetter
  <2> QED BY <1>1, <1>4, <2>1, <2>2, PortalSendingFinite
<1>6. PortalLinksKnown(case)'
  BY <1>1, PortalLinksStay DEF PortalSameLetter
<1>7. PortalFormsOK(case)' /\ PortalUsersOK(case)' /\ PortalLettersOK(case)'
        /\ PortalWishesOK(case)' /\ portalClock' \in Int
  BY <1>1 DEF PortalInv, PortalFormsOK, PortalUsersOK, PortalLettersOK, PortalWishesOK
<1> QED BY <1>3, <1>5, <1>6, <1>7 DEF PortalInv

\* A link is minted, and is that of the user it is for.
LEMMA PortalLinksMint ==
  ASSUME NEW case, Portal(case)!PartnerPortalAssumption, PortalInv(case),
         NEW j \in Portal(case)!Jobs, ~job[j].minted,
         NEW k \in PortalUsers(case), <<job[j].org, job[j].email>> = k,
         NEW y, y.minted, y.org = job[j].org,
         y.email = job[j].email, \A i \in Portal(case)!Jobs : job'[i] = IF i = j THEN y ELSE job[i],
         user' \in [PortalUsers(case) -> PortalUser(case)],
         user'[k].link = j, \A x \in PortalUsers(case) : x # k => user'[x].link = user[x].link,
         UNCHANGED <<portalSess, cut>>
  PROVE  PortalLinksKnown(case)'
<1>1. \A i \in Portal(case)!Jobs : job'[i] = IF i = j THEN y ELSE job[i]
  OBVIOUS
<1>2. /\ \A x \in PortalUsers(case) : user[x].link # j
      /\ j \notin cut.links
         /\ \A s \in Portal(case)!PartnerSessions : portalSess[s] # Portal(case)!NoSession
         => portalSess[s].via # j
  <2>1. j # 0
    BY DEF Portal!Jobs
  <2> QED BY <2>1, PortalKnown
<1>3. ASSUME NEW x \in PortalUsers(case), user'[x].link # 0
      PROVE  LET m == job'[user'[x].link] IN m.minted /\ <<m.org, m.email>> = x
  <2>1. CASE x = k
    BY <1>1, <2>1
  <2>2. CASE x # k
    <3>1. user'[x].link = user[x].link /\ user[x].link # j /\ user[x].link \in Portal(case)!Jobs
          /\ job[user[x].link].minted /\ <<job[user[x].link].org, job[user[x].link].email>> = x
      BY <1>2, <1>3, <2>2, PortalKnown
    <3> QED BY <1>1, <3>1
  <2> QED BY <2>1, <2>2
<1>4. ASSUME NEW l \in cut'.links
      PROVE  job'[l].minted /\ \A x \in PortalUsers(case) : user'[x].link # l
  <2>1. l \in Portal(case)!Jobs /\ l # j /\ job[l].minted
          /\ \A x \in PortalUsers(case) : user[x].link # l
    BY <1>2, PortalKnown DEF PortalInv, PortalLinksKnown
  <2> QED BY <1>1, <2>1
<1>5. ASSUME NEW s \in Portal(case)!PartnerSessions, portalSess'[s] # Portal(case)!NoSession
      PROVE  /\ <<portalSess'[s].org, portalSess'[s].email>> \in PortalUsers(case)
             /\ portalSess'[s].via \in Portal(case)!Jobs /\ job'[portalSess'[s].via].minted
                /\ portalSess'[s].via \notin cut'.links
             /\ \A x \in PortalUsers(case) : user'[x].link # portalSess'[s].via
  <2>1. portalSess'[s] = portalSess[s] /\ cut' = cut /\ portalSess[s].via # j
          /\ portalSess[s].via \in Portal(case)!Jobs /\ job[portalSess[s].via].minted
        /\ portalSess[s].via \notin cut.links
           /\ \A x \in PortalUsers(case) : user[x].link # portalSess[s].via
    BY <1>2, <1>5, PortalKnown
  <2>2. <<portalSess[s].org, portalSess[s].email>> \in PortalUsers(case)
    BY <1>5, <2>1, PortalKnown DEF PortalUsers
  <2> QED BY <1>1, <2>1, <2>2
<1>6. Portal(case)!LinkUsedOnce' /\ \A s \in cut'.sessions : portalSess'[s].revoked
        /\ portalSess'[s] # Portal(case)!NoSession
  BY PortalKnown DEF PortalInv, PortalLinksKnown, Portal!LinkUsedOnce
<1>7. portalSess' \in [Portal(case)!PartnerSessions -> PortalVisit(case)]
        /\ cut' \in [links : SUBSET Portal(case)!Jobs,
        sessions : SUBSET Portal(case)!PartnerSessions]
  BY DEF PortalInv, PortalLinksKnown
<1> QED BY <1>3, <1>4, <1>5, <1>6, <1>7, Zenon DEF PortalLinksKnown

\* A worker has claimed a mail and is about to send it.
LEMMA PortalClaimCounted ==
  ASSUME NEW case, Portal(case)!PartnerPortalAssumption, PortalInv(case), NEW w \in case.Workers,
         wrk[w] = Portal(case)!NoWork, NEW j \in Portal(case)!Jobs,
         job[j].attempts < case.MaxAttempts,
         wrk' = [wrk EXCEPT ![w] = [pc |-> "send", j |-> j]], mailbox' = mailbox,
         \A i \in Portal(case)!Jobs : job'[i].attempts = IF i = j THEN job[j].attempts + 1
           ELSE job[i].attempts
  PROVE  PortalTasksOK(case)' /\ PortalSendsCounted(case)'
<1> DEFINE task == [pc |-> "send", j |-> j]
<1>1. task \in PortalTask(case) /\ task.pc = "send" /\ task.j = j
  BY DEF PortalTask, Portal!Jobs
<1> HIDE DEF task
<1>2. wrk \in [case.Workers -> PortalTask(case)] /\ wrk' = [wrk EXCEPT ![w] = task]
  BY DEF PortalInv, PortalTasksOK, task
<1>3. \A v \in case.Workers : wrk'[v] = IF v = w THEN task ELSE wrk[v]
  BY <1>1, <1>2
<1>4. PortalTasksOK(case)'
  BY <1>1, <1>2, <1>3 DEF PortalInv, PortalTasksOK
<1>5. /\ w \notin PortalSending(case, j)
         /\ PortalSending(case, j)' = PortalSending(case, j) \cup {w}
      /\ \A i \in Portal(case)!Jobs : i # j => PortalSending(case, i)' = PortalSending(case, i)
  BY <1>1, <1>3, PortalNoneYet DEF PortalSending
<1>6. mailbox \in [Portal(case)!Jobs -> Nat]
  BY DEF PortalInv, PortalSendsCounted
<1>7. PortalSendsCounted(case)'
  <2> SUFFICES ASSUME NEW i \in Portal(case)!Jobs
               PROVE  mailbox'[i] + Cardinality(PortalSending(case, i)') <= job'[i].attempts
                      /\ job'[i].attempts <= case.MaxAttempts
    BY <1>6 DEF PortalSendsCounted
  <2>1. mailbox[i] + Cardinality(PortalSending(case, i)) <= job[i].attempts
          /\ job[i].attempts <= case.MaxAttempts /\ mailbox[i] \in Nat
    BY DEF PortalSendsCounted, PortalInv
  <2>2. job[i].attempts \in Nat /\ case.MaxAttempts \in Nat
    BY DEF PortalInv, PortalLettersOK, PortalLetter, Portal!PartnerPortalAssumption
  <2>3. Cardinality(PortalSending(case, i)) \in Nat
    BY PortalSendingFinite
  <2>4. CASE i = j
    <3>1. Cardinality(PortalSending(case, i)') = Cardinality(PortalSending(case, i)) + 1
      BY <1>5, <2>4, PortalSendingFinite, FS_AddElement
    <3> QED BY <2>1, <2>2, <2>3, <2>4, <3>1
  <2>5. CASE i # j
    <3>1. Cardinality(PortalSending(case, i)') = Cardinality(PortalSending(case, i))
      BY <1>5, <2>5
    <3> QED BY <2>1, <2>2, <2>3, <2>5, <3>1
  <2> QED BY <2>4, <2>5
<1> QED BY <1>4, <1>7

LEMMA PortalClaimStep ==
  ASSUME NEW case, Portal(case)!PartnerPortalAssumption, PortalInv(case), NEW w \in case.Workers,
         NEW j \in Portal(case)!Jobs, Portal(case)!claim(w, j)
  PROVE  PortalInv(case)'
<1> DEFINE x == job[j]
           t == Portal(case)!Later(portalClock + case.Lease)
           u == Portal(case)!At(portalClock + Portal(case)!partnerLinkLifetime(x.kind))
           n == x.attempts + 1
           k == <<x.org, x.email>>
           done == Portal(case)!CompletePartnerLoginEmail(x)
           again == PortalTried(x, n, t)
           first == PortalTried(PortalMinted(x, u), n, t)
           row == PortalLinked(user[k], j, u)
<1>1. wrk[w] = Portal(case)!NoWork /\ ~x.done /\ x.attempts < case.MaxAttempts
        /\ UNCHANGED <<portalClock, app, portalSess, mailbox, cut, portalReq>>
  BY DEF Portal!claim, Portal!NextPartnerLoginEmail, Portal!Due
<1>2. x \in PortalLetter(case) /\ x.org \in case.Applications /\ x.email \in case.Emails
        /\ n \in Nat
  <2>1. x \in PortalLetter(case)
    BY DEF PortalInv, PortalLettersOK
  <2> QED BY <1>1, <2>1 DEF PortalInv, PortalLettersOK, PortalLetter
<1>3. k \in PortalUsers(case) /\ user \in [PortalUsers(case) -> PortalUser(case)]
        /\ user[k] \in PortalUser(case)
  BY <1>2 DEF PortalInv, PortalUsersOK, PortalUsers
<1>4. t \in Int /\ u \in Int
  <2>1. portalClock + case.Lease \in Int
          /\ portalClock + Portal(case)!partnerLinkLifetime(x.kind) \in Int
    BY DEF PortalInv, Portal!partnerLinkLifetime, Portal!PartnerPortalAssumption
  <2> QED BY <2>1, PortalTimes
<1>5. \/ job' = [job EXCEPT ![j] = done] /\ UNCHANGED <<user, wrk>>
      \/ x.minted /\ job' = [job EXCEPT ![j] = again] /\ UNCHANGED user
         /\ wrk' = [wrk EXCEPT ![w] = [pc |-> "send", j |-> j]]
      \/ /\ ~x.minted /\ job' = [job EXCEPT ![j] = first] /\ user' = [user EXCEPT ![k] = row]
         /\ wrk' = [wrk EXCEPT ![w] = [pc |-> "send", j |-> j]]
  <2>1. \/ job' = [job EXCEPT ![j] = done] /\ UNCHANGED <<user, wrk>>
        \/ x.minted /\ job' = [job EXCEPT ![j] = Portal(case)!ClaimPartnerLoginEmail(x)]
           /\ UNCHANGED user /\ wrk' = [wrk EXCEPT ![w] = [pc |-> "send", j |-> j]]
        \/ /\ ~x.minted
              /\ job' = [job EXCEPT ![j] = Portal(case)!ClaimPartnerLoginEmail(Portal(case)!PreparePartnerLoginEmail(x))]
           /\ Portal(case)!SetPartnerUserLink(x.org, x.email, j, u)
              /\ wrk' = [wrk EXCEPT ![w] = [pc |-> "send", j |-> j]]
    BY Zenon DEF Portal!claim
  <2>2. Portal(case)!ClaimPartnerLoginEmail(x) = again
    BY Zenon DEF Portal!ClaimPartnerLoginEmail, PortalTried
  <2>3. Portal(case)!PreparePartnerLoginEmail(x) = PortalMinted(x, u)
    BY Zenon DEF Portal!PreparePartnerLoginEmail, PortalMinted
  <2>4. PortalMinted(x, u).attempts = x.attempts
    BY <1>2, <1>4, PortalMintedIs
  <2>5. Portal(case)!ClaimPartnerLoginEmail(PortalMinted(x, u)) = first
    BY <2>4, Zenon DEF Portal!ClaimPartnerLoginEmail, PortalTried
  <2>6. Portal(case)!SetPartnerUserLink(x.org, x.email, j, u) => user' = [user EXCEPT ![k] = row]
    BY Zenon DEF Portal!SetPartnerUserLink, PortalLinked
  <2> HIDE DEF again, first, row, done
  <2> QED BY <2>1, <2>2, <2>3, <2>5, <2>6
<1>6. PortalSameLink(case, x, done) /\ done.attempts = x.attempts /\ done.done
  BY <1>2, PortalCompletedIs
<1>7. PortalSameLink(case, x, again) /\ again.attempts = n /\ again.done = x.done
  BY <1>2, <1>4, PortalTriedIs
<1>8. first \in PortalLetter(case) /\ first.org = x.org /\ first.email = x.email /\ first.minted
        /\ first.attempts = n /\ first.done = x.done
  <2> DEFINE m == PortalMinted(x, u)
  <2>1. m \in PortalLetter(case) /\ m.org = x.org /\ m.email = x.email /\ m.minted
          /\ m.done = x.done
    BY <1>2, <1>4, PortalMintedIs
  <2> HIDE DEF m
  <2>2. PortalSameLink(case, m, PortalTried(m, n, t)) /\ PortalTried(m, n, t).attempts = n
          /\ PortalTried(m, n, t).done = m.done
    BY <1>2, <1>4, <2>1, PortalTriedIs
  <2>3. first = PortalTried(m, n, t)
    BY DEF m
  <2> HIDE DEF first
  <2> QED BY <2>1, <2>2, <2>3 DEF PortalSameLink
<1>9. row \in PortalUser(case) /\ row.link = j /\ row.state = user[k].state
  <2> DEFINE v == user[k]
  <2>1. j \in 0 .. case.MaxJobs
    BY DEF Portal!Jobs
  <2>2. v \in PortalUser(case) /\ u \in Int
    BY <1>3, <1>4
  <2> HIDE DEF v, u
  <2>3. /\ PortalLinked(v, j, u) \in PortalUser(case) /\ PortalLinked(v, j, u).link = j
        /\ PortalLinked(v, j, u).state = v.state
    BY <2>1, <2>2, PortalLinkedIs
  <2> QED BY <2>3 DEF v
<1>10. PortalFormsOK(case)' /\ PortalWishesOK(case)' /\ portalClock' \in Int
  BY <1>1 DEF PortalInv, PortalFormsOK, PortalWishesOK
<1> HIDE DEF done, again, first, row
<1>11. CASE job' = [job EXCEPT ![j] = done] /\ UNCHANGED <<user, wrk>>
  <2>1. done.attempts \in Nat
    BY <1>2, <1>6 DEF PortalLetter
  <2>0. job' \in [Portal(case)!Jobs -> PortalLetter(case)]
          /\ \A i \in Portal(case)!Jobs : job'[i] = IF i = j THEN done ELSE job[i]
    BY <1>6, <1>11, <2>1 DEF PortalInv, PortalLettersOK, PortalSameLink
  <2>2. PortalLettersOK(case)' /\ (\A i \in Portal(case)!Jobs : PortalSameLetter(i))
          /\ \A i \in Portal(case)!Jobs : job'[i].attempts = IF i = j THEN done.attempts
          ELSE job[i].attempts
    BY <1>6, <1>11, <2>1, <2>0, PortalOneLetter
  <2>3. \A i \in Portal(case)!Jobs : job'[i].attempts = job[i].attempts
    BY <1>6, <2>2
  <2>4. PortalSendsCounted(case)'
    BY <1>1, <1>11, <2>3, PortalCountStays
  <2>5. PortalLinksKnown(case)'
    BY <1>1, <1>11, <2>2, PortalLinksStay
  <2>6. PortalUsersOK(case)' /\ PortalTasksOK(case)'
    BY <1>11 DEF PortalInv, PortalUsersOK, PortalTasksOK
  <2> QED BY <1>10, <2>2, <2>4, <2>5, <2>6 DEF PortalInv
<1>12. CASE job' = [job EXCEPT ![j] = again] /\ UNCHANGED user
         /\ wrk' = [wrk EXCEPT ![w] = [pc |-> "send", j |-> j]]
  <2>1. again.attempts \in Nat
    BY <1>2, <1>7
  <2>0. job' \in [Portal(case)!Jobs -> PortalLetter(case)]
          /\ \A i \in Portal(case)!Jobs : job'[i] = IF i = j THEN again ELSE job[i]
    BY <1>7, <1>12, <2>1 DEF PortalInv, PortalLettersOK, PortalSameLink
  <2>2. PortalLettersOK(case)' /\ (\A i \in Portal(case)!Jobs : PortalSameLetter(i))
          /\ \A i \in Portal(case)!Jobs : job'[i].attempts = IF i = j THEN again.attempts
          ELSE job[i].attempts
    BY <1>7, <1>12, <2>1, <2>0, PortalOneLetter
  <2>3. \A i \in Portal(case)!Jobs : job'[i].attempts = IF i = j THEN job[j].attempts + 1
          ELSE job[i].attempts
    BY <1>7, <2>2
  <2>4. PortalTasksOK(case)' /\ PortalSendsCounted(case)'
    BY <1>1, <1>12, <2>3, PortalClaimCounted
  <2>5. PortalLinksKnown(case)'
    BY <1>1, <1>12, <2>2, PortalLinksStay
  <2>6. PortalUsersOK(case)'
    BY <1>12 DEF PortalInv, PortalUsersOK
  <2> QED BY <1>10, <2>2, <2>4, <2>5, <2>6 DEF PortalInv
<1>13. CASE /\ ~x.minted /\ job' = [job EXCEPT ![j] = first] /\ user' = [user EXCEPT ![k] = row]
            /\ wrk' = [wrk EXCEPT ![w] = [pc |-> "send", j |-> j]]
  <2>1. job \in [Portal(case)!Jobs -> PortalLetter(case)]
    BY DEF PortalInv, PortalLettersOK
  <2>2. job' \in [Portal(case)!Jobs -> PortalLetter(case)]
          /\ \A i \in Portal(case)!Jobs : job'[i] = IF i = j THEN first ELSE job[i]
    BY <1>8, <1>13, <2>1
  <2>3. PortalLettersOK(case)'
    BY <1>2, <1>8, <2>2 DEF PortalInv, PortalLettersOK
  <2>4. \A i \in Portal(case)!Jobs : job'[i].attempts = IF i = j THEN job[j].attempts + 1
          ELSE job[i].attempts
    BY <1>8, <2>2
  <2>5. PortalTasksOK(case)' /\ PortalSendsCounted(case)'
    BY <1>1, <1>13, <2>4, PortalClaimCounted
  <2>6. user' \in [PortalUsers(case) -> PortalUser(case)]
          /\ \A y \in PortalUsers(case) : user'[y] = IF y = k THEN row ELSE user[y]
    BY <1>3, <1>9, <1>13
  <2>7. PortalLinksKnown(case)'
    BY <1>1, <1>3, <1>8, <1>9, <1>13, <2>2, <2>6, PortalLinksMint
  <2>8. PortalUsersOK(case)'
    <3>1. \A b \in case.Applications, f \in case.Emails : <<b, f>> \in PortalUsers(case)
      BY DEF PortalUsers
    <3>2. \A y \in PortalUsers(case) : user'[y].state = user[y].state
      BY <1>9, <2>6
    <3> QED BY <2>6, <3>1, <3>2 DEF PortalInv, PortalUsersOK
  <2> QED BY <1>10, <2>3, <2>5, <2>7, <2>8 DEF PortalInv
<1> QED BY <1>5, <1>11, <1>12, <1>13

\* A request rests, or wants something.
LEMMA PortalWishRests ==
  ASSUME NEW case, Portal(case)!PartnerPortalAssumption, PortalInv(case), NEW r \in case.Requests,
         portalReq' = [portalReq EXCEPT ![r] = Portal(case)!NoRequest]
  PROVE  PortalWishesOK(case)'
<1>1. portalReq \in [case.Requests -> PortalWish(case)]
  BY DEF PortalInv, PortalWishesOK
<1>2. portalReq' \in [case.Requests -> PortalWish(case)]
        /\ \A q \in case.Requests : portalReq'[q] = IF q = r THEN Portal(case)!NoRequest
        ELSE portalReq[q]
  BY <1>1, PortalNoneYet
<1> QED BY <1>2, PortalNoneYet DEF PortalInv, PortalWishesOK

PortalWanted(case, op, s, target, role) == [Portal(case)!NoRequest EXCEPT !.op = op, !.s = s,
  !.target = target, !.role = role]
PortalAsked(case, op, target, queue) == [Portal(case)!NoRequest EXCEPT !.op = op,
  !.target = target, !.queue = queue]

LEMMA PortalWantedIs ==
  ASSUME NEW case, Portal(case)!PartnerPortalAssumption,
         NEW op \in {"profile", "remove", "invite", "export"},
         NEW s \in Portal(case)!PartnerSessions, NEW target \in case.Emails \cup {"none"},
         NEW role \in {"ADMIN", "VIEWER"}
  PROVE  LET x == PortalWanted(case, op, s, target, role) IN x \in PortalWish(case) /\ x.op = op
         /\ x.s = s /\ x.target = target
<1>1. s \in 0 .. case.MaxSessions /\ Portal(case)!NoRequest \in PortalWish(case)
  BY PortalNoneYet DEF Portal!PartnerSessions, Portal!PartnerPortalAssumption
<1> QED BY <1>1 DEF PortalWanted, PortalWish

LEMMA PortalAskedIs ==
  ASSUME NEW case, Portal(case)!PartnerPortalAssumption, NEW op \in {"queue"},
         NEW target \in case.Emails, NEW queue \in SUBSET case.Applications
  PROVE  LET x == PortalAsked(case, op, target, queue) IN x \in PortalWish(case) /\ x.op = op
         /\ x.target = target
<1>1. Portal(case)!NoRequest \in PortalWish(case)
  BY PortalNoneYet
<1> QED BY <1>1 DEF PortalAsked, PortalWish

LEMMA PortalOneWish ==
  ASSUME NEW case, Portal(case)!PartnerPortalAssumption, PortalInv(case), NEW r \in case.Requests,
         NEW x \in PortalWish(case), portalReq' = [portalReq EXCEPT ![r] = x],
         x.op \in {"profile", "remove", "invite", "export"} => x.s \in Portal(case)!PartnerSessions,
         x.op \in {"remove", "invite", "queue"} => x.target \in case.Emails,
         UNCHANGED <<portalClock, app, user, job, portalSess, mailbox, cut, wrk>>
  PROVE  PortalInv(case)'
<1>1. portalReq \in [case.Requests -> PortalWish(case)]
  BY DEF PortalInv, PortalWishesOK
<1>2. portalReq' \in [case.Requests -> PortalWish(case)]
        /\ \A q \in case.Requests : portalReq'[q] = IF q = r THEN x ELSE portalReq[q]
  BY <1>1
<1>3. PortalWishesOK(case)'
  BY <1>2 DEF PortalInv, PortalWishesOK
<1>4. PortalFormsOK(case)' /\ portalClock' \in Int
  BY DEF PortalInv, PortalFormsOK
<1> QED BY <1>3, <1>4, PortalFormStep

LEMMA PortalRequestStep ==
  ASSUME NEW case, Portal(case)!PartnerPortalAssumption, PortalInv(case), NEW r \in case.Requests,
         \/ \E s \in Portal(case)!PartnerSessions, e \in case.Emails \cup {"none"},
            role \in {"ADMIN", "VIEWER"}, op \in {"profile", "remove", "invite"} :
              Portal(case)!authenticatePartner(r, s, op, e, role)
                /\ (op # "profile" => e \in case.Emails)
         \/ \E e \in case.Emails : Portal(case)!RequestSignIn(r, e)
  PROVE  PortalInv(case)'
<1>1. ASSUME NEW s \in Portal(case)!PartnerSessions, NEW e \in case.Emails \cup {"none"},
             NEW role \in {"ADMIN", "VIEWER"}, NEW op \in {"profile", "remove", "invite"},
             Portal(case)!authenticatePartner(r, s, op, e, role),
             op # "profile" => e \in case.Emails
      PROVE  PortalInv(case)'
  <2> DEFINE x == PortalWanted(case, op, s, e, role)
  <2>1. x \in PortalWish(case) /\ x.op = op /\ x.s = s /\ x.target = e
    BY PortalWantedIs
  <2>2. portalReq' = [portalReq EXCEPT ![r] = x]
          /\ UNCHANGED <<portalClock, app, user, job, portalSess, mailbox, cut, wrk>>
    BY <1>1, Zenon DEF Portal!authenticatePartner, PortalWanted
  <2> HIDE DEF x
  <2>3. /\ x.op \in {"profile", "remove", "invite", "export"}
           => x.s \in Portal(case)!PartnerSessions
        /\ x.op \in {"remove", "invite", "queue"} => x.target \in case.Emails
    BY <1>1, <2>1
  <2> QED BY <2>1, <2>2, <2>3, PortalOneWish
<1>2. ASSUME NEW e \in case.Emails, Portal(case)!RequestSignIn(r, e) PROVE PortalInv(case)'
  <2> DEFINE Q == {a \in Portal(case)!PartnerUsersForSignIn(e) : Portal(case)!QueuePartnerLoginEmail(a, e, "SIGN_IN")}
             x == PortalAsked(case, "queue", e, Q)
  <2>1. Q \in SUBSET case.Applications
    BY DEF Portal!PartnerUsersForSignIn
  <2>2. portalReq' = [portalReq EXCEPT ![r] = x]
          /\ UNCHANGED <<portalClock, app, user, job, portalSess, mailbox, cut, wrk>>
    BY <1>2, Zenon DEF Portal!RequestSignIn, PortalAsked
  <2> HIDE DEF Q
  <2>3. x \in PortalWish(case) /\ x.op = "queue" /\ x.target = e
    BY <2>1, PortalAskedIs
  <2> HIDE DEF x
  <2>4. /\ x.op \in {"profile", "remove", "invite", "export"}
           => x.s \in Portal(case)!PartnerSessions
        /\ x.op \in {"remove", "invite", "queue"} => x.target \in case.Emails
    BY <2>3
  <2> QED BY <2>2, <2>3, <2>4, PortalOneWish
<1> QED BY <1>1, <1>2

LEMMA PortalRequestedStep ==
  ASSUME NEW case, Portal(case)!PartnerPortalAssumption, PortalInv(case), NEW r \in case.Requests,
         Portal(case)!Requested(r)
  PROVE  PortalInv(case)'
<1> DEFINE e == portalReq[r].target
<1>1. e \in case.Emails /\ portalReq[r] \in PortalWish(case)
        /\ portalReq' = [portalReq EXCEPT ![r] = Portal(case)!NoRequest]
        /\ UNCHANGED <<portalClock, app, user, portalSess, mailbox, cut, wrk>>
  BY DEF Portal!Requested, PortalInv, PortalWishesOK
<1>2. PortalWishesOK(case)' /\ PortalFormsOK(case)' /\ portalClock' \in Int
  <2>1. PortalFormsOK(case)' /\ portalClock' \in Int
    BY <1>1 DEF PortalInv, PortalFormsOK
  <2> QED BY <1>1, <2>1, PortalWishRests
<1>3. UNCHANGED job \/ \E a \in portalReq[r].queue : Portal(case)!queuePartnerLogin(a, e, "SIGN_IN")
  BY Zenon DEF Portal!Requested
<1>4. CASE UNCHANGED job
  BY <1>1, <1>2, <1>4, PortalFormStep
<1>5. ASSUME NEW a \in portalReq[r].queue, Portal(case)!queuePartnerLogin(a, e, "SIGN_IN")
      PROVE  PortalInv(case)'
  <2>1. a \in case.Applications
    BY <1>1 DEF PortalWish
  <2>2. "ADMIN" \in {"ADMIN", "VIEWER"} /\ "SIGN_IN" \in {"APPROVED", "INVITED", "SIGN_IN"}
    OBVIOUS
  <2>3. UNCHANGED user /\ UNCHANGED <<portalClock, portalSess, mailbox, cut, wrk>>
    BY <1>1
  <2> HIDE DEF e
  <2> QED BY <1>1, <1>2, <1>5, <2>1, <2>2, <2>3, PortalMailStep
<1> QED BY <1>3, <1>4, <1>5

LEMMA PortalAdministeringStep ==
  ASSUME NEW case, Portal(case)!PartnerPortalAssumption, PortalInv(case), NEW r \in case.Requests,
         Portal(case)!Refused(r) \/ Portal(case)!PortalInvite(r) \/ Portal(case)!PortalRemove(r)
         \/ Portal(case)!SaveProfile(r)
  PROVE  PortalInv(case)'
<1> DEFINE e == portalReq[r].target
           a == portalSess[portalReq[r].s].org
           role == portalReq[r].role
<1>1. PortalFormsOK(case)' /\ PortalWishesOK(case)' /\ portalClock' \in Int
        /\ portalClock' = portalClock
  <2>1. portalReq' = [portalReq EXCEPT ![r] = Portal(case)!NoRequest]
          /\ UNCHANGED <<app, portalClock>>
    BY DEF Portal!Refused, Portal!PortalInvite, Portal!PortalRemove, Portal!SaveProfile
  <2>2. PortalFormsOK(case)' /\ portalClock' \in Int
    BY <2>1 DEF PortalInv, PortalFormsOK
  <2> QED BY <2>1, <2>2, PortalWishRests
<1>2. CASE Portal(case)!Refused(r) \/ Portal(case)!SaveProfile(r)
  <2>1. UNCHANGED <<user, job, portalSess, mailbox, cut, wrk>>
    BY <1>2 DEF Portal!Refused, Portal!SaveProfile
  <2> QED BY <1>1, <2>1, PortalFormStep
<1>3. portalReq[r].op \in {"invite", "remove"} /\ Portal(case)!partnerAdminTransaction(r) =>
        e \in case.Emails /\ a \in case.Applications /\ role \in {"ADMIN", "VIEWER"}
  <2>1. portalReq[r] \in PortalWish(case)
          /\ (portalReq[r].op \in {"invite", "remove"}
          => portalReq[r].s \in Portal(case)!PartnerSessions /\ e \in case.Emails)
    BY DEF PortalInv, PortalWishesOK
  <2>2. Portal(case)!partnerAdminTransaction(r)
          => portalSess[portalReq[r].s] # Portal(case)!NoSession
    BY DEF Portal!partnerAdminTransaction, Portal!Admin, Portal!AuthenticatedPartnerUser
  <2>3. portalReq[r].op \in {"invite", "remove"}
          /\ Portal(case)!partnerAdminTransaction(r) => a \in case.Applications
    BY <2>1, <2>2, PortalKnown
  <2> QED BY <2>1, <2>3 DEF PortalWish
<1>4. CASE Portal(case)!PortalInvite(r)
  <2>1. e \in case.Emails /\ a \in case.Applications /\ role \in {"ADMIN", "VIEWER"}
    BY <1>3, <1>4 DEF Portal!PortalInvite
  <2>2. /\ \/ Portal(case)!reserveEmailIdentity(e, a) /\ Portal(case)!InvitePartnerUser(a, e, role)
              /\ Portal(case)!queuePartnerLogin(a, e, "INVITED")
           \/ UNCHANGED user /\ UNCHANGED job
        /\ UNCHANGED <<portalSess, mailbox, cut, wrk>>
    BY <1>4 DEF Portal!PortalInvite
  <2>3. /\ UNCHANGED user
           \/ (Portal(case)!reserveEmailIdentity(e, a)
           /\ Portal(case)!InvitePartnerUser(a, e, role))
        /\ UNCHANGED job \/ Portal(case)!queuePartnerLogin(a, e, "INVITED")
        /\ UNCHANGED <<portalClock, portalSess, mailbox, cut, wrk>>
    BY <1>1, <2>2
  <2> HIDE DEF e, a, role
  <2>4. "INVITED" \in {"APPROVED", "INVITED", "SIGN_IN"}
    OBVIOUS
  <2> QED BY <1>1, <2>1, <2>3, <2>4, PortalMailStep
<1>5. CASE Portal(case)!PortalRemove(r)
  <2>1. e \in case.Emails /\ a \in case.Applications
    BY <1>3, <1>5 DEF Portal!PortalRemove
  <2>2. (Portal(case)!Removed(a, e) \/ UNCHANGED <<user, portalSess, cut>>)
          /\ UNCHANGED <<portalClock, app, job, mailbox, wrk>>
    BY <1>5 DEF Portal!PortalRemove
  <2> HIDE DEF e, a
  <2>3. CASE Portal(case)!Removed(a, e)
    BY <1>1, <2>1, <2>2, <2>3, PortalRemoveStep
  <2>4. CASE UNCHANGED <<user, portalSess, cut>>
    BY <1>1, <2>2, <2>4, PortalFormStep
  <2> QED BY <2>2, <2>3, <2>4
<1> QED BY <1>2, <1>4, <1>5

PortalFiled(x, e, c, status) == [x EXCEPT !.email = e, !.receipt = c, !.status = status]
PortalDecided(x, status) == [x EXCEPT !.status = status]

LEMMA PortalFiledIs ==
  ASSUME NEW case, NEW x \in PortalForm(case), NEW e \in case.Emails,
         NEW c \in case.Receipts \cup {"none"},
         NEW status \in {"none", "PENDING", "APPROVED", "REJECTED"}
  PROVE  PortalFiled(x, e, c, status) \in PortalForm(case) /\ PortalFiled(x, e, c, status).email = e
BY DEF PortalFiled, PortalForm

LEMMA PortalDecidedIs ==
  ASSUME NEW case, NEW x \in PortalForm(case), NEW status \in {"APPROVED", "REJECTED"}
  PROVE  PortalDecided(x, status) \in PortalForm(case) /\ PortalDecided(x, status).status = status
BY DEF PortalDecided, PortalForm

LEMMA PortalOneForm ==
  ASSUME NEW case, PortalInv(case), NEW a \in case.Applications, NEW x \in PortalForm(case),
         x.status = "PENDING" => x.email \in case.Emails, app' = [app EXCEPT ![a] = x]
  PROVE  PortalFormsOK(case)'
<1>1. app \in [case.Applications -> PortalForm(case)]
  BY DEF PortalInv, PortalFormsOK
<1>2. app' \in [case.Applications -> PortalForm(case)]
        /\ \A b \in case.Applications : app'[b] = IF b = a THEN x ELSE app[b]
  BY <1>1
<1> QED BY <1>2 DEF PortalInv, PortalFormsOK

LEMMA PortalApplyingStep ==
  ASSUME NEW case, Portal(case)!PartnerPortalAssumption, PortalInv(case), Portal(case)!Applying
  PROVE  PortalInv(case)'
<1> PICK a \in case.Applications,
      e \in case.Emails : Portal(case)!Apply(a, e)
      \/ \E c \in case.Receipts : Portal(case)!ApplyWithReceipt(a, e, c)
  BY DEF Portal!Applying
<1>1. UNCHANGED <<portalClock, user, job, portalSess, mailbox, cut, portalReq, wrk>>
  BY DEF Portal!Apply, Portal!ApplyWithReceipt
<1>2. PortalWishesOK(case)' /\ portalClock' \in Int
  BY <1>1 DEF PortalInv, PortalWishesOK
<1>3. app[a] \in PortalForm(case)
  BY DEF PortalInv, PortalFormsOK
<1>4. CASE Portal(case)!Apply(a, e)
  <2> DEFINE x == [Portal(case)!NoApplication EXCEPT !.status = "PENDING", !.email = e]
  <2>1. app' = [app EXCEPT ![a] = x]
    BY <1>4, Zenon DEF Portal!Apply
  <2>2. x \in PortalForm(case) /\ x.email = e
    BY DEF Portal!NoApplication, PortalForm
  <2> HIDE DEF x
  <2>3. PortalFormsOK(case)'
    BY <2>1, <2>2, PortalOneForm
  <2> QED BY <1>1, <1>2, <2>3, PortalFormStep
<1>5. ASSUME NEW c \in case.Receipts, Portal(case)!ApplyWithReceipt(a, e, c) PROVE PortalInv(case)'
  <2> DEFINE status == IF app[a].status = "none" THEN "PENDING" ELSE app[a].status
             x == PortalFiled(app[a], e, c, status)
  <2>1. app' = [app EXCEPT ![a] = x]
    BY <1>5, Zenon DEF Portal!ApplyWithReceipt, PortalFiled
  <2>2. status \in {"none", "PENDING", "APPROVED", "REJECTED"} /\ c \in case.Receipts \cup {"none"}
    BY <1>3 DEF PortalForm
  <2> HIDE DEF status
  <2>3. x \in PortalForm(case) /\ x.email = e
    BY <1>3, <2>2, PortalFiledIs
  <2> HIDE DEF x
  <2>4. PortalFormsOK(case)'
    BY <2>1, <2>3, PortalOneForm
  <2> QED BY <1>1, <1>2, <2>4, PortalFormStep
<1> QED BY <1>4, <1>5

LEMMA PortalDecidedForm ==
  ASSUME NEW case, PortalInv(case), NEW a \in case.Applications,
         NEW status \in {"APPROVED", "REJECTED"}, app[a].status = "PENDING",
         app' = Portal(case)!DecidePartnerApplication(a, status)
  PROVE  PortalFormsOK(case)'
<1> DEFINE x == PortalDecided(app[a], status)
<1>1. app' = [app EXCEPT ![a] = x]
  <2>1. app' = [app EXCEPT ![a] = PortalDecided(app[a], IF app[a].status = "PENDING" THEN status
          ELSE app[a].status)]
    BY Zenon DEF Portal!DecidePartnerApplication, PortalDecided
  <2> QED BY <2>1
<1>2. app[a] \in PortalForm(case)
  BY DEF PortalInv, PortalFormsOK
<1>3. x \in PortalForm(case) /\ x.status = status
  BY <1>2, PortalDecidedIs
<1> HIDE DEF x
<1> QED BY <1>1, <1>3, PortalOneForm

LEMMA PortalDecidingStep ==
  ASSUME NEW case, Portal(case)!PartnerPortalAssumption, PortalInv(case), Portal(case)!Deciding
  PROVE  PortalInv(case)'
<1> PICK a \in case.Applications : Portal(case)!Approve(a) \/ Portal(case)!Reject(a)
  BY DEF Portal!Deciding
<1>1. app[a].status = "PENDING"
        /\ UNCHANGED <<portalClock, portalSess, mailbox, cut, portalReq, wrk>>
  BY DEF Portal!Approve, Portal!Reject, Portal!PartnerApplicationByID
<1>2. PortalWishesOK(case)' /\ portalClock' \in Int
  BY <1>1 DEF PortalInv, PortalWishesOK
<1>3. CASE Portal(case)!Approve(a)
  <2> DEFINE e == app[a].email
  <2>1. e \in case.Emails
    BY <1>1 DEF PortalInv, PortalFormsOK
  <2>2. PortalFormsOK(case)'
    BY <1>1, <1>3, PortalDecidedForm DEF Portal!Approve
  <2>3. Portal(case)!reserveEmailIdentity(e, a) /\ Portal(case)!InvitePartnerUser(a, e, "ADMIN")
          /\ Portal(case)!queuePartnerLogin(a, e, "APPROVED")
    BY <1>3, Zenon DEF Portal!Approve
  <2> HIDE DEF e
  <2>4. /\ UNCHANGED user
           \/ (Portal(case)!reserveEmailIdentity(e, a)
           /\ Portal(case)!InvitePartnerUser(a, e, "ADMIN"))
        /\ UNCHANGED job \/ Portal(case)!queuePartnerLogin(a, e, "APPROVED")
        /\ UNCHANGED <<portalClock, portalSess, mailbox, cut, wrk>>
    BY <1>1, <2>3
  <2>5. "ADMIN" \in {"ADMIN", "VIEWER"} /\ "APPROVED" \in {"APPROVED", "INVITED", "SIGN_IN"}
    OBVIOUS
  <2> QED BY <1>2, <2>1, <2>2, <2>4, <2>5, PortalMailStep
<1>4. CASE Portal(case)!Reject(a)
  <2>1. PortalFormsOK(case)' /\ UNCHANGED <<user, job>>
    BY <1>1, <1>4, PortalDecidedForm DEF Portal!Reject
  <2> QED BY <1>1, <1>2, <2>1, PortalFormStep
<1> QED BY <1>3, <1>4

LEMMA PortalManagingStep ==
  ASSUME NEW case, Portal(case)!PartnerPortalAssumption, PortalInv(case), Portal(case)!Managing
  PROVE  PortalInv(case)'
<1> PICK a \in case.Applications,
      e \in case.Emails : Portal(case)!RemoveUser(a, e)
      \/ \E role \in {"ADMIN", "VIEWER"} : Portal(case)!InviteUser(a, e, role)
  BY DEF Portal!Managing
<1>1. UNCHANGED <<portalClock, app, mailbox, portalReq, wrk>>
  BY DEF Portal!RemoveUser, Portal!InviteUser
<1>2. PortalWishesOK(case)' /\ PortalFormsOK(case)'
  BY <1>1 DEF PortalInv, PortalWishesOK, PortalFormsOK
<1>3. CASE Portal(case)!RemoveUser(a, e)
  <2>1. Portal(case)!Removed(a, e) /\ UNCHANGED <<portalClock, app, job, mailbox, wrk>>
    BY <1>3 DEF Portal!RemoveUser
  <2> QED BY <1>2, <2>1, PortalRemoveStep
<1>4. ASSUME NEW role \in {"ADMIN", "VIEWER"}, Portal(case)!InviteUser(a, e, role)
      PROVE  PortalInv(case)'
  <2>1. /\ UNCHANGED user
           \/ (Portal(case)!reserveEmailIdentity(e, a)
           /\ Portal(case)!InvitePartnerUser(a, e, role))
        /\ UNCHANGED job \/ Portal(case)!queuePartnerLogin(a, e, "INVITED")
        /\ UNCHANGED <<portalClock, portalSess, mailbox, cut, wrk>>
    BY <1>4 DEF Portal!InviteUser
  <2>2. "INVITED" \in {"APPROVED", "INVITED", "SIGN_IN"}
    OBVIOUS
  <2> QED BY <1>2, <2>1, <2>2, PortalMailStep
<1> QED BY <1>3, <1>4

LEMMA PortalStep ==
  ASSUME NEW case, Portal(case)!PartnerPortalAssumption, PortalInv(case),
         \/ Portal(case)!Applying \/ Portal(case)!Deciding \/ Portal(case)!Managing
            \/ Portal(case)!Entering \/ Portal(case)!Waiting \/ Portal(case)!Administering
            \/ Portal(case)!Asking \/ Portal(case)!Working \/ Portal(case)!Posting
         \/ Portal(case)!Tick \/ \E w \in case.Workers : Portal(case)!Crash(w)
  PROVE  PortalInv(case)'
<1>1. CASE Portal(case)!Entering
  BY <1>1, PortalSignOutStep, PortalAcceptStep, Zenon DEF Portal!Entering
<1>2. CASE Portal(case)!Waiting
  <2> PICK r \in case.Requests, s \in Portal(case)!PartnerSessions :
         \/ Portal(case)!authenticatePartner(r, s, "profile", "none", "VIEWER")
         \/ \E e \in case.Emails : Portal(case)!authenticatePartner(r, s, "remove", e, "VIEWER")
            \/ \E role \in {"ADMIN", "VIEWER"} : Portal(case)!authenticatePartner(r, s, "invite",
            e, role)
    BY <1>2, Zenon DEF Portal!Waiting
  <2>1. ASSUME NEW e \in case.Emails \cup {"none"}, NEW role \in {"ADMIN", "VIEWER"},
               NEW op \in {"profile", "remove", "invite"},
               Portal(case)!authenticatePartner(r, s, op, e, role),
               op # "profile" => e \in case.Emails
        PROVE  PortalInv(case)'
    BY <2>1, PortalRequestStep, Zenon
  <2>3. ASSUME Portal(case)!authenticatePartner(r, s, "profile", "none", "VIEWER")
        PROVE  PortalInv(case)'
    BY <2>1, <2>3
  <2>4. ASSUME NEW e \in case.Emails, Portal(case)!authenticatePartner(r, s, "remove", e, "VIEWER")
        PROVE  PortalInv(case)'
    BY <2>1, <2>4
  <2>5. ASSUME NEW e \in case.Emails, NEW role \in {"ADMIN", "VIEWER"},
               Portal(case)!authenticatePartner(r, s, "invite", e, role) PROVE PortalInv(case)'
    BY <2>1, <2>5
  <2> QED BY <2>3, <2>4, <2>5
<1>3. CASE Portal(case)!Administering
  BY <1>3, PortalAdministeringStep, Zenon DEF Portal!Administering
<1>4. CASE Portal(case)!Asking
  BY <1>4, PortalRequestedStep, PortalRequestStep, Zenon DEF Portal!Asking
<1>5. CASE Portal(case)!Working
  BY <1>5, PortalSentStep, PortalClaimStep, PortalSendStep, Zenon DEF Portal!Working
<1>6. CASE Portal(case)!Posting
  <2>1. TRUE \in BOOLEAN
    OBVIOUS
  <2> QED BY <1>6, <2>1, PortalSentStep, PortalClaimStep, PortalSendStep, Zenon DEF Portal!Posting
<1>7. CASE Portal(case)!Tick
  <2>1. portalClock' \in Int
          /\ UNCHANGED <<app, user, job, portalSess, mailbox, cut, portalReq, wrk>>
    BY <1>7 DEF Portal!Tick, PortalInv
  <2>2. PortalFormsOK(case)' /\ PortalWishesOK(case)'
    BY <2>1 DEF PortalInv, PortalFormsOK, PortalWishesOK
  <2> QED BY <2>1, <2>2, PortalFormStep
<1> QED BY <1>1, <1>2, <1>3, <1>4, <1>5, <1>6, <1>7, PortalApplyingStep, PortalDecidingStep,
      PortalManagingStep, PortalCrashStep

\* What the invariant says of the properties.
LEMMA PortalMeans ==
  ASSUME NEW case, Portal(case)!PartnerPortalAssumption, PortalInv(case)
  PROVE  Portal(case)!RemovalCutsOff /\ Portal(case)!LinkUsedOnce /\ Portal(case)!SendsBounded
         /\ Portal(case)!OnePartnerPerEmail
<1>1. Portal(case)!RemovalCutsOff
  BY PortalKnown DEF Portal!RemovalCutsOff, Portal!AuthenticatedPartnerUser
<1>2. Portal(case)!LinkUsedOnce
  BY DEF PortalInv, PortalLinksKnown
<1>3. Portal(case)!SendsBounded
  <2> SUFFICES ASSUME NEW j \in Portal(case)!Jobs PROVE mailbox[j] <= case.MaxAttempts
    BY DEF Portal!SendsBounded
  <2>1. mailbox[j] + Cardinality(PortalSending(case, j)) <= job[j].attempts
          /\ job[j].attempts <= case.MaxAttempts /\ mailbox[j] \in Nat
    BY DEF PortalSendsCounted, PortalInv
  <2>2. job[j].attempts \in Nat /\ case.MaxAttempts \in Nat
    BY DEF PortalInv, PortalLettersOK, PortalLetter, Portal!PartnerPortalAssumption
  <2> QED BY <2>1, <2>2, PortalSendingFinite
<1>4. Portal(case)!OnePartnerPerEmail
  <2> SUFFICES ASSUME NEW e \in case.Emails
               PROVE  Cardinality({a \in case.Applications : user[<<a,
                      e>>].state = "enabled"}) <= IF e \in case.Taken THEN 0 ELSE 1
    BY PortalCounts DEF Portal!OnePartnerPerEmail
  <2> DEFINE A == {a \in case.Applications : user[<<a, e>>].state = "enabled"}
  <2>1. \A a, b \in A : e \notin case.Taken /\ a = b
    BY DEF PortalInv, PortalUsersOK
  <2> HIDE DEF A
  <2>2. CASE A = {}
    <3>1. Cardinality(A) = 0
      BY <2>2, FS_EmptySet
    <3>2. Cardinality(A) <= IF e \in case.Taken THEN 0 ELSE 1
      BY <3>1
    <3> QED BY <3>2 DEF A
  <2>3. ASSUME NEW a \in A PROVE Cardinality(A) = 1 /\ e \notin case.Taken
    <3>1. A = {a}
      BY <2>1
    <3> QED BY <2>1, <3>1, FS_Singleton
  <2>4. ASSUME NEW a \in A PROVE Cardinality(A) <= IF e \in case.Taken THEN 0 ELSE 1
    BY <2>3, <2>4
  <2> QED BY <2>2, <2>4 DEF A
<1> QED BY <1>1, <1>2, <1>3, <1>4

\* Who administers still administers when they remove or demote another.
LEMMA PortalAdministratorActs ==
  ASSUME NEW case, Portal(case)!PartnerPortalAssumption, PortalInv(case), NEW r \in case.Requests,
         Portal(case)!PortalInvite(r) \/ Portal(case)!PortalRemove(r)
  PROVE  \E x \in case.Emails :
           /\ user'[<<portalSess[portalReq[r].s].org, x>>].state = "enabled"
           /\ user'[<<portalSess[portalReq[r].s].org, x>>].role = "ADMIN"
<1> DEFINE s == portalReq[r].s
           a == portalSess[s].org
           x == portalSess[s].email
           e == portalReq[r].target
           role == portalReq[r].role
<1>1. /\ portalReq[r].op \in {"invite", "remove"} /\ portalSess[s] # Portal(case)!NoSession
      /\ user[<<a, x>>].state = "enabled" /\ user[<<a, x>>].role = "ADMIN"
  BY Zenon DEF Portal!PortalInvite, Portal!PortalRemove, Portal!partnerAdminTransaction, Portal!Admin,
     Portal!AuthenticatedPartnerUser
<1>2. s \in Portal(case)!PartnerSessions /\ e \in case.Emails /\ role \in {"ADMIN", "VIEWER"}
  BY <1>1 DEF PortalInv, PortalWishesOK, PortalWish
<1>3. a \in case.Applications /\ x \in case.Emails
  BY <1>1, <1>2, PortalKnown
<1>4. user \in [PortalUsers(case) -> PortalUser(case)]
  BY DEF PortalInv, PortalUsersOK
<1>5. <<a, x>> \in PortalUsers(case) /\ <<a, e>> \in PortalUsers(case)
  BY <1>2, <1>3 DEF PortalUsers
<1>6. \/ UNCHANGED user
      \/ /\ e = x => role = "ADMIN"
         /\ user' = [user EXCEPT ![<<a, e>>] = PortalEnabled(user[<<a, e>>], role)]
      \/ /\ e # x
         /\ user' = [user EXCEPT ![<<a, e>>] = PortalCleared(user[<<a, e>>], "disabled", 0, 0)]
  BY Zenon DEF Portal!PortalInvite, Portal!PortalRemove, Portal!InvitePartnerUser, Portal!Removed,
     Portal!DisablePartnerUser, PortalEnabled, PortalCleared
<1>7. <<a, e>> = <<a, x>> <=> e = x
  OBVIOUS
<1>8. PortalEnabled(user[<<a, e>>], role).state = "enabled"
        /\ PortalEnabled(user[<<a, e>>], role).role = role
  BY <1>4, <1>5 DEF PortalEnabled, PortalUser
<1> HIDE DEF s, a, x, e, role
<1>9. user'[<<a, x>>].state = "enabled" /\ user'[<<a, x>>].role = "ADMIN"
  BY <1>1, <1>4, <1>5, <1>6, <1>7, <1>8
<1> QED BY <1>3, <1>9 DEF a, s

LEMMA PortalAdministratorStays ==
  ASSUME NEW case, Portal(case)!PartnerPortalAssumption, PortalInv(case),
         \/ Portal(case)!Applying \/ Portal(case)!Deciding \/ Portal(case)!Managing
            \/ Portal(case)!Entering \/ Portal(case)!Waiting \/ Portal(case)!Administering
         \/ Portal(case)!Posting
  PROVE  Portal(case)!AdministratorKept
<1>1. portalReq \in [case.Requests -> PortalWish(case)]
  BY DEF PortalInv, PortalWishesOK
<1> SUFFICES ASSUME NEW r \in case.Requests, portalReq[r].op \in {"invite", "remove"},
                    portalReq'[r].op = "idle",
                    NEW x \in case.Emails,
                    user[<<portalSess[portalReq[r].s].org, x>>].state = "enabled",
                    user[<<portalSess[portalReq[r].s].org, x>>].role = "ADMIN"
             PROVE  \E y \in case.Emails :
                      /\ user'[<<portalSess[portalReq[r].s].org, y>>].state = "enabled"
                      /\ user'[<<portalSess[portalReq[r].s].org, y>>].role = "ADMIN"
  BY DEF Portal!AdministratorKept
<1>2. portalReq' # portalReq
  OBVIOUS
<1>3. Portal(case)!Waiting \/ Portal(case)!Administering
  BY <1>2 DEF Portal!Applying, Portal!Apply, Portal!ApplyWithReceipt, Portal!Deciding, Portal!Approve,
     Portal!Reject, Portal!Managing, Portal!RemoveUser, Portal!InviteUser, Portal!Entering,
     Portal!SignOut, Portal!AcceptInvite, Portal!Posting, Portal!claim, Portal!Send,
     Portal!DeliverNext
<1>4. CASE Portal(case)!Waiting
  <2>1. UNCHANGED user
    BY <1>4 DEF Portal!Waiting, Portal!authenticatePartner
  <2> QED BY <2>1
<1>5. ASSUME NEW q \in case.Requests,
             Portal(case)!Refused(q) \/ Portal(case)!PortalInvite(q) \/ Portal(case)!PortalRemove(q)
             \/ Portal(case)!SaveProfile(q)
      PROVE  \E y \in case.Emails :
               /\ user'[<<portalSess[portalReq[r].s].org, y>>].state = "enabled"
               /\ user'[<<portalSess[portalReq[r].s].org, y>>].role = "ADMIN"
  <2>1. portalReq' = [portalReq EXCEPT ![q] = Portal(case)!NoRequest]
    BY <1>5 DEF Portal!Refused, Portal!PortalInvite, Portal!PortalRemove, Portal!SaveProfile
  <2>2. q = r
    BY <1>1, <2>1
  <2>3. CASE Portal(case)!Refused(q) \/ Portal(case)!SaveProfile(q)
    <3>1. UNCHANGED user
      BY <2>3 DEF Portal!Refused, Portal!SaveProfile
    <3> QED BY <3>1
  <2>4. CASE Portal(case)!PortalInvite(q) \/ Portal(case)!PortalRemove(q)
    BY <2>2, <2>4, PortalAdministratorActs
  <2> QED BY <1>5, <2>3, <2>4
<1> QED BY <1>3, <1>4, <1>5, Zenon DEF Portal!Administering

-----------------------------------------------------------------------------
(***************************************************************************)
(* The whole: each component keeps its invariant by its own steps, and the *)
(* steps of another leave its variables alone.                             *)
(***************************************************************************)
AccessInv ==
  /\ SignedInv(SessionCase)
  /\ part = "passkeys" => WayInv(PasskeyCase)
  /\ part = "copies" => WayInv(CopyCase)
  /\ part = "accounts" => WayInv(PasswordCase)
  /\ part = "phones" => PhoneInv(PhoneCase)
  /\ part = "links" => LinksInv(LinkCase)
  /\ part = "limit" => LinksInv(LimitCase)
  /\ part = "addresses" => AddressInv(AddressCase)
  /\ part = "portal" => PortalInv(PortalCase)
  /\ part = "applications" => PortalInv(ApplyingCase)
  /\ part = "partner links" => PortalInv(MailedCase)

LEMMA SignedUndisturbed ==
  ASSUME NEW case, SignedInv(case), UNCHANGED sessionVars
  PROVE  SignedInv(case)'
BY DEF sessionVars, SignedInv, SignedHonoured, Signed!Lives

LEMMA AddressUndisturbed ==
  ASSUME NEW case, AddressInv(case), UNCHANGED addressVars
  PROVE  AddressInv(case)'
<1>1. AddressTyped(case)'
  BY DEF addressVars, AddressInv, AddressTyped
<1>2. Address(case)!OneRole' /\ Address(case)!ProvedTwice'
  BY DEF addressVars, AddressInv, Address!OneRole, Address!ProvedTwice
<1>3. \A c \in case.Changes : change[c].stage # "NONE" => AddressMade(case, c)'
  BY DEF addressVars, AddressInv, AddressMade
<1>4. \A i \in inbox : AddressGenuine(case, i)'
  BY DEF addressVars, AddressInv, AddressGenuine, AddressProof
<1>5. /\ \A w \in case.Workers : AddressSendable(case, addressWork[w])'
      /\ \A p \in case.Confirmers : AddressPresented(case, conf[p])'
  BY DEF addressVars, AddressInv, AddressSendable, AddressPresented, AddressProof
<1>6. \A c \in case.Changes : change[c].stage = "NEW" => AddressProof(c, "CURRENT")' \in inbox
  BY DEF addressVars, AddressInv, AddressProof
<1> QED BY <1>1, <1>2, <1>3, <1>4, <1>5, <1>6 DEF addressVars, AddressInv

LEMMA LinksUndisturbed == ASSUME NEW case, LinksInv(case), UNCHANGED linkVars PROVE LinksInv(case)'
<1>1. LinksTyped(case)' /\ LinkOpenIsFresh(case)' /\ Link(case)!OneOfTheOpen'
  BY DEF linkVars, LinksInv, LinksTyped, LinkOpenIsFresh, Link!OneOfTheOpen
<1>2. Link(case)!NotFlooded'
  BY DEF linkVars, LinksInv, Link!NotFlooded
<1> QED BY <1>1, <1>2 DEF LinksInv

LEMMA PhoneUndisturbed ==
  ASSUME NEW case, PhoneInv(case), UNCHANGED credentialVars
  PROVE  PhoneInv(case)'
<1>1. PhoneTyped(case)' /\ PhoneCodesCounted(case)'
  BY DEF credentialVars, PhoneInv, PhoneTyped, PhoneCodesCounted
<1>2. Credential(case)!SignsInOnce'
  BY DEF credentialVars, PhoneInv, Credential!SignsInOnce
<1>3. \A s \in case.Sessions : PhoneUsedUp(case, credentialSess[s].proof)'
  BY DEF credentialVars, PhoneInv, PhoneUsedUp
<1> QED BY <1>1, <1>2, <1>3 DEF PhoneInv

LEMMA WayUndisturbed ==
  ASSUME NEW case, WayInv(case), UNCHANGED credentialVars
  PROVE  WayInv(case)'
<1>1. WayTyped(case)'
  BY DEF credentialVars, WayInv, WayTyped
<1>2. (\A r \in case.Requests : WayWaits(case, r)') /\ WayApart(case)'
  BY DEF credentialVars, WayInv, WayWaits, WayApart
<1>3. (\A s \in case.Sessions : WayCounted(case, s)') /\ Credential(case)!CountsOnce'
  BY DEF credentialVars, WayInv, WayCounted, Credential!CountsOnce
<1> QED BY <1>1, <1>2, <1>3 DEF WayInv

LEMMA PortalUndisturbed ==
  ASSUME NEW case, PortalInv(case), UNCHANGED portalVars
  PROVE  PortalInv(case)'
<1>1. PortalFormsOK(case)' /\ PortalUsersOK(case)' /\ PortalLettersOK(case)'
        /\ PortalWishesOK(case)' /\ PortalTasksOK(case)'
  BY DEF portalVars, PortalInv, PortalFormsOK, PortalUsersOK, PortalLettersOK, PortalWishesOK,
     PortalTasksOK
<1>2. PortalSendsCounted(case)'
  BY DEF portalVars, PortalInv, PortalSendsCounted, PortalSending
<1>3. PortalLinksKnown(case)'
  BY DEF portalVars, PortalInv, PortalLinksKnown, Portal!LinkUsedOnce
<1> QED BY <1>1, <1>2, <1>3 DEF portalVars, PortalInv

LEMMA AccessStarts == AccessInit => AccessInv
<1> SUFFICES ASSUME AccessInit PROVE AccessInv
  OBVIOUS
<1>1. SignedInv(SessionCase)
  BY Instances, SignedInit DEF AccessInit
<1>2. part = "phones" => PhoneInv(PhoneCase)
  BY Instances, PhoneInit DEF AccessInit
<1>3. (part = "links" => LinksInv(LinkCase)) /\ (part = "limit" => LinksInv(LimitCase))
  BY Instances, LinksInit DEF AccessInit
<1>4. part = "addresses" => AddressInv(AddressCase)
  BY Instances, AddressInit DEF AccessInit
<1>5. /\ part = "portal" => PortalInv(PortalCase)
      /\ part = "applications" => PortalInv(ApplyingCase)
      /\ part = "partner links" => PortalInv(MailedCase)
  BY Instances, PortalInit DEF AccessInit
<1>6. /\ part = "passkeys" => WayInv(PasskeyCase)
      /\ part = "copies" => WayInv(CopyCase)
      /\ part = "accounts" => WayInv(PasswordCase)
  BY Instances, WayInit DEF AccessInit
<1> QED BY <1>1, <1>2, <1>3, <1>4, <1>5, <1>6 DEF AccessInv

\* What a sign-in other than by a phone does, in the three instances.
LEMMA WayMoves ==
  ASSUME [AccessNext]_accessVars
  PROVE  /\ part = "passkeys" => Credential(PasskeyCase)!Passkeys
              \/ Credential(PasskeyCase)!AccountChanges \/ UNCHANGED credentialVars
         /\ part = "copies" => Credential(CopyCase)!Passkeys
              \/ Credential(CopyCase)!AccountChanges \/ UNCHANGED credentialVars
         /\ part = "accounts" =>
              Credential(PasswordCase)!Passwords \/ Credential(PasswordCase)!Providers
              \/ Credential(PasswordCase)!AccountChanges \/ UNCHANGED credentialVars
BY DEF AccessNext, accessVars

LEMMA PortalMoves ==
  ASSUME [AccessNext]_accessVars, part = "portal"
  PROVE  \/ Portal(PortalCase)!Applying \/ Portal(PortalCase)!Deciding
            \/ Portal(PortalCase)!Managing
         \/ Portal(PortalCase)!Entering \/ Portal(PortalCase)!Waiting
            \/ Portal(PortalCase)!Administering
         \/ Portal(PortalCase)!Posting \/ UNCHANGED portalVars
BY DEF AccessNext, accessVars

\* A step of one component keeps what holds of it, and all else as it is.
LEMMA AccessKeeps == AccessInv /\ [AccessNext]_accessVars => AccessInv'
<1> SUFFICES ASSUME AccessInv, [AccessNext]_accessVars PROVE AccessInv'
  OBVIOUS
<1>1. part' = part
  BY Zenon DEF AccessNext, accessVars
<1>2. SignedInv(SessionCase)'
  <2>1. Signed(SessionCase)!Next \/ UNCHANGED sessionVars
    BY Zenon DEF AccessNext, accessVars
  <2> QED BY <2>1, Instances, SignedStep, SignedUndisturbed, Zenon DEF AccessInv
<1>3. part = "phones" => PhoneInv(PhoneCase)'
  <2>1. part = "phones" => Credential(PhoneCase)!PhoneCodes \/ Credential(PhoneCase)!AccountChanges
          \/ UNCHANGED credentialVars
    BY DEF AccessNext, accessVars
  <2> QED BY <2>1, Instances, PhoneStep, PhoneUndisturbed, Zenon DEF AccessInv
<1>4. part = "links" => LinksInv(LinkCase)'
  <2>1. part = "links" => Link(LinkCase)!Next \/ UNCHANGED linkVars
    BY DEF AccessNext, accessVars
  <2> QED BY <2>1, Instances, LinksStep, LinksUndisturbed, Zenon DEF AccessInv
<1>5. part = "limit" => LinksInv(LimitCase)'
  <2>1. part = "limit" => Link(LimitCase)!Next \/ UNCHANGED linkVars
    BY DEF AccessNext, accessVars
  <2> QED BY <2>1, Instances, LinksStep, LinksUndisturbed, Zenon DEF AccessInv
<1>6. part = "addresses" => AddressInv(AddressCase)'
  <2>1. part = "addresses" => Address(AddressCase)!Moves \/ UNCHANGED addressVars
    BY DEF AccessNext, accessVars
  <2> QED BY <2>1, Instances, AddressStep, AddressUndisturbed, Zenon DEF AccessInv
<1>7. part = "portal" => PortalInv(PortalCase)'
  BY PortalMoves, Instances, PortalStep, PortalUndisturbed, Zenon DEF AccessInv
<1>8. part = "applications" => PortalInv(ApplyingCase)'
  <2>1. part = "applications" =>
          \/ Portal(ApplyingCase)!Applying \/ Portal(ApplyingCase)!Deciding
             \/ Portal(ApplyingCase)!Managing
          \/ UNCHANGED portalVars
    BY DEF AccessNext, accessVars
  <2> QED BY <2>1, Instances, PortalStep, PortalUndisturbed, Zenon DEF AccessInv
<1>9. part = "partner links" => PortalInv(MailedCase)'
  <2>1. part = "partner links" =>
          \/ Portal(MailedCase)!Applying \/ Portal(MailedCase)!Deciding \/ Portal(MailedCase)!Asking
          \/ Portal(MailedCase)!Working \/ Portal(MailedCase)!Tick
          \/ (\E w \in MailedCase.Workers : Portal(MailedCase)!Crash(w)) \/ UNCHANGED portalVars
    BY DEF AccessNext, accessVars
  <2> QED BY <2>1, Instances, PortalStep, PortalUndisturbed, Zenon DEF AccessInv
<1>10. /\ part = "passkeys" => WayInv(PasskeyCase)'
       /\ part = "copies" => WayInv(CopyCase)'
       /\ part = "accounts" => WayInv(PasswordCase)'
  BY WayMoves, Instances, WayStep, WayUndisturbed, Zenon DEF AccessInv
<1> QED BY <1>1, <1>2, <1>3, <1>4, <1>5, <1>6, <1>7, <1>8, <1>9, <1>10 DEF AccessInv

LEMMA AccessInvariant == AccessSpec => []AccessInv
<1> QED BY AccessStarts, AccessKeeps, PTL DEF AccessSpec

\* Nobody signed out or removed gets on: what waits for the donor is honoured for
\* a session that lives or that its own client ended, and a removed partner's
\* sessions and links open nothing (lockSignedIn, SignOutEverywhere,
\* RevokePartnerUserSessions).
THEOREM NobodySlipsThrough == AccessSpec => []WaitersHonour
<1>1. AccessInv => WaitersHonour
  <2> SUFFICES ASSUME AccessInv PROVE WaitersHonour
    OBVIOUS
  <2>1. Signed(SessionCase)!WaitersHonour
    BY DEF AccessInv, SignedInv, SignedHonoured, Signed!WaitersHonour
  <2>2. part = "portal" => Portal(PortalCase)!RemovalCutsOff
    BY Instances, PortalMeans DEF AccessInv
  <2> QED BY <2>1, <2>2 DEF WaitersHonour
<1> QED BY <1>1, AccessInvariant, PTL

\* When a session is issued the donor still holds what was presented, a ceremony
\* and a position of a passkey's counter sign in once, and a partner's
\* administrators leave one of them there (FinishSignIn, PasswordSignIn,
\* OIDCSignIn, partnerAdminTransaction).
THEOREM HeldAtUse == AccessSpec => HeldWhenUsed
<1>1. AccessInv /\ [AccessNext]_accessVars =>
        \/ /\ part = "passkeys" => Credential(PasskeyCase)!Presented
           /\ part = "copies" => Credential(CopyCase)!Presented /\ Credential(CopyCase)!CountsOnce
           /\ part = "accounts" => Credential(PasswordCase)!Presented
           /\ part = "portal" => Portal(PortalCase)!AdministratorKept
        \/ UNCHANGED accessVars
  <2> SUFFICES ASSUME AccessInv, [AccessNext]_accessVars
               PROVE  /\ part = "passkeys" => Credential(PasskeyCase)!Presented
                      /\ part = "copies" =>
                           Credential(CopyCase)!Presented /\ Credential(CopyCase)!CountsOnce
                      /\ part = "accounts" => Credential(PasswordCase)!Presented
                      /\ part = "portal" => Portal(PortalCase)!AdministratorKept
    OBVIOUS
  <2>1. ASSUME NEW case, UNCHANGED credentialVars PROVE Credential(case)!Presented
    BY <2>1, WayAllHeld DEF credentialVars
  <2>2. ASSUME NEW case, UNCHANGED portalVars PROVE Portal(case)!AdministratorKept
    BY <2>2 DEF portalVars, Portal!AdministratorKept
  <2>3. /\ part = "passkeys" => Credential(PasskeyCase)!Presented
        /\ part = "copies" => Credential(CopyCase)!Presented
        /\ part = "accounts" => Credential(PasswordCase)!Presented
    BY <2>1, WayMoves, Instances, WayPresents, Zenon DEF AccessInv
  <2>4. part = "copies" => Credential(CopyCase)!CountsOnce
    BY DEF AccessInv, WayInv
  <2>5. part = "portal" => Portal(PortalCase)!AdministratorKept
    BY <2>2, PortalMoves, Instances, PortalAdministratorStays, Zenon DEF AccessInv
  <2> QED BY <2>3, <2>4, <2>5
<1> QED BY <1>1, AccessInvariant, PTL DEF AccessSpec, HeldWhenUsed

\* Of the open sign-in links one is used, no hour mints more than it may, a code
\* signs in once and is guessed a few times, and a partner's link is mailed a
\* few times and used once (claim, QueueLoginEmail, FinishSignIn,
\* ClaimPartnerLoginEmail, AcceptInvite).
THEOREM WaysInAreLimited == AccessSpec => []LinksLimited
<1>1. AccessInv => LinksLimited
  <2> SUFFICES ASSUME AccessInv PROVE LinksLimited
    OBVIOUS
  <2>1. /\ part = "links" => Link(LinkCase)!OneOfTheOpen
        /\ part = "limit" => Link(LimitCase)!NotFlooded
    BY DEF AccessInv, LinksInv
  <2>2. part = "phones" => Credential(PhoneCase)!GuessesBounded /\ Credential(PhoneCase)!SignsInOnce
    BY DEF AccessInv, PhoneInv, PhoneCodesCounted, Credential!GuessesBounded
  <2>3. /\ part = "partner links" => Portal(MailedCase)!SendsBounded
        /\ part = "portal" => Portal(PortalCase)!LinkUsedOnce
    BY Instances, PortalMeans DEF AccessInv
  <2> QED BY <2>1, <2>2, <2>3 DEF LinksLimited
<1> QED BY <1>1, AccessInvariant, PTL

\* An address has one owner, moves when a proof reached both addresses, and is a
\* user of one organization (reserveEmailIdentity, Confirm, Approve).
THEOREM AddressesHaveOneOwner == AccessSpec => []OneOwnerPerAddress
<1>1. AccessInv => OneOwnerPerAddress
  <2> SUFFICES ASSUME AccessInv PROVE OneOwnerPerAddress
    OBVIOUS
  <2>1. part = "addresses" => Address(AddressCase)!OneRole /\ Address(AddressCase)!ProvedTwice
    BY DEF AccessInv, AddressInv
  <2>2. part = "applications" => Portal(ApplyingCase)!OnePartnerPerEmail
    BY Instances, PortalMeans DEF AccessInv
  <2> QED BY <2>1, <2>2 DEF OneOwnerPerAddress
<1> QED BY <1>1, AccessInvariant, PTL
=============================================================================
