---------------------------- MODULE StaffAccess ----------------------------
(***************************************************************************)
(* Staff accounts (internal/store/staff.go, staff_auth.go,                 *)
(* staff_access.go, tx.go): the first administrator, invitations, passkeys *)
(* added through them, sign-in, roles, disabling and recovery.             *)
(*                                                                         *)
(* A ceremony is deleted first and its account locked after, both in one   *)
(* transaction; from the account's lock to the commit is one step, except  *)
(* in BeginActivation, which is kept apart to show what it may wait for.   *)
(***************************************************************************)
EXTENDS Integers, FiniteSets

CONSTANTS
  Accounts, Keys, Invites, Sessions, Ceremonies,
  Requests,           \* requests in flight at once
  Actions,            \* what administrators do to other accounts
  maxInviteAttempts,
  ceremonyLifetime, inviteLifetime, staffSessionLifetime,
  MaxRecovers, MaxTime  \* bounds: break-glass recoveries, clock

StaffAccessAssumption ==
  /\ Actions \subseteq {"disable", "role", "recovery"} /\ "none" \notin Accounts \cup Invites
  /\ {maxInviteAttempts, ceremonyLifetime, inviteLifetime, staffSessionLifetime} \subseteq Nat \ {0}
  /\ {MaxRecovers, MaxTime} \subseteq Nat

VARIABLES
  clock, recovers,
  staff,     \* donor_staff, and how often each was recovered
  key,       \* donor_staff_passkeys, by credential
  invite,    \* donor_staff_invites
  ceremony,  \* donor_staff_ceremonies
  sess,      \* donor_staff_sessions
  req,
  lock       \* the request that holds each account's row

vars == <<clock, recovers, staff, key, invite, ceremony, sess, req, lock>>

NoStaff == [state |-> "none", role |-> "none", recovered |-> 0]
NoKey == [owner |-> "none", invite |-> "none", era |-> 0]
NoInvite == [of |-> "none", consumed |-> FALSE, attempts |-> 0, expires |-> 0, answers |-> 0, era |-> 0]
NoCeremony == [state |-> "none", kind |-> "none", invite |-> "none", expires |-> 0]
NoSession == [owner |-> "none", live |-> FALSE, expires |-> 0, era |-> 0]
Idle == [pc |-> "idle", of |-> "none", t |-> "none", with |-> "none", do |-> "none"]

Free(a) == lock[a] = "none"
Enabled(a) == staff[a].state = "enabled"
Active(a) == \E k \in Keys : key[k].owner = a
Found(r, pc, of, t, with, do) == req' = [req EXCEPT ![r] = [pc |-> pc, of |-> of, t |-> t, with |-> with, do |-> do]]
Answered(r) == req' = [req EXCEPT ![r] = Idle]
Quiet == UNCHANGED <<clock, recovers>>

(***************************************************************************)
(* Statements.                                                             *)
(***************************************************************************)
AuthenticatedStaff(s) == sess[s].live /\ clock < sess[s].expires /\ Enabled(sess[s].owner)
requireStaff(s) == AuthenticatedStaff(s) /\ staff[sess[s].owner].role = "SUPER_ADMIN"
RevokeStaffSessions(a) == [s \in Sessions |-> IF sess[s].owner = a THEN [sess[s] EXCEPT !.live = FALSE] ELSE sess[s]]
InvalidateStaffInvites(a) == [i \in Invites |-> IF invite[i].of = a THEN [invite[i] EXCEPT !.consumed = TRUE] ELSE invite[i]]
KeepInvites(a) == invite  \* mutant
Reinvited(a) == InvalidateStaffInvites(a)
InsertStaffInvite(table, i, a, era) == [table EXCEPT ![i] = [NoInvite EXCEPT !.of = a, !.expires = clock + inviteLifetime, !.era = era]]
DeleteStaffPasskeys(a) == [k \in Keys |-> IF key[k].owner = a THEN NoKey ELSE key[k]]
startStaffSession(s, a) ==
  [sess EXCEPT ![s] = [owner |-> a, live |-> TRUE, expires |-> clock + staffSessionLifetime, era |-> staff[a].recovered]]
DeleteExpiredStaffCeremonies ==
  [t \in Ceremonies |-> IF ceremony[t].state = "open" /\ ceremony[t].expires <= clock THEN [ceremony[t] EXCEPT !.state = "gone"] ELSE ceremony[t]]
(* A deletion waits for a ceremony that is being answered. *)
Sweepable == \A t \in Ceremonies : ceremony[t].state = "taken" => clock < ceremony[t].expires
Saved(t, kind, i) == [NoCeremony EXCEPT !.state = "open", !.kind = kind, !.invite = i, !.expires = clock + ceremonyLifetime]
Unused(t) == ceremony[t].state \notin {"open", "taken"}
(* Bound: what has begun can be saved. *)
Room == Cardinality({r \in Requests : req[r].pc \in {"swept", "holds"}}) < Cardinality({t \in Ceremonies : Unused(t)})
TakeStaffCeremony(t, kind) == ceremony[t].state = "open" /\ ceremony[t].kind = kind /\ clock < ceremony[t].expires
Spent(t) == [ceremony EXCEPT ![t].state = "spent"]
Restored(t) == [ceremony EXCEPT ![t].state = "open"]

takeCeremony(r, t, kind, k) ==
  /\ req[r] = Idle /\ TakeStaffCeremony(t, kind)
  /\ ceremony' = [ceremony EXCEPT ![t].state = "taken"]
  /\ Found(r, kind, "none", t, k, "none")
  /\ Quiet /\ UNCHANGED <<staff, key, invite, sess, lock>>

(***************************************************************************)
(* Signing in.                                                             *)
(***************************************************************************)
BeginSignIn(t) ==
  /\ Unused(t) /\ Room /\ Sweepable
  /\ ceremony' = [DeleteExpiredStaffCeremonies EXCEPT ![t] = Saved(t, "SIGN_IN", "none")]
  /\ Quiet /\ UNCHANGED <<staff, key, invite, sess, req, lock>>
StaffPasskeyOwner(r) ==
  /\ req[r].pc = "SIGN_IN"
  /\ IF key[req[r].with].owner = "none"
     THEN ceremony' = Spent(req[r].t) /\ Answered(r)
     ELSE Found(r, "owner", key[req[r].with].owner, req[r].t, req[r].with, "none") /\ UNCHANGED ceremony
  /\ Quiet /\ UNCHANGED <<staff, key, invite, sess, lock>>
lockStaffUser(a, k) == key[k].owner = a
SignIn(r, s) ==
  LET a == req[r].of
  IN /\ req[r].pc = "owner" /\ Free(a)
     /\ ceremony' = Spent(req[r].t)
     /\ \/ lockStaffUser(a, req[r].with) /\ Enabled(a) /\ sess[s] = NoSession /\ sess' = startStaffSession(s, a)
        \/ UNCHANGED sess  \* the assertion is invalid, or one of these fails
     /\ Answered(r)
     /\ Quiet /\ UNCHANGED <<staff, key, invite, lock>>
SignOut(s) ==
  /\ sess[s].live /\ sess' = [sess EXCEPT ![s].live = FALSE]
  /\ Quiet /\ UNCHANGED <<staff, key, invite, ceremony, req, lock>>

(***************************************************************************)
(* Invitations and the passkeys they add.                                  *)
(***************************************************************************)
inviteStaff(a, i, role) ==
  /\ staff[a] = NoStaff /\ invite[i] = NoInvite
  /\ staff' = [staff EXCEPT ![a] = [state |-> "enabled", role |-> role, recovered |-> 0]]
  /\ invite' = InsertStaffInvite(invite, i, a, 0)
  /\ Quiet /\ UNCHANGED <<key, ceremony, sess, req, lock>>
Bootstrap(a, i) == (\A b \in Accounts : staff[b] = NoStaff) /\ inviteStaff(a, i, "SUPER_ADMIN")
Invite(s, a, i) == requireStaff(s) /\ Free(sess[s].owner) /\ \E role \in {"SUPER_ADMIN", "VIEWER"} : inviteStaff(a, i, role)

lockInvitation(i) ==
  Enabled(invite[i].of) /\ ~invite[i].consumed /\ clock < invite[i].expires /\ invite[i].attempts < maxInviteAttempts

sweepCeremonies == Sweepable /\ ceremony' = DeleteExpiredStaffCeremonies
BeginActivation(r, i) ==
  /\ req[r] = Idle /\ invite[i] # NoInvite /\ Room /\ sweepCeremonies
  /\ Found(r, "swept", invite[i].of, "none", i, "none")
  /\ Quiet /\ UNCHANGED <<staff, key, invite, sess, lock>>
staffInvitation(r) ==
  /\ req[r].pc = "swept" /\ Free(req[r].of)
  /\ IF lockInvitation(req[r].with)
     THEN lock' = [lock EXCEPT ![req[r].of] = r] /\ req' = [req EXCEPT ![r].pc = "holds"]
     ELSE UNCHANGED lock /\ Answered(r)
  /\ Quiet /\ UNCHANGED <<staff, key, invite, ceremony, sess>>
InsertStaffCeremony(r, t) ==
  /\ req[r].pc = "holds" /\ Unused(t)
  /\ ceremony' = [ceremony EXCEPT ![t] = Saved(t, "ACTIVATION", req[r].with)]
  /\ lock' = [lock EXCEPT ![req[r].of] = "none"]
  /\ Answered(r)
  /\ Quiet /\ UNCHANGED <<staff, key, invite, sess>>

SaveSweeping(r, t) == Sweepable /\ InsertStaffCeremony(r, t)  \* mutant
saveCeremony(r, t) == InsertStaffCeremony(r, t)

SaveStaffInvite(i, done) == [invite EXCEPT ![i].consumed = done, ![i].attempts = @ + 1, ![i].answers = @ + 1]
(* A refusal of the invitation rolls back; one of the passkey is counted. *)
Activate(r, s) ==
  LET i == ceremony[req[r].t].invite
      a == invite[i].of
      k == req[r].with
  IN /\ req[r].pc = "ACTIVATION" /\ Free(a)
     /\ \/ /\ ~lockInvitation(i)
           /\ ceremony' = Restored(req[r].t) /\ UNCHANGED <<key, invite, sess>>
        \/ /\ lockInvitation(i) /\ key[k].owner = "none" /\ sess[s] = NoSession
           /\ key' = [key EXCEPT ![k] = [owner |-> a, invite |-> i, era |-> invite[i].era]]
           /\ invite' = SaveStaffInvite(i, TRUE)
           /\ sess' = startStaffSession(s, a) /\ ceremony' = Spent(req[r].t)
        \/ /\ lockInvitation(i)
           /\ invite' = SaveStaffInvite(i, FALSE)
           /\ ceremony' = Spent(req[r].t) /\ UNCHANGED <<key, sess>>
     /\ Answered(r)
     /\ Quiet /\ UNCHANGED <<staff, lock>>

(***************************************************************************)
(* Access.                                                                 *)
(***************************************************************************)
changeAccess(a, action, role, i) ==
  \/ /\ action = "disable" /\ staff' = [staff EXCEPT ![a].state = "disabled"]
     /\ sess' = RevokeStaffSessions(a) /\ UNCHANGED <<key, invite>>
  \/ /\ action = "role" /\ staff' = [staff EXCEPT ![a].role = role]
     /\ sess' = IF staff[a].role = role THEN sess ELSE RevokeStaffSessions(a)
     /\ UNCHANGED <<key, invite>>
  \/ /\ action = "recovery" /\ invite[i] = NoInvite
     /\ staff' = [staff EXCEPT ![a].state = "enabled", ![a].recovered = @ + 1]
     /\ key' = DeleteStaffPasskeys(a) /\ invite' = InsertStaffInvite(Reinvited(a), i, a, staff[a].recovered + 1)
     /\ sess' = RevokeStaffSessions(a)
Authorized(r, s, a, action) ==
  /\ req[r] = Idle /\ requireStaff(s) /\ action \in Actions
  /\ Found(r, "authorized", a, "none", s, action)
  /\ Quiet /\ UNCHANGED <<staff, key, invite, ceremony, sess, lock>>
LockStaffAccounts == \A a \in Accounts : Free(a)
OtherAdmins(a) == {b \in Accounts \ {a} : staff[b].role = "SUPER_ADMIN" /\ Enabled(b) /\ Active(b)}
AnyAccount(s, a) == requireStaff(s)  \* mutant
MayChange(s, a) == requireStaff(s) /\ a # sess[s].owner /\ OtherAdmins(a) # {}
ChangeAccess(r) ==
  LET a == req[r].of
      s == req[r].with
  IN /\ req[r].pc = "authorized" /\ LockStaffAccounts
     /\ IF MayChange(s, a) /\ staff[a] # NoStaff
        THEN \E role \in {"SUPER_ADMIN", "VIEWER"}, i \in Invites : changeAccess(a, req[r].do, role, i)
        ELSE UNCHANGED <<staff, key, invite, sess>>
     /\ Answered(r)
     /\ Quiet /\ UNCHANGED <<ceremony, lock>>
(* The operator's break-glass command. *)
Recover(a, i) ==
  /\ LockStaffAccounts /\ recovers < MaxRecovers /\ recovers' = recovers + 1
  /\ staff[a].role = "SUPER_ADMIN" /\ Enabled(a)
  /\ changeAccess(a, "recovery", "none", i)
  /\ UNCHANGED <<clock, ceremony, req, lock>>
Tick == clock < MaxTime /\ clock' = clock + 1 /\ UNCHANGED <<recovers, staff, key, invite, ceremony, sess, req, lock>>

Init ==
  /\ clock = 0 /\ recovers = 0
  /\ staff = [a \in Accounts |-> NoStaff] /\ key = [k \in Keys |-> NoKey] /\ invite = [i \in Invites |-> NoInvite]
  /\ ceremony = [t \in Ceremonies |-> NoCeremony] /\ sess = [s \in Sessions |-> NoSession]
  /\ req = [r \in Requests |-> Idle] /\ lock = [a \in Accounts |-> "none"]

Step(r) ==
  \/ StaffPasskeyOwner(r) \/ staffInvitation(r) \/ ChangeAccess(r)
  \/ \E s \in Sessions : SignIn(r, s) \/ Activate(r, s)
  \/ \E t \in Ceremonies : saveCeremony(r, t)
Next ==
  \/ \E r \in Requests : Step(r)
  \/ \E r \in Requests, i \in Invites : BeginActivation(r, i)
  \/ \E r \in Requests, t \in Ceremonies, k \in Keys : takeCeremony(r, t, "SIGN_IN", k) \/ takeCeremony(r, t, "ACTIVATION", k)
  \/ \E r \in Requests, s \in Sessions, a \in Accounts, action \in Actions : Authorized(r, s, a, action)
  \/ \E t \in Ceremonies : BeginSignIn(t)
  \/ \E a \in Accounts, i \in Invites : Bootstrap(a, i) \/ Recover(a, i) \/ \E s \in Sessions : Invite(s, a, i)
  \/ \E s \in Sessions : SignOut(s)
  \/ Tick
Spec == Init /\ [][Next]_vars

(***************************************************************************)
(* Properties.                                                             *)
(***************************************************************************)

(* The records have their types, and an invitation adds one passkey        *)
(* (Activate), whichever of its ceremonies are answered first.             *)
TypeOK ==
  /\ \A a \in Accounts : staff[a].state \in {"none", "enabled", "disabled"} /\ lock[a] \in Requests \cup {"none"}
  /\ \A s \in Sessions : sess[s].owner \in Accounts \cup {"none"}
  /\ \A k, l \in Keys : k # l /\ key[k] # NoKey => key[k].invite # key[l].invite

(* Rejected answers too count against the invitation (Activate).           *)
AttemptsBounded == \A i \in Invites : invite[i].answers <= maxInviteAttempts

(* Once an administrator signed in, an enabled administrator holds a       *)
(* passkey, however many disable, demote and recover each other at the     *)
(* same time (ChangeAccess), while no operator breaks the glass (Recover). *)
AdministratorKept ==
  recovers' = 0 /\ (\E a \in Accounts : staff[a].role = "SUPER_ADMIN" /\ Enabled(a) /\ Active(a)) =>
    (\E a \in Accounts : staff'[a].role = "SUPER_ADMIN" /\ staff'[a].state = "enabled" /\ \E k \in Keys : key'[k].owner = a)

(* What an account held before its recovery, the passkeys, sessions and    *)
(* invitations, opens it no more, and a disabled account has no session    *)
(* (changeAccess, SignIn, Activate).                                       *)
RecoveryCutsOff ==
  /\ \A s \in Sessions : sess[s].live => sess[s].era = staff[sess[s].owner].recovered /\ Enabled(sess[s].owner)
  /\ \A k \in Keys : key[k] # NoKey => key[k].era = staff[key[k].owner].recovered

(* Administrators who change each other's access at the same time leave    *)
(* one that can sign in (ChangeAccess).                                    *)
AnAdministratorStays == [][AdministratorKept]_vars

(* Nothing an account held before it was disabled or recovered opens it,   *)
(* and an invitation is answered a few times only, although requests       *)
(* looked up its key or its invitation before they waited for the account  *)
(* (changeAccess, SignIn, Activate).                                       *)
CutOffStays == RecoveryCutsOff /\ AttemptsBounded

(* No request waits for ever: none holds an account and waits for a        *)
(* ceremony whose answer waits for the account (sweepCeremonies).          *)
EveryRequestEnds == \A r \in Requests : (req[r] # Idle) ~> (req[r] = Idle)
=============================================================================
