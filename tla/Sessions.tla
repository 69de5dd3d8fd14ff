------------------------------ MODULE Sessions ------------------------------
(***************************************************************************)
(* One donor's sessions (internal/store/sessions.go, tx.go, account.go and *)
(* store.go): signing in, refreshing an app's tokens, and the four ways to *)
(* sign out, with the locks each takes.                                    *)
(*                                                                         *)
(* A session's tokens are numbered: token g of a session is the pair its   *)
(* g-th exchange issued. A refresh locks only the session's row; commands  *)
(* of a signed-in donor lock the donor and check the session again; a      *)
(* plain sign-out locks neither.                                           *)
(***************************************************************************)
EXTENDS Integers, FiniteSets, FiniteSetsExt

CONSTANTS
  Sessions, Apps,  \* sessions, and those of the app, which have refresh tokens
  Refreshes,       \* refresh requests that may be in flight at once
  Commands,        \* other requests that may be
  Kinds,           \* the commands donors give
  accessLifetime, refreshIdle, refreshLimit, refreshGrace, touchInterval,
  MaxTokens, MaxTime  \* bounds: exchanges of a session, clock

SessionsAssumption ==
  /\ Apps \subseteq Sessions /\ "none" \notin Commands
  /\ Kinds \subseteq {"SignOut", "SignOutSession", "SignOutOthers", "SignOutEverywhere"}
  /\ {refreshGrace, touchInterval, MaxTime} \subseteq Nat
  /\ {accessLifetime, refreshIdle, refreshLimit, MaxTokens} \subseteq Nat \ {0}
  /\ accessLifetime <= refreshIdle /\ refreshIdle <= refreshLimit

VARIABLES
  clock,
  sess,   \* donor_sessions
  held,   \* the token each client holds
  waits,  \* the refresh each app waits for
  ref,    \* refreshes in flight
  cmd,    \* commands in flight
  lock,   \* the command that holds the donor's row
  rows    \* the command that holds each session's row

vars == <<clock, sess, held, waits, ref, cmd, lock, rows>>

NoSession == [state |-> "NONE", token |-> 0, previous |-> 0, refreshedAt |-> 0,
              expires |-> 0, refreshExpires |-> 0, created |-> 0, used |-> 0, by |-> "none"]
NoRefresh == [pc |-> "idle", s |-> "none", token |-> 0]
NoCommand == [pc |-> "idle", kind |-> "none", s |-> "none", token |-> 0, of |-> "none"]
RowFree(s) == rows[s] = "none"

(***************************************************************************)
(* Statements. Revoking a session clears its push token (Push).            *)
(***************************************************************************)
Lives(s) == sess[s].state = "LIVE"
InsertSession(s) ==
  [sess EXCEPT ![s] = [NoSession EXCEPT !.state = "LIVE", !.token = 1, !.created = clock, !.used = clock,
                         !.expires = clock + (IF s \in Apps THEN accessLifetime ELSE refreshIdle),
                         !.refreshExpires = IF s \in Apps THEN clock + refreshIdle ELSE 0]]
AuthenticatedDonor(s, token) == Lives(s) /\ sess[s].token = token /\ clock < sess[s].expires
Revoked(S, how) == [s \in Sessions |-> IF s \in S /\ Lives(s) THEN [sess[s] EXCEPT !.state = "REVOKED", !.by = how] ELSE sess[s]]
RevokeSession(s, token) == IF sess[s].token = token THEN Revoked({s}, "SignOut") ELSE sess
RevokeSessionByID(s, how) == Revoked({s}, how)
RevokeOtherSessions(s, token) == Revoked({t \in Sessions : t # s \/ sess[t].token # token}, "SignOutOthers")
RevokeAllSessions == Revoked(Sessions, "SignOutEverywhere")

(* The sessions a donor is shown can still be used, by refreshing included. *)
DonorSessions == {s \in Sessions : Lives(s) /\ clock < Max({sess[s].expires, sess[s].refreshExpires})}

issueSession(s) ==
  /\ sess[s].state = "NONE" /\ lock = "none"
  /\ sess' = InsertSession(s)
  /\ held' = [held EXCEPT ![s] = 1]
  /\ UNCHANGED <<clock, waits, ref, cmd, lock, rows>>

(***************************************************************************)
(* Refreshing. The app sends one request at a time and, giving up on its   *)
(* answer, sends the same token again; the server drops a request whose    *)
(* client has gone.                                                        *)
(***************************************************************************)
SendRefresh(r, s) ==
  /\ ref[r] = NoRefresh /\ waits[s] = "none" /\ held[s] > 0
  /\ ref' = [ref EXCEPT ![r] = [pc |-> "sent", s |-> s, token |-> held[s]]]
  /\ waits' = [waits EXCEPT ![s] = r]
  /\ UNCHANGED <<clock, sess, held, cmd, lock, rows>>

GiveUp(r) ==
  /\ ref[r].pc # "idle" /\ waits[ref[r].s] = r
  /\ waits' = [waits EXCEPT ![ref[r].s] = "none"]
  /\ ref' = [ref EXCEPT ![r] = NoRefresh]
  /\ UNCHANGED <<clock, sess, held, cmd, lock, rows>>

(* A retry keeps what the first exchange replaced, and when it did. *)
RotateSession(s, previous, refreshedAt) ==
  LET limit == Min({clock + refreshIdle, sess[s].created + refreshLimit})
  IN [sess EXCEPT ![s] = [@ EXCEPT !.token = sess[s].token + 1, !.previous = previous, !.refreshedAt = refreshedAt,
                            !.refreshExpires = limit, !.expires = Min({clock + accessLifetime, limit}), !.used = clock]]
rotate(s, previous, refreshedAt) == RotateSession(s, previous, refreshedAt)

Again(s) == rotate(s, sess[s].previous, sess[s].refreshedAt)

RefreshingSession(r) == ref[r].pc = "sent" /\ RowFree(ref[r].s)
Refreshable(s) == Lives(s) /\ clock < sess[s].refreshExpires
Refresh(r) ==
  LET s == ref[r].s
      exchanged == ref[r].token = sess[s].previous /\ clock < sess[s].refreshedAt + refreshGrace
  IN /\ RefreshingSession(r) /\ Refreshable(s) /\ sess[s].token < MaxTokens
     /\ \/ ref[r].token = sess[s].token /\ sess' = rotate(s, sess[s].token, clock)
        \/ ref[r].token # sess[s].token /\ exchanged /\ sess' = Again(s)
     /\ ref' = [ref EXCEPT ![r] = [@ EXCEPT !.pc = "answered", !.token = sess[s].token + 1]]
     /\ UNCHANGED <<clock, held, waits, cmd, lock, rows>>

Ends(r) ==
  /\ ref' = [ref EXCEPT ![r] = NoRefresh]
  /\ waits' = [s \in Apps |-> IF waits[s] = r THEN "none" ELSE waits[s]]
Reused(r) ==
  LET s == ref[r].s
  IN /\ RefreshingSession(r) /\ Refreshable(s)
     /\ ref[r].token # sess[s].token
     /\ ~(ref[r].token = sess[s].previous /\ clock < sess[s].refreshedAt + refreshGrace)
     /\ sess' = RevokeSessionByID(s, "REFRESH_REUSED")
     /\ Ends(r)
     /\ UNCHANGED <<clock, held, cmd, lock, rows>>
Denied(r) ==
  /\ RefreshingSession(r) /\ ~Refreshable(ref[r].s)
  /\ Ends(r)
  /\ UNCHANGED <<clock, sess, held, cmd, lock, rows>>

Receive(r) ==
  /\ ref[r].pc = "answered"
  /\ held' = [held EXCEPT ![ref[r].s] = ref[r].token]
  /\ Ends(r)
  /\ UNCHANGED <<clock, sess, cmd, lock, rows>>

(***************************************************************************)
(* Commands. The client sends one with the token it holds then.            *)
(***************************************************************************)
SendCommand(c, kind, s, t) ==
  /\ cmd[c] = NoCommand /\ held[s] > 0 /\ (t # s => kind = "SignOutSession")
  /\ cmd' = [cmd EXCEPT ![c] = [pc |-> "sent", kind |-> kind, s |-> s, token |-> held[s], of |-> t]]
  /\ UNCHANGED <<clock, sess, held, waits, ref, lock, rows>>

SignOut(c) ==
  /\ cmd[c].pc = "sent" /\ cmd[c].kind = "SignOut" /\ RowFree(cmd[c].s)
  /\ sess' = RevokeSession(cmd[c].s, cmd[c].token)
  /\ cmd' = [cmd EXCEPT ![c].pc = "done"]
  /\ UNCHANGED <<clock, held, waits, ref, lock, rows>>

authenticate(c) == AuthenticatedDonor(cmd[c].s, cmd[c].token)
Admit(c) ==
  /\ cmd[c].pc = "sent" /\ cmd[c].kind # "SignOut"
  /\ cmd' = [cmd EXCEPT ![c].pc = IF authenticate(c) THEN "admitted" ELSE "done"]
  /\ UNCHANGED <<clock, sess, held, waits, ref, lock, rows>>

(* The session is checked again once the lock is held; recording its use   *)
(* locks its row until the command commits.                                *)
Unchecked(c) == TRUE  \* mutant
StillSignedIn(c) == authenticate(c)
TouchSession(s) == clock - sess[s].used >= touchInterval
lockSignedIn(c) ==
  /\ cmd[c].pc = "admitted" /\ lock = "none"
  /\ \/ /\ StillSignedIn(c) /\ TouchSession(cmd[c].s) /\ RowFree(cmd[c].s)
        /\ sess' = [sess EXCEPT ![cmd[c].s].used = clock]
        /\ rows' = [rows EXCEPT ![cmd[c].s] = c] /\ lock' = c
        /\ cmd' = [cmd EXCEPT ![c].pc = "locked"]
     \/ /\ StillSignedIn(c) /\ ~TouchSession(cmd[c].s)
        /\ lock' = c /\ cmd' = [cmd EXCEPT ![c].pc = "locked"]
        /\ UNCHANGED <<sess, rows>>
     \/ /\ ~StillSignedIn(c)
        /\ cmd' = [cmd EXCEPT ![c].pc = "done"] /\ UNCHANGED <<sess, rows, lock>>
  /\ UNCHANGED <<clock, held, waits, ref>>

sessionWrite(c, kind) ==
  /\ cmd[c].pc = "locked" /\ cmd[c].kind = kind
  /\ lock' = "none"
  /\ rows' = [s \in Sessions |-> IF rows[s] = c THEN "none" ELSE rows[s]]
  /\ cmd' = [cmd EXCEPT ![c].pc = "done"]
  /\ UNCHANGED <<clock, held, waits, ref>>

(* The caller's own session is refused, as the one whose current token is the caller's. *)
SignOutSession(c) ==
  /\ sessionWrite(c, "SignOutSession")
  /\ sess' = IF cmd[c].of = cmd[c].s /\ sess[cmd[c].of].token = cmd[c].token THEN sess
             ELSE RevokeSessionByID(cmd[c].of, "SignOutSession")
SignOutOthers(c) ==
  /\ sessionWrite(c, "SignOutOthers")
  /\ sess' = RevokeOtherSessions(cmd[c].s, cmd[c].token)
SignOutEverywhere(c) ==
  /\ sessionWrite(c, "SignOutEverywhere")
  /\ sess' = RevokeAllSessions

Tick == clock < MaxTime /\ clock' = clock + 1 /\ UNCHANGED <<sess, held, waits, ref, cmd, lock, rows>>

Init ==
  /\ clock = 0
  /\ sess = [s \in Sessions |-> NoSession]
  /\ held = [s \in Sessions |-> 0]
  /\ waits = [s \in Apps |-> "none"]
  /\ ref = [r \in Refreshes |-> NoRefresh]
  /\ cmd = [c \in Commands |-> NoCommand]
  /\ lock = "none"
  /\ rows = [s \in Sessions |-> "none"]

Next ==
  \/ \E s \in Sessions : issueSession(s)
  \/ \E r \in Refreshes : (\E s \in Apps : SendRefresh(r, s)) \/ GiveUp(r) \/ Refresh(r) \/ Reused(r) \/ Denied(r) \/ Receive(r)
  \/ \E c \in Commands, kind \in Kinds, s, t \in Sessions : SendCommand(c, kind, s, t)
  \/ \E c \in Commands : \/ SignOut(c) \/ Admit(c) \/ lockSignedIn(c)
                         \/ SignOutSession(c) \/ SignOutOthers(c) \/ SignOutEverywhere(c)
  \/ Tick

Spec == Init /\ [][Next]_vars

(***************************************************************************)
(* Properties.                                                             *)
(***************************************************************************)

(* The records have their types, a client holds no token that was not      *)
(* issued, and no session may be used or refreshed longer than its limit   *)
(* after sign-in.                                                          *)
TypeOK ==
  /\ lock \in Commands \cup {"none"} /\ rows \in [Sessions -> Commands \cup {"none"}]
  /\ \A s \in Sessions :
       /\ sess[s].state \in {"NONE", "LIVE", "REVOKED"} /\ sess[s].previous <= sess[s].token
       /\ held[s] <= sess[s].token
       /\ Max({sess[s].expires, sess[s].refreshExpires}) <= sess[s].created + refreshLimit

(* A lost answer does not sign the app out: a session is ended for reuse   *)
(* only when the app presented its token a grace period or more after that *)
(* token was exchanged (Refresh).                                          *)
RetryWithinGrace ==
  [][\A s \in Apps : sess'[s].by = "REFRESH_REUSED" /\ sess[s].by = "none" => clock >= sess[s].refreshedAt + refreshGrace]_vars

(* Signing out of every session, or of every other one, ends the commands  *)
(* of the other sessions that wait for the donor: none of them goes on     *)
(* (lockSignedIn).                                                         *)
WaitersHonour ==
  \A c \in Commands : lock = c => Lives(cmd[c].s) \/ sess[cmd[c].s].by \in {"SignOut", "REFRESH_REUSED"}

(* Signing out of the other sessions leaves the caller's alone, and a      *)
(* session cannot end itself by id (SignOutOthers, SignOutSession).        *)
CallerStays ==
  \A c \in Commands : cmd[c].pc = "done" /\ cmd[c].kind \in {"SignOutOthers", "SignOutSession"} =>
    sess[cmd[c].s].by \notin {"SignOutOthers", "SignOutSession"}

(* A sign-out that was answered ended its session at once (SignOut).       *)
SignOutEnds ==
  \A c \in Commands : cmd[c].pc = "done" /\ cmd[c].kind = "SignOut" => ~Lives(cmd[c].s)
=============================================================================
