-------------------------------- MODULE Push --------------------------------
(***************************************************************************)
(* Push notifications of a donor and of a partner: the installations that  *)
(* register a token, and the two queues that deliver to them               *)
(* (internal/store/push.go, partner_push.go, db/push.sql,                  *)
(* db/partner_push.sql).                                                   *)
(*                                                                         *)
(* A token names one installation of the app, whoever is signed in to it,  *)
(* and is stored on the session that registered it, in one of two tables.  *)
(* A registration reads who holds its token and commits later; only the    *)
(* advisory lock on the token orders it with another. A worker claims a    *)
(* notification, calls the providers without a lock, and records what they *)
(* answered.                                                               *)
(***************************************************************************)
EXTENDS Integers, FiniteSets, FiniteSetsExt

CONSTANTS
  DonorSessions, PartnerSessions,  \* app sessions, by table
  Mine,         \* the donor sessions of the donor whose queue is modelled
  Tokens, Workers,
  Categories,   \* the donor's notifications, one of each category
  Enders,       \* sessions that may end or unregister
  Fickle,       \* categories whose facts may change
  MaxAttempts,          \* maxDeliveryAttempts
  Budget, Lease, RetryCap, Lifetime,
  Horizon,      \* times after it are not told apart
  MaxTime, MaxMoves  \* bounds: the clock, and registrations

PushAssumption ==
  /\ {Budget, Lease, RetryCap, Lifetime, Horizon, MaxTime, MaxMoves, MaxAttempts} \subseteq Nat
  /\ MaxAttempts > 0 /\ Budget < Lease
  /\ Mine \subseteq DonorSessions /\ DonorSessions \cap PartnerSessions = {}

VARIABLES
  clock,
  sess,    \* both session tables: is it live, and its push token
  reg,     \* registrations under way
  moves,
  row,     \* donor_push_notifications and donor_partner_push_notifications
  optOut, untrue,  \* categories turned off, and whose fact no longer holds
  wrk,     \* each worker's step
  dead,    \* tokens a provider reported as unregistered
  held     \* when each token was last on a live session of the donor

vars == <<clock, sess, reg, moves, row, optOut, untrue, wrk, dead, held>>

(***************************************************************************)
(* Sessions and tokens.                                                    *)
(***************************************************************************)
Sessions == DonorSessions \cup PartnerSessions
NoToken == "none"
Never == -1 - Budget
NoReg == [pc |-> "idle", token |-> NoToken, release |-> {}]

ReleasePushToken(t, s) == {o \in DonorSessions : sess[o].token = t /\ o # s}
ReleasePartnerPushToken(t) == {o \in PartnerSessions : sess[o].token = t}
SetPushToken(table, s, t) == [table EXCEPT ![s].token = t]
ClearPushToken(table, s) == [table EXCEPT ![s].token = NoToken]
ClearPartnerPushToken(table, s) == [table EXCEPT ![s].token = NoToken]
DropPushToken(table, s, t) == IF table[s].token = t THEN [table EXCEPT ![s].token = NoToken] ELSE table
DropPartnerPushToken(table, s, t) ==
  IF table[s].token = t THEN [table EXCEPT ![s].token = NoToken] ELSE table

LockPushInstallation(t) == \A o \in Sessions : reg[o].pc # "idle" => reg[o].token # t

Live(s) == sess[s].live
Device(s) == Live(s) /\ sess[s].token # NoToken
Stamp == held' = [t \in Tokens |-> IF \E s \in Mine : sess'[s].live /\ sess'[s].token = t
                                   THEN clock' ELSE held[t]]

(***************************************************************************)
(* Rows. A donor's notification is named by its category, a partner's by   *)
(* the session it is for.                                                  *)
(***************************************************************************)
Notes == Categories \cup PartnerSessions
NoRow == [queued |-> FALSE, at |-> 0, expires |-> 0, attempts |-> 0, done |-> FALSE,
          reason |-> "", sentTo |-> {}]
Idle == [pc |-> "idle", note |-> "none", now |-> 0, attempt |-> 0, todo |-> {}, sent |-> {}, dropped |-> {},
         retry |-> FALSE, rejected |-> FALSE]
At(t) == Min({t, Horizon})
retryAt(now, attempts) == now + Min({RetryCap, 2 ^ attempts})

Queue(n) == IF row[n].queued THEN row[n]
            ELSE [NoRow EXCEPT !.queued = TRUE, !.at = At(clock), !.expires = clock + Lifetime]
ClaimPushNotification(r, at) == [r EXCEPT !.attempts = @ + 1, !.at = At(at)]
ClaimPartnerPush(r, at) == [r EXCEPT !.attempts = @ + 1, !.at = At(at)]
RecordPushSent(r, sessions) == [r EXCEPT !.sentTo = @ \cup sessions]
CompletePushNotification(r, reason) == [r EXCEPT !.done = TRUE, !.reason = reason]
CompletePartnerPush(r, reason) == [r EXCEPT !.done = TRUE, !.reason = reason]
FailPushNotification(r, at, attempts) ==
  IF r.done THEN r ELSE [r EXCEPT !.at = At(at), !.attempts = Max({@, attempts})]
FailPartnerPush(r, at, attempts) ==
  IF r.done THEN r ELSE [r EXCEPT !.at = At(at), !.attempts = attempts]

(***************************************************************************)
(* Registering, and what ends a registration.                              *)
(***************************************************************************)
Still == UNCHANGED <<clock, row, optOut, untrue, wrk, dead>>

RegisterDevice(s) ==
  /\ reg[s].pc = "idle" /\ Live(s) /\ moves < MaxMoves
  /\ \E t \in Tokens \ dead : LockPushInstallation(t) /\ reg' = [reg EXCEPT ![s] = [NoReg EXCEPT !.pc = "locked", !.token = t]]
  /\ moves' = moves + 1
  /\ Still /\ UNCHANGED <<sess, held>>

Release(s) ==
  /\ reg[s].pc = "locked"
  /\ reg' = [reg EXCEPT ![s].pc = "released",
               ![s].release = ReleasePushToken(reg[s].token, s) \cup ReleasePartnerPushToken(reg[s].token)]
  /\ Still /\ UNCHANGED <<sess, moves, held>>

(* A session that ended meanwhile matches no row: the transaction is undone. *)
(* A partner's first installation is told of a recent approval.             *)
Register(s) ==
  /\ reg[s].pc = "released"
  /\ sess' = IF Live(s)
             THEN SetPushToken([o \in Sessions |-> IF o \in reg[s].release
                                                   THEN [sess[o] EXCEPT !.token = NoToken]
                                                   ELSE sess[o]], s, reg[s].token)
             ELSE sess
  /\ row' = IF Live(s) /\ s \in PartnerSessions THEN [row EXCEPT ![s] = Queue(s)] ELSE row
  /\ reg' = [reg EXCEPT ![s] = NoReg]
  /\ UNCHANGED <<clock, moves, optOut, untrue, wrk, dead>> /\ Stamp

UnregisterDevice(s) ==
  /\ Device(s) /\ s \in Enders
  /\ sess' = IF s \in DonorSessions THEN ClearPushToken(sess, s) ELSE ClearPartnerPushToken(sess, s)
  /\ Still /\ UNCHANGED <<reg, moves>> /\ Stamp

(* Revoking a session clears its token; one that lapsed keeps it, unused. *)
EndSession(s) ==
  /\ Live(s) /\ s \in Enders
  /\ \E t \in {NoToken, sess[s].token} : sess' = [sess EXCEPT ![s] = [live |-> FALSE, token |-> t]]
  /\ Still /\ UNCHANGED <<reg, moves>> /\ Stamp

(***************************************************************************)
(* Queueing, and the facts behind the donor's notifications.               *)
(***************************************************************************)
QueuePushIntents(c) ==
  /\ \E s \in Mine : Device(s)
  /\ ~row[c].queued /\ row' = [row EXCEPT ![c] = Queue(c)]
  /\ UNCHANGED <<clock, sess, reg, moves, optOut, untrue, wrk, dead, held>>
QueuePartnerPush ==
  /\ \E s \in PartnerSessions : Device(s) /\ ~row[s].queued
  /\ row' = [n \in Notes |-> IF n \in PartnerSessions /\ Device(n) THEN Queue(n) ELSE row[n]]
  /\ UNCHANGED <<clock, sess, reg, moves, optOut, untrue, wrk, dead, held>>
FactChanges(c) ==
  /\ c \in Fickle
  /\ \/ optOut' = optOut \cup {c} /\ UNCHANGED untrue
     \/ untrue' = untrue \cup {c} /\ UNCHANGED optOut
  /\ UNCHANGED <<clock, sess, reg, moves, row, wrk, dead, held>>

pushSuppression(c, now) ==
  CASE now >= row[c].expires -> "expired"
    [] now < row[c].expires /\ c \in optOut /\ c # "EVENT_CANCELLED" -> "opted_out"
    [] now < row[c].expires /\ c \notin optOut /\ c \in untrue /\ c # "EVENT_CANCELLED" -> "untrue"
    [] OTHER -> ""

(***************************************************************************)
(* The workers.                                                            *)
(***************************************************************************)
Due(n) == row[n].queued /\ ~row[n].done /\ row[n].attempts < MaxAttempts /\ row[n].at <= clock
Among(n, queue) == n \in queue /\ Due(n) /\ \A o \in queue : Due(o) => row[n].at <= row[o].at
NextPushNotification(n) == Among(n, Categories)
NextPartnerPush(n) == Among(n, PartnerSessions)
WithinBudget(w) == clock <= wrk[w].now + Budget

PushTargets(c) == {s \in Mine : Device(s)} \ row[c].sentTo
PartnerPushTarget(p) == Device(p)

Working == UNCHANGED <<clock, reg, moves, optOut, untrue>>
Take(w, n, targets) ==
  wrk' = [wrk EXCEPT ![w] = [Idle EXCEPT !.pc = "send", !.note = n, !.now = clock, !.attempt = row[n].attempts + 1,
                                         !.todo = {<<s, sess[s].token>> : s \in targets}]]

claim(w) ==
  /\ wrk[w].pc = "idle"
  /\ \E c \in Categories :
       LET reason == pushSuppression(c, clock)
           none == PushTargets(c) = {} IN
       /\ NextPushNotification(c)
       /\ IF reason # "" \/ none
          THEN /\ row' = [row EXCEPT ![c] = CompletePushNotification(@,
                            CASE reason # "" -> reason
                              [] reason = "" /\ row[c].sentTo = {} -> "no_device"
                              [] OTHER -> "")]
               /\ UNCHANGED wrk
          ELSE /\ row' = [row EXCEPT ![c] = ClaimPushNotification(@, clock + Lease)]
               /\ Take(w, c, PushTargets(c))
  /\ Working /\ UNCHANGED <<sess, dead, held>>

claimPartner(w) ==
  /\ wrk[w].pc = "idle"
  /\ \E p \in PartnerSessions :
       LET reason == CASE clock >= row[p].expires -> "expired"
                       [] clock < row[p].expires /\ ~PartnerPushTarget(p) -> "registration_ended"
                       [] OTHER -> "" IN
       /\ NextPartnerPush(p)
       /\ IF reason # "" THEN row' = [row EXCEPT ![p] = CompletePartnerPush(@, reason)] /\ UNCHANGED wrk
          ELSE row' = [row EXCEPT ![p] = ClaimPartnerPush(@, clock + Lease)] /\ Take(w, p, {p})
  /\ Working /\ UNCHANGED <<sess, dead, held>>

(* A provider accepts, is unavailable, refuses its configuration, or says   *)
(* that the installation is gone.                                           *)
Send(w) ==
  /\ wrk[w].pc = "send" /\ wrk[w].todo # {} /\ WithinBudget(w)
  /\ \E d \in wrk[w].todo :
       /\ \/ d[2] \notin dead /\ wrk' = [wrk EXCEPT ![w].todo = @ \ {d}, ![w].sent = @ \cup {d[1]}] /\ UNCHANGED dead
          \/ wrk' = [wrk EXCEPT ![w].todo = @ \ {d}, ![w].dropped = @ \cup {d}] /\ dead' = dead \cup {d[2]}
          \/ wrk' = [wrk EXCEPT ![w].todo = @ \ {d}, ![w].retry = TRUE] /\ UNCHANGED dead
          \/ wrk' = [wrk EXCEPT ![w].todo = @ \ {d}, ![w].rejected = TRUE] /\ UNCHANGED dead
  /\ Working /\ UNCHANGED <<sess, row, held>>

Drop(table, gone) ==
  [s \in Sessions |-> IF \E d \in gone : d[1] = s
                      THEN LET t == (CHOOSE d \in gone : d[1] = s)[2] IN
                           IF s \in DonorSessions THEN DropPushToken(table, s, t)[s]
                           ELSE DropPartnerPushToken(table, s, t)[s]
                      ELSE table[s]]

record(w) ==
  LET v == wrk[w]
      c == v.note
      r == RecordPushSent(row[c], v.sent) IN
  /\ v.pc = "send" /\ v.todo = {} /\ c \in Categories /\ WithinBudget(w)
  /\ sess' = Drop(sess, v.dropped)
  /\ row' = [row EXCEPT ![c] =
       CASE v.rejected -> FailPushNotification(r, v.now, MaxAttempts)
         [] ~v.rejected /\ v.retry -> FailPushNotification(r, retryAt(v.now, v.attempt), v.attempt)
         [] ~v.rejected /\ ~v.retry /\ r.sentTo = {} -> CompletePushNotification(r, "unregistered")
         [] OTHER -> CompletePushNotification(r, "")]
  /\ wrk' = [wrk EXCEPT ![w] = Idle]
  /\ Working /\ UNCHANGED dead /\ Stamp

recordPartner(w) ==
  LET v == wrk[w]
      p == v.note IN
  /\ v.pc = "send" /\ v.todo = {} /\ p \in PartnerSessions /\ WithinBudget(w)
  /\ sess' = Drop(sess, v.dropped)
  /\ row' = [row EXCEPT ![p] =
       CASE v.sent # {} -> CompletePartnerPush(@, "")
         [] v.dropped # {} -> CompletePartnerPush(@, "unregistered")
         [] v.rejected -> FailPartnerPush(@, retryAt(v.now, v.attempt), MaxAttempts)
         [] OTHER -> FailPartnerPush(@, retryAt(v.now, v.attempt), v.attempt)]
  /\ wrk' = [wrk EXCEPT ![w] = Idle]
  /\ Working /\ UNCHANGED dead /\ Stamp

(* The worker died, or its step's budget ran out, before it recorded. *)
Abandon(w) == /\ wrk[w].pc # "idle" /\ ~WithinBudget(w)
              /\ wrk' = [wrk EXCEPT ![w] = Idle]
              /\ Working /\ UNCHANGED <<sess, row, dead, held>>

Tick == /\ clock < MaxTime /\ clock' = clock + 1
        /\ UNCHANGED <<sess, reg, moves, row, optOut, untrue, wrk, dead>> /\ Stamp

Init ==
  /\ clock = 0 /\ moves = 0
  /\ sess = [s \in Sessions |-> [live |-> TRUE, token |-> NoToken]]
  /\ reg = [s \in Sessions |-> NoReg]
  /\ row = [n \in Notes |-> NoRow]
  /\ optOut = {} /\ untrue = {} /\ dead = {}
  /\ wrk = [w \in Workers |-> Idle]
  /\ held = [t \in Tokens |-> Never]

Step(w) == claim(w) \/ claimPartner(w) \/ Send(w) \/ record(w) \/ recordPartner(w) \/ Abandon(w)

Next ==
  \/ \E s \in Sessions : RegisterDevice(s) \/ Release(s) \/ Register(s) \/ UnregisterDevice(s) \/ EndSession(s)
  \/ \E c \in Categories : QueuePushIntents(c) \/ FactChanges(c)
  \/ QueuePartnerPush
  \/ \E w \in Workers : Step(w)
  \/ Tick

Spec == Init /\ [][Next]_vars

(***************************************************************************)
(* Properties.                                                             *)
(***************************************************************************)
(* A registration under way holds a token, rows count attempts up to the   *)
(* limit, and only a claimed notification was sent anywhere.               *)
TypeOK ==
  /\ clock \in 0..MaxTime /\ moves \in 0..MaxMoves
  /\ \A s \in Sessions : sess[s].token \in Tokens \cup {NoToken} /\ (reg[s].pc # "idle") = (reg[s].token # NoToken)
  /\ \A n \in Notes : /\ row[n].attempts \in 0..MaxAttempts
                      /\ row[n].sentTo # {} => row[n].attempts > 0 /\ n \in Categories

(* A token names one installation: at most one session of either table      *)
(* holds it, however registrations of it interleave (push.go RegisterDevice:*)
(* "A token held by another session, the donor's or anyone's, moves here"). *)
OneInstallation ==
  \A s, o \in Sessions : sess[s].token = sess[o].token /\ sess[s].token # NoToken => s = o

(* A retry does not go to a session that was reached before (record).       *)
ReachedOnce ==
  \A w \in Workers : wrk[w].pc = "send" /\ WithinBudget(w) /\ wrk[w].note \in Categories =>
    row[wrk[w].note].sentTo \cap ({d[1] : d \in wrk[w].todo} \cup wrk[w].sent) = {}

(* A worker takes away no token but one its provider said is gone: a token  *)
(* the app has since replaced survives a late answer (db/push.sql           *)
(* DropPushToken).                                                          *)
NewTokenSurvives ==
  \A w \in Workers : record(w) \/ recordPartner(w) =>
    \A s \in Sessions : sess'[s].token # sess[s].token => sess[s].token \in dead

(* A notification reaches a token only if it was on a live session of the   *)
(* donor within the last step's budget: signing out, or another account's   *)
(* registration on the same phone, ends it (PushTargets).                   *)
HolderNow ==
  \A w \in Workers : wrk[w].note \in Categories /\ wrk'[w].sent # wrk[w].sent /\ wrk'[w].sent # {} =>
    \A d \in wrk[w].todo \ wrk'[w].todo : clock - held[d[2]] <= Budget

(* Nothing is sent after its lifetime, give or take the step that claimed   *)
(* it (pushLifetime: "dropped rather than shown late").                     *)
NotShownLate ==
  \A w \in Workers : wrk[w].pc = "send" => wrk[w].now < row[wrk[w].note].expires
=============================================================================
