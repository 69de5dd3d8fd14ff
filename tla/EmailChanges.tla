---------------------------- MODULE EmailChanges ----------------------------
(***************************************************************************)
(* Changing a donor's email address, and one role per address              *)
(* (internal/store/email_changes.go, email_identity.go,                    *)
(* email_change_delivery.go). A change is proved twice, by a proof mailed  *)
(* to the current address and then by another mailed to the new one; the   *)
(* proofs are mailed by workers, which may send one twice. Transactions    *)
(* hold the donor's row, and the address's lock while they use it, so each *)
(* is one step.                                                            *)
(***************************************************************************)
EXTENDS Integers, FiniteSets, FiniteSetsExt

CONSTANTS
  Donors, Addresses,
  First,        \* the address each donor has at first
  Changes,      \* donor_email_changes
  Confirmers,   \* requests with a proof in flight
  Workers,      \* delivery workers
  proofLifetime, deliveryLease, RetryAfter, MaxAttempts,
  Horizon,      \* times after it are not told apart
  MaxTime, MaxDeaths  \* bounds: clock, sends and workers that fail

EmailChangesAssumption ==
  /\ First \in [Donors -> Addresses] /\ "none" \notin Addresses
  /\ \A d, e \in Donors : First[d] = First[e] => d = e
  /\ {proofLifetime, deliveryLease, MaxAttempts} \subseteq Nat \ {0}
  /\ {RetryAfter, Horizon, MaxTime, MaxDeaths} \subseteq Nat

VARIABLES
  clock, deaths,
  donor,   \* address of each donor, "none" once erased, and the ways to sign in
  staff,   \* addresses of staff and partner logins
  change,  \* donor_email_changes
  inbox,   \* the proofs that reached an address
  conf, work

vars == <<clock, deaths, donor, staff, change, inbox, conf, work>>

NoChange == [stage |-> "NONE", donor |-> "none", old |-> "none", new |-> "none", expires |-> 0,
             sent |-> FALSE, attempts |-> 0, at |-> 0, seq |-> 0]
Idle == [pc |-> "idle", change |-> "none", proof |-> "none"]
At(t) == Min({t, Horizon})
Ways == {"session", "link", "passkey", "password", "oidc"}
Quiet == UNCHANGED <<clock, deaths>>

(***************************************************************************)
(* Statements.                                                             *)
(***************************************************************************)
EmailIdentities(a) == {<<"DONOR", d>> : d \in {e \in Donors : donor[e].email = a}}
                      \cup {<<"STAFF", a>> : s \in staff \cap {a}}
reserveEmailIdentity(a, role) == \A h \in EmailIdentities(a) : h[1] = role
InProgress(d) == {c \in Changes : change[c].donor = d /\ change[c].stage \in {"CURRENT", "NEW"}}
CancelEmailChanges(d) == [c \in Changes |-> IF c \in InProgress(d) THEN [change[c] EXCEPT !.stage = "CANCELED"] ELSE change[c]]
InsertEmailChange(table, c, d, a) ==
  [table EXCEPT ![c] = [NoChange EXCEPT !.stage = "CURRENT", !.donor = d, !.old = donor[d].email, !.new = a,
                          !.expires = clock + proofLifetime, !.at = clock,
                          !.seq = Cardinality({x \in Changes : change[x].stage # "NONE"}) + 1]]
AdvanceEmailChange(c) ==
  [change EXCEPT ![c] = [@ EXCEPT !.stage = "NEW", !.expires = clock + proofLifetime, !.sent = FALSE, !.attempts = 0, !.at = clock]]
(* A donor's address is unique. *)
SetDonorEmail(a) == \A d \in Donors : donor[d].email # a
CompleteEmailChange(c) == [change EXCEPT ![c].stage = "COMPLETED"]
DueDelivery(c) ==
  change[c].stage \in {"CURRENT", "NEW"} /\ ~change[c].sent /\ change[c].attempts < MaxAttempts /\ change[c].at <= clock
ClaimEmailChangeDelivery(c) == [change EXCEPT ![c] = [@ EXCEPT !.attempts = change[c].attempts + 1, !.at = At(clock + deliveryLease)]]
EmailChangeDeliveryFailed(c) == [change EXCEPT ![c] = [@ EXCEPT !.attempts = change[c].attempts + 1, !.at = At(clock + RetryAfter)]]
EmailChangeDelivered(c, stage) == IF change[c].stage = stage THEN [change EXCEPT ![c].sent = TRUE] ELSE change
RetryEmailChangeDelivery(c, stage) ==
  IF change[c].stage = stage /\ ~change[c].sent THEN [change EXCEPT ![c].at = At(clock + RetryAfter)] ELSE change

(***************************************************************************)
(* Requesting and confirming.                                              *)
(***************************************************************************)
Replacing(c, d, a) == InsertEmailChange(CancelEmailChanges(d), c, d, a)
Request(d, a, c) ==
  /\ change[c].stage = "NONE" /\ "session" \in donor[d].ways /\ donor[d].email # a
  /\ reserveEmailIdentity(a, "DONOR")
  /\ change' = Replacing(c, d, a)
  /\ Quiet /\ UNCHANGED <<donor, staff, inbox, conf, work>>

(* The proof names its change's owner, who is locked before it is looked up again. *)
EmailChangeOwner(p, proof) ==
  /\ conf[p] = Idle /\ proof \in inbox
  /\ conf' = [conf EXCEPT ![p] = [pc |-> "found", change |-> proof.change, proof |-> proof.stage]]
  /\ Quiet /\ UNCHANGED <<donor, staff, change, inbox, work>>

EitherProof(c, stage) == TRUE  \* mutant
EmailChangeByToken(c, stage) == change[c].stage = stage
Confirmable(c) == donor[change[c].donor].email = change[c].old /\ clock < change[c].expires

advanceEmailChange(p) ==
  LET c == conf[p].change
  IN /\ conf[p].pc = "found" /\ EmailChangeByToken(c, conf[p].proof) /\ Confirmable(c)
     /\ change[c].stage = "CURRENT"
     /\ change' = AdvanceEmailChange(c)
     /\ conf' = [conf EXCEPT ![p] = Idle]
     /\ Quiet /\ UNCHANGED <<donor, staff, inbox, work>>

StillFree(a, role) == reserveEmailIdentity(a, role)
completeEmailChange(p) ==
  LET c == conf[p].change
      d == change[c].donor
  IN /\ conf[p].pc = "found" /\ EmailChangeByToken(c, conf[p].proof) /\ Confirmable(c)
     /\ change[c].stage = "NEW"
     /\ StillFree(change[c].new, "DONOR") /\ SetDonorEmail(change[c].new)
     /\ donor' = [donor EXCEPT ![d] = [email |-> change[c].new, ways |-> @.ways \ {"session", "passkey", "link"}]]
     /\ change' = CompleteEmailChange(c)
     /\ conf' = [conf EXCEPT ![p] = Idle]
     /\ Quiet /\ UNCHANGED <<staff, inbox, work>>

DeniedConfirm(p) ==
  LET c == conf[p].change
  IN /\ conf[p].pc = "found"
     /\ \/ ~EmailChangeByToken(c, conf[p].proof) \/ ~Confirmable(c)
        \/ change[c].stage \notin {"CURRENT", "NEW"}
        \/ change[c].stage = "NEW" /\ ~(StillFree(change[c].new, "DONOR") /\ SetDonorEmail(change[c].new))
     /\ conf' = [conf EXCEPT ![p] = Idle]
     /\ Quiet /\ UNCHANGED <<donor, staff, change, inbox, work>>

(***************************************************************************)
(* Delivery. Workers pass over a donor another transaction has locked.     *)
(***************************************************************************)
claim(w, c) ==
  /\ work[w] = Idle /\ DueDelivery(c)
  /\ IF Confirmable(c)
     THEN /\ change' = ClaimEmailChangeDelivery(c)
          /\ work' = [work EXCEPT ![w] = [pc |-> "sending", change |-> c, proof |-> change[c].stage]]
     ELSE change' = CancelEmailChanges(change[c].donor) /\ UNCHANGED work
  /\ Quiet /\ UNCHANGED <<donor, staff, inbox, conf>>
(* The proof cannot be decrypted. *)
Unreadable(w, c) ==
  /\ work[w] = Idle /\ DueDelivery(c) /\ Confirmable(c) /\ deaths < MaxDeaths /\ deaths' = deaths + 1
  /\ change' = EmailChangeDeliveryFailed(c)
  /\ UNCHANGED <<clock, donor, staff, inbox, conf, work>>
Send(w) ==
  /\ work[w].pc = "sending"
  /\ LET c == work[w].change
     IN inbox' = inbox \cup {[change |-> c, stage |-> work[w].proof, to |-> IF work[w].proof = "NEW" THEN change[c].new ELSE change[c].old]}
  /\ work' = [work EXCEPT ![w].pc = "sent"]
  /\ Quiet /\ UNCHANGED <<donor, staff, change, conf>>
Delivered(w) ==
  /\ work[w].pc = "sent"
  /\ change' = EmailChangeDelivered(work[w].change, work[w].proof)
  /\ work' = [work EXCEPT ![w] = Idle]
  /\ Quiet /\ UNCHANGED <<donor, staff, inbox, conf>>
Refused(w) ==
  /\ work[w].pc = "sending" /\ deaths < MaxDeaths /\ deaths' = deaths + 1
  /\ change' = RetryEmailChangeDelivery(work[w].change, work[w].proof)
  /\ work' = [work EXCEPT ![w] = Idle]
  /\ UNCHANGED <<clock, donor, staff, inbox, conf>>
Die(w) ==
  /\ work[w] # Idle /\ deaths < MaxDeaths /\ deaths' = deaths + 1
  /\ work' = [work EXCEPT ![w] = Idle]
  /\ UNCHANGED <<clock, donor, staff, change, inbox, conf>>

(***************************************************************************)
(* What else takes an address or a way to sign in, and erasure.            *)
(***************************************************************************)
InviteStaff(a) ==
  /\ a \notin staff /\ reserveEmailIdentity(a, "STAFF")
  /\ staff' = staff \cup {a}
  /\ Quiet /\ UNCHANGED <<donor, change, inbox, conf, work>>
RemoveStaff(a) ==
  /\ a \in staff /\ staff' = staff \ {a}
  /\ Quiet /\ UNCHANGED <<donor, change, inbox, conf, work>>
AddWay(d, way) ==
  /\ donor[d].email # "none" /\ way \notin donor[d].ways /\ (way \notin {"session", "link", "oidc"} => "session" \in donor[d].ways)
  /\ donor' = [donor EXCEPT ![d].ways = @ \cup {way}]
  /\ Quiet /\ UNCHANGED <<staff, change, inbox, conf, work>>
DeleteAccount(d) ==
  /\ "session" \in donor[d].ways
  /\ donor' = [donor EXCEPT ![d] = [email |-> "none", ways |-> {}]]
  /\ change' = CancelEmailChanges(d)
  /\ Quiet /\ UNCHANGED <<staff, inbox, conf, work>>
Tick == clock < MaxTime /\ clock' = clock + 1 /\ UNCHANGED <<deaths, donor, staff, change, inbox, conf, work>>

Init ==
  /\ clock = 0 /\ deaths = 0
  /\ donor = [d \in Donors |-> [email |-> First[d], ways |-> {"session"}]]
  /\ staff = {} /\ inbox = {}
  /\ change = [c \in Changes |-> NoChange]
  /\ conf = [p \in Confirmers |-> Idle]
  /\ work = [w \in Workers |-> Idle]

DeliverNext(w) == (\E c \in Changes : claim(w, c)) \/ Send(w) \/ Delivered(w)
Confirm(p) == advanceEmailChange(p) \/ completeEmailChange(p) \/ DeniedConfirm(p)
Moves ==
  \/ \E d \in Donors, a \in Addresses, c \in Changes : Request(d, a, c)
  \/ \E p \in Confirmers : Confirm(p) \/ \E proof \in inbox : EmailChangeOwner(p, proof)
  \/ \E w \in Workers : DeliverNext(w) \/ Refused(w) \/ Die(w) \/ \E c \in Changes : Unreadable(w, c)
  \/ \E a \in Addresses : InviteStaff(a) \/ RemoveStaff(a)
  \/ \E d \in Donors : DeleteAccount(d)
  \/ Tick
Next == Moves \/ \E d \in Donors, way \in Ways : AddWay(d, way)

Spec == Init /\ [][Moves]_vars
SignInSpec == Init /\ [][Next]_vars

(***************************************************************************)
(* Properties.                                                             *)
(***************************************************************************)

(* The records have their types, and a proof is marked as sent only when   *)
(* the proof of the change's present stage was: a worker that finishes an  *)
(* earlier send does not speak for the new one (EmailChangeDelivered).     *)
TypeOK ==
  /\ \A d \in Donors : donor[d].email \in Addresses \cup {"none"} /\ donor[d].ways \subseteq Ways
  /\ \A c \in Changes : change[c].stage \in {"NONE", "CURRENT", "NEW", "COMPLETED", "CANCELED"}
  /\ \A c \in Changes : change[c].sent /\ change[c].stage \in {"CURRENT", "NEW"} =>
       \E proof \in inbox : proof.change = c /\ proof.stage = change[c].stage

(* An address signs in to one kind of account and to one donor, however    *)
(* long a change waits between its two confirmations                       *)
(* (reserveEmailIdentity, completeEmailChange).                            *)
OneRole ==
  /\ \A d \in Donors : donor[d].email \notin staff
  /\ \A d, e \in Donors : d # e /\ donor[d].email # "none" => donor[d].email # donor[e].email

(* An address is given up and another taken only when a proof reached      *)
(* each, the first while the change was new (Confirm).                     *)
ProvedTwice ==
  \A c \in Changes : change[c].stage = "COMPLETED" =>
    /\ [change |-> c, stage |-> "CURRENT", to |-> change[c].old] \in inbox
    /\ [change |-> c, stage |-> "NEW", to |-> change[c].new] \in inbox

(* A change a later request replaced never completes (Request, Confirm).   *)
ReplacedStays ==
  [][\A b, c \in Changes :
       change[b].stage # "COMPLETED" /\ change'[b].stage = "COMPLETED" /\ change[c].donor = change[b].donor =>
         change[c].seq <= change[b].seq]_vars

(* A confirmation is mailed, or its change ends, or its attempts are used  *)
(* up (DeliverNext).                                                       *)
Unmailed == {c \in Changes : change[c].stage = "CURRENT" /\ ~change[c].sent /\ change[c].attempts < MaxAttempts}

(* Changing the email resets every other way into the account: none that   *)
(* the donor had before opens it afterwards (completeEmailChange).         *)
ResetsEveryWay ==
  [][\A d \in Donors : donor'[d].email # donor[d].email => donor'[d].ways = {}]_vars
=============================================================================
