---------------------------- MODULE Credentials ----------------------------
(***************************************************************************)
(* The ways donors sign in besides a mailed link: passkeys, codes sent to  *)
(* a phone, passwords, and Apple or Google (internal/store/                *)
(* donor_passkeys.go, signin_methods.go, passwords.go).                    *)
(*                                                                         *)
(* Every way finds the account before it locks it, so what it found may    *)
(* have changed when it holds the lock. The step that holds the donor's    *)
(* lock, from LockDonor to the commit, is one action.                      *)
(***************************************************************************)
EXTENDS Integers, FiniteSets, FiniteSetsExt

CONSTANTS
  Donors, Present,        \* accounts, and those that exist at first
  Emails, FirstEmail,     \* addresses, and the one each account has at first
  Phones, Keys, Subjects, SubjectEmail, Ceremonies, Sessions,
  Requests,               \* sign-in requests in flight at once
  Ways,                   \* the ways used
  ceremonyLifetime, phoneCodeTTL, phoneCodeMaxTries, CodeInterval, Reauthentication,
  MaxCodes, MaxPasswords, MaxCount, MaxTime  \* bounds

CredentialsAssumption ==
  /\ Present \subseteq Donors /\ FirstEmail \in [Donors -> Emails] /\ SubjectEmail \in [Subjects -> Emails]
  /\ Ways \subseteq {"passkey", "phone", "password", "oidc"}
  /\ {ceremonyLifetime, phoneCodeTTL, phoneCodeMaxTries, CodeInterval, Reauthentication} \subseteq Nat \ {0}
  /\ {MaxCodes, MaxPasswords, MaxCount, MaxTime} \subseteq Nat

VARIABLES
  clock,
  donor,     \* donors, with their password
  key,       \* donor_passkeys, by credential; era: how often it was registered
  link,      \* donor_oidc_identities: the donor of each subject
  code,      \* donor_phone_codes
  codes,     \* how many codes were sent
  ceremony,  \* donor_ceremonies
  sess,      \* donor_sessions, and the proof each was issued for
  req

vars == <<clock, donor, key, link, code, codes, ceremony, sess, req>>

NoKey == [owner |-> "none", count |-> 0, era |-> 0]
NoCode == [id |-> 0, attempts |-> 0, at |-> 0, expires |-> 0, tries |-> 0]
NoCeremony == [state |-> "none", kind |-> "none", session |-> "none", expires |-> 0, answers |-> 0]
NoProof == [way |-> "none", with |-> "none", n |-> 0, ceremony |-> "none"]
NoSession == [owner |-> "none", live |-> FALSE, verified |-> 0, proof |-> NoProof, era |-> 0]
Idle == [pc |-> "idle", of |-> "none", proof |-> NoProof]

Live(s) == sess[s].live
Fresh == {s \in Sessions : sess[s].owner = "none"}
issueSession(s, d, proof) ==
  [sess EXCEPT ![s] = [owner |-> d, live |-> TRUE, verified |-> 0, proof |-> proof,
                       era |-> IF proof.way = "passkey" THEN key[proof.with].era ELSE 0]]
RevokeAllSessions(d) == [s \in Sessions |-> IF sess[s].owner = d THEN [sess[s] EXCEPT !.live = FALSE] ELSE sess[s]]
Gone(x) == [x EXCEPT !.owner = "none", !.count = 0]
Drop(d) == [k \in Keys |-> IF key[k].owner = d THEN Gone(key[k]) ELSE key[k]]
Found(r, pc, of, proof) == req' = [req EXCEPT ![r] = [pc |-> pc, of |-> of, proof |-> proof]]
Answered(r) == req' = [req EXCEPT ![r] = Idle]
Disabled(d) == donor[d].state = "erased"

(***************************************************************************)
(* Passkeys. A ceremony that is being answered is locked by its answer.    *)
(***************************************************************************)
DeleteExpiredDonorCeremonies ==
  [t \in Ceremonies |-> IF ceremony[t].state = "open" /\ ceremony[t].expires <= clock THEN [ceremony[t] EXCEPT !.state = "gone"] ELSE ceremony[t]]
saveDonorCeremony(t, kind, s) ==
  /\ ceremony[t].state = "none"
  /\ \A u \in Ceremonies : ceremony[u].state = "taken" => clock < ceremony[u].expires
  /\ ceremony' = [DeleteExpiredDonorCeremonies EXCEPT ![t] =
                    [NoCeremony EXCEPT !.state = "open", !.kind = kind, !.session = s, !.expires = clock + ceremonyLifetime]]
  /\ UNCHANGED <<clock, donor, key, link, code, codes, sess, req>>
BeginSignIn(t) == saveDonorCeremony(t, "SIGN_IN", "none")
BeginRegister(t, s) == Live(s) /\ saveDonorCeremony(t, "REGISTER", s)

TakeDonorCeremony(t, kind) == ceremony[t].state = "open" /\ ceremony[t].kind = kind /\ clock < ceremony[t].expires
takeDonorCeremony(r, t, kind, with, n) ==
  /\ "passkey" \in Ways /\ req[r] = Idle /\ TakeDonorCeremony(t, kind)
  /\ ceremony' = [ceremony EXCEPT ![t].state = "taken"]
  /\ Found(r, "taken", "none", [way |-> "passkey", with |-> with, n |-> n, ceremony |-> t])
  /\ UNCHANGED <<clock, donor, key, link, code, codes, sess>>

Answer(t, state) == [ceremony EXCEPT ![t] = [@ EXCEPT !.state = state, !.answers = Min({ceremony[t].answers + 1, 2})]]
answerCeremony(t) == Answer(t, "spent")

DonorPasskeyOwner(r) ==
  LET p == req[r].proof
  IN /\ req[r].pc = "taken" /\ ceremony[p.ceremony].kind = "SIGN_IN"
     /\ IF key[p.with].owner = "none"
        THEN ceremony' = answerCeremony(p.ceremony) /\ Answered(r)
        ELSE Found(r, "owner", key[p.with].owner, p) /\ UNCHANGED ceremony
     /\ UNCHANGED <<clock, donor, key, link, code, codes, sess>>

Counted(k, n) == n > key[k].count \/ (n = 0 /\ key[k].count = 0)
RecordDonorPasskeyUse(k, n) == [key EXCEPT ![k].count = n]
ValidatePasskeyLogin(d, k, n) == key[k].owner = d /\ Counted(k, n)
FinishSignIn(r, s) ==
  LET p == req[r].proof
      d == req[r].of
  IN /\ req[r].pc = "owner" /\ s \in Fresh
     /\ ceremony' = answerCeremony(p.ceremony)
     /\ IF ~Disabled(d) /\ ValidatePasskeyLogin(d, p.with, p.n)
        THEN key' = RecordDonorPasskeyUse(p.with, p.n) /\ sess' = issueSession(s, d, p)
        ELSE UNCHANGED <<key, sess>>
     /\ Answered(r)
     /\ UNCHANGED <<clock, donor, link, code, codes>>

(* A session that has ended is another refusal than the ceremony's, and rolls back. *)
FinishRegister(r, s) ==
  LET p == req[r].proof
  IN /\ req[r].pc = "taken" /\ ceremony[p.ceremony].kind = "REGISTER" /\ sess[s].owner # "none"
     /\ IF ~Live(s)
        THEN ceremony' = Answer(p.ceremony, "open") /\ UNCHANGED key
        ELSE /\ ceremony' = answerCeremony(p.ceremony)
             /\ key' = IF ceremony[p.ceremony].session = s /\ key[p.with].owner = "none"
                       THEN [key EXCEPT ![p.with] = [owner |-> sess[s].owner, count |-> 0, era |-> @.era + 1]] ELSE key
     /\ Answered(r)
     /\ UNCHANGED <<clock, donor, link, code, codes, sess>>

DeletePasskey(s, k) ==
  /\ Live(s) /\ key[k].owner = sess[s].owner
  /\ key' = [key EXCEPT ![k] = Gone(@)]
  /\ UNCHANGED <<clock, donor, link, code, codes, ceremony, sess, req>>

(***************************************************************************)
(* Codes to a phone.                                                       *)
(***************************************************************************)
DonorByPhone(r, p, guess, what) ==
  /\ "phone" \in Ways /\ req[r] = Idle
  /\ \E d \in Donors : donor[d].state = "live" /\ donor[d].phone = p
       /\ Found(r, what, d, [way |-> "phone", with |-> p, n |-> guess, ceremony |-> "none"])
  /\ UNCHANGED <<clock, donor, key, link, code, codes, ceremony, sess>>
StillTheirs(d, p) == ~Disabled(d) /\ donor[d].phone = p
UpsertPhoneCode(p) ==
  [code EXCEPT ![p] = [id |-> codes + 1, attempts |-> 0, at |-> clock, expires |-> clock + phoneCodeTTL, tries |-> 0]]
BeginPhoneSignIn(r) ==
  LET p == req[r].proof.with
  IN /\ req[r].pc = "begin"
     /\ IF StillTheirs(req[r].of, p) /\ (code[p] = NoCode \/ clock >= code[p].at + CodeInterval)
        THEN codes < MaxCodes /\ code' = UpsertPhoneCode(p) /\ codes' = codes + 1
        ELSE UNCHANGED <<code, codes>>
     /\ Answered(r)
     /\ UNCHANGED <<clock, donor, key, link, ceremony, sess>>

DeletePhoneCode(p) == [code EXCEPT ![p] = NoCode]
RecordPhoneCodeAttempt(p) == [code EXCEPT ![p] = [@ EXCEPT !.attempts = code[p].attempts + 1, !.tries = code[p].tries + 1]]
Open(p) == code[p] # NoCode /\ clock < code[p].expires /\ code[p].attempts < phoneCodeMaxTries
FinishPhoneSignIn(r, s) ==
  LET p == req[r].proof.with
      guess == req[r].proof.n
  IN /\ req[r].pc = "finish" /\ s \in Fresh
     /\ \/ /\ StillTheirs(req[r].of, p) /\ Open(p) /\ guess = code[p].id
           /\ code' = DeletePhoneCode(p) /\ sess' = issueSession(s, req[r].of, req[r].proof)
        \/ /\ StillTheirs(req[r].of, p) /\ Open(p) /\ guess # code[p].id
           /\ code' = RecordPhoneCodeAttempt(p) /\ UNCHANGED sess
        \/ ~(StillTheirs(req[r].of, p) /\ Open(p)) /\ UNCHANGED <<code, sess>>
     /\ Answered(r)
     /\ UNCHANGED <<clock, donor, key, link, codes, ceremony>>

(* The number is unique among the accounts; a pending code goes with the old one. *)
UpdateProfile(s, p) ==
  LET d == sess[s].owner
  IN /\ Live(s) /\ donor[d].phone # p /\ \A e \in Donors : p # "none" => donor[e].phone # p
     /\ donor' = [donor EXCEPT ![d].phone = p]
     /\ code' = IF donor[d].phone = "none" THEN code ELSE DeletePhoneCode(donor[d].phone)
     /\ UNCHANGED <<clock, key, link, codes, ceremony, sess, req>>

(***************************************************************************)
(* Passwords, named by the order they were set in.                         *)
(***************************************************************************)
MatchPassword(r, d, typed) ==
  /\ "password" \in Ways /\ req[r] = Idle
  /\ donor[d].state = "live" /\ donor[d].claimed /\ typed # 0 /\ typed = donor[d].password
  /\ Found(r, "matched", d, [way |-> "password", with |-> donor[d].email, n |-> typed, ceremony |-> "none"])
  /\ UNCHANGED <<clock, donor, key, link, code, codes, ceremony, sess>>
MatchedOnce(d, p) == donor[d].email = p.with  \* mutant
StillMatches(d, p) == donor[d].email = p.with /\ donor[d].password = p.n
PasswordSignIn(r, s) ==
  /\ req[r].pc = "matched" /\ s \in Fresh
  /\ sess' = IF ~Disabled(req[r].of) /\ StillMatches(req[r].of, req[r].proof) THEN issueSession(s, req[r].of, req[r].proof) ELSE sess
  /\ Answered(r)
  /\ UNCHANGED <<clock, donor, key, link, code, codes, ceremony>>
PasswordReauthentication(s) == sess[s].verified > 0 /\ clock < sess[s].verified + Reauthentication
Set(s, typed) ==
  LET d == sess[s].owner
  IN /\ "password" \in Ways /\ Live(s) /\ donor[d].claimed
     /\ PasswordReauthentication(s) \/ (typed # 0 /\ typed = donor[d].password)
     /\ donor[d].password < MaxPasswords
     /\ donor' = [donor EXCEPT ![d].password = @ + 1]
     /\ UNCHANGED <<clock, key, link, code, codes, ceremony, sess, req>>

(***************************************************************************)
(* Apple and Google.                                                       *)
(***************************************************************************)
OIDCIdentity(r, b) ==
  /\ "oidc" \in Ways /\ req[r] = Idle
  /\ LET proof == [way |-> "oidc", with |-> b, n |-> 0, ceremony |-> "none"]
         held == {d \in Donors : donor[d].email = SubjectEmail[b] /\ donor[d].state # "absent"}
         new == {d \in Donors : donor[d].state = "absent"}
     IN \/ link[b] # "none" /\ Found(r, "linked", link[b], proof) /\ UNCHANGED donor
        \/ link[b] = "none" /\ \E d \in held : Found(r, "unlinked", d, proof) /\ UNCHANGED donor
        \/ link[b] = "none" /\ held = {} /\ \E d \in new :
             /\ Found(r, "unlinked", d, proof)
             /\ donor' = [donor EXCEPT ![d] = [@ EXCEPT !.state = "live", !.email = SubjectEmail[b]]]
  /\ UNCHANGED <<clock, key, link, code, codes, ceremony, sess>>
MarkClaimed(d) == [donor EXCEPT ![d].claimed = TRUE]
DeleteDonorOIDCIdentities(d) == [b \in Subjects |-> IF link[b] = d THEN "none" ELSE link[b]]
MayLink(d, b) == ~Disabled(d) /\ donor[d].email = SubjectEmail[b]
OIDCSignIn(r, s) ==
  LET d == req[r].of
      b == req[r].proof.with
      linked == req[r].pc = "linked" /\ ~Disabled(d)
      links == req[r].pc = "unlinked" /\ MayLink(d, b) /\ link[b] = "none"
  IN /\ req[r].pc \in {"linked", "unlinked"} /\ s \in Fresh
     /\ IF linked \/ links
        THEN /\ donor' = MarkClaimed(d) /\ sess' = issueSession(s, d, req[r].proof)
             /\ link' = IF links THEN [link EXCEPT ![b] = d] ELSE link
        ELSE UNCHANGED <<donor, sess, link>>
     /\ Answered(r)
     /\ UNCHANGED <<clock, key, code, codes, ceremony>>

(***************************************************************************)
(* What ends or changes an account meanwhile.                              *)
(***************************************************************************)
LinkSignIn(d, s) ==
  /\ donor[d].state = "live" /\ s \in Fresh
  /\ donor' = MarkClaimed(d)
  /\ sess' = [issueSession(s, d, NoProof) EXCEPT ![s] = [@ EXCEPT !.verified = clock + 1]]
  /\ UNCHANGED <<clock, key, link, code, codes, ceremony, req>>
SignOut(s) ==
  /\ Live(s) /\ sess' = [sess EXCEPT ![s].live = FALSE]
  /\ UNCHANGED <<clock, donor, key, link, code, codes, ceremony, req>>
ChangeEmail(d, e) ==
  /\ donor[d].state = "live" /\ \A f \in Donors : donor[f].email # e
  /\ donor' = [donor EXCEPT ![d].email = e]
  /\ key' = Drop(d) /\ sess' = RevokeAllSessions(d)
  /\ UNCHANGED <<clock, link, code, codes, ceremony, req>>
DeleteAccount(s) ==
  LET d == sess[s].owner
  IN /\ Live(s)
     /\ donor' = [donor EXCEPT ![d] = [@ EXCEPT !.state = "erased", !.email = "none", !.phone = "none", !.password = 0]]
     /\ key' = Drop(d) /\ link' = DeleteDonorOIDCIdentities(d)
     /\ code' = IF donor[d].phone = "none" THEN code ELSE DeletePhoneCode(donor[d].phone)
     /\ sess' = RevokeAllSessions(d)
     /\ UNCHANGED <<clock, codes, ceremony, req>>
Tick == clock < MaxTime /\ clock' = clock + 1 /\ UNCHANGED <<donor, key, link, code, codes, ceremony, sess, req>>

Init ==
  /\ clock = 0 /\ codes = 0
  /\ donor = [d \in Donors |-> [state |-> IF d \in Present THEN "live" ELSE "absent", email |-> IF d \in Present THEN FirstEmail[d] ELSE "none",
                                claimed |-> FALSE, phone |-> "none", password |-> 0]]
  /\ key = [k \in Keys |-> NoKey] /\ link = [b \in Subjects |-> "none"]
  /\ code = [p \in Phones |-> NoCode] /\ ceremony = [t \in Ceremonies |-> NoCeremony]
  /\ sess = [s \in Sessions |-> NoSession] /\ req = [r \in Requests |-> Idle]

Passkeys ==
  \/ \E t \in Ceremonies : BeginSignIn(t) \/ \E s \in Sessions : BeginRegister(t, s)
  \/ \E r \in Requests, t \in Ceremonies, k \in Keys :
       takeDonorCeremony(r, t, "REGISTER", k, 0) \/ \E n \in 0 .. MaxCount : takeDonorCeremony(r, t, "SIGN_IN", k, n)
  \/ \E r \in Requests : DonorPasskeyOwner(r) \/ \E s \in Sessions : FinishSignIn(r, s) \/ FinishRegister(r, s)
  \/ \E s \in Sessions, k \in Keys : DeletePasskey(s, k)
PhoneCodes ==
  \/ \E r \in Requests, p \in Phones : DonorByPhone(r, p, 0, "begin") \/ \E guess \in 0 .. codes : DonorByPhone(r, p, guess, "finish")
  \/ \E r \in Requests : BeginPhoneSignIn(r) \/ \E s \in Sessions : FinishPhoneSignIn(r, s)
  \/ \E s \in Sessions, p \in Phones \cup {"none"} : UpdateProfile(s, p)
Passwords ==
  \/ \E r \in Requests, d \in Donors, typed \in 0 .. MaxPasswords : MatchPassword(r, d, typed)
  \/ \E r \in Requests, s \in Sessions : PasswordSignIn(r, s)
  \/ \E s \in Sessions, typed \in 0 .. MaxPasswords : Set(s, typed)
Providers == \E r \in Requests : (\E b \in Subjects : OIDCIdentity(r, b)) \/ \E s \in Sessions : OIDCSignIn(r, s)
AccountChanges ==
  \/ \E d \in Donors : (\E s \in Sessions : LinkSignIn(d, s)) \/ \E e \in Emails : ChangeEmail(d, e)
  \/ \E s \in Sessions : SignOut(s) \/ DeleteAccount(s)
  \/ Tick

PasskeySpec == Init /\ [][Passkeys \/ AccountChanges]_vars
PhoneSpec == Init /\ [][PhoneCodes \/ AccountChanges]_vars
AccountSpec == Init /\ [][Passwords \/ Providers \/ AccountChanges]_vars

(***************************************************************************)
(* Properties.                                                             *)
(***************************************************************************)

(* The records have their types, and the passkeys, password, linked        *)
(* identities, number and sessions of an erased account are gone, whatever *)
(* a sign-in that found it before had in hand (DeleteAccount).             *)
TypeOK ==
  /\ \A d \in Donors : donor[d].state \in {"absent", "live", "erased"} /\ donor[d].phone \in Phones \cup {"none"}
  /\ \A s \in Sessions : sess[s].owner \in Donors \cup {"none"}
  /\ \A d \in Donors : donor[d].state = "erased" =>
       /\ \A k \in Keys : key[k].owner # d
       /\ \A b \in Subjects : link[b] # d
       /\ \A s \in Sessions : sess[s].owner = d => ~Live(s)
       /\ donor[d].password = 0 /\ donor[d].phone = "none"

(* A code signs in once, however many requests carry it at the same time   *)
(* (PhoneService.FinishSignIn).                                            *)
SignsInOnce ==
  \A s, t \in Sessions : s # t /\ sess[s].proof.way = "phone" => sess[s].proof # sess[t].proof

(* A ceremony, and a position of a registered authenticator's counter,     *)
(* sign in once, so of a key and its copy that answer at the same time one *)
(* is refused (DonorPasskeyService.FinishSignIn).                          *)
CountsOnce ==
  \A s, t \in Sessions : s # t /\ sess[s].proof.way = "passkey" /\ sess[t].proof.way = "passkey" /\ sess[s].proof.with = sess[t].proof.with =>
    /\ sess[s].proof.ceremony # sess[t].proof.ceremony
    /\ sess[s].era # sess[t].era \/ sess[s].proof.n # sess[t].proof.n \/ sess[s].proof.n = 0

(* A code is guessed at most phoneCodeMaxTries times, by requests that     *)
(* found its account at once, and refusing a guess does not undo it.       *)
GuessesBounded == \A p \in Phones : code[p].tries <= phoneCodeMaxTries

(* When a session is issued the donor holds what was presented: the        *)
(* passkey, the number, the password and the address, or the identity.     *)
Presented ==
  \A s \in Fresh : sess'[s].owner # "none" =>
    LET p == sess'[s].proof
        d == sess'[s].owner
    IN \/ p.way = "none"
       \/ p.way = "passkey" /\ key[p.with].owner = d
       \/ p.way = "phone" /\ donor[d].phone = p.with
       \/ p.way = "password" /\ donor[d].password = p.n /\ donor[d].email = p.with
       \/ p.way = "oidc" /\ (link[p.with] = d \/ (link[p.with] = "none" /\ donor[d].email = SubjectEmail[p.with]))

(* Any answer spends its ceremony (answerCeremony).                        *)
AnswerSpends == \A t \in Ceremonies : ceremony[t].answers <= 1
=============================================================================
