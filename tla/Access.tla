------------------------------- MODULE Access -------------------------------
(***************************************************************************)
(* Who may act: donors' sessions, the ways they sign in, the address they  *)
(* sign in with, staff accounts and partners' portals. As modelled these   *)
(* components share no variable: where the code joins them, each model has *)
(* the other's effect as an action of its own (Credentials issues a        *)
(* session by a link, EmailChanges invites a member of staff). So a        *)
(* behaviour of the whole is one behaviour of each, interleaved, and what  *)
(* holds of each alone holds of the whole: a behaviour here is one of a    *)
(* single component, the others resting in their initial states.           *)
(***************************************************************************)
EXTENDS StaffAccess, TLC

VARIABLES
  part,  \* the component this behaviour is of
  sessionClock, sessionSess, held, waits, ref, cmd, sessionLock, rows,
  credentialClock, credentialDonor, credentialKey, link, code, codes, credentialCeremony,
  credentialSess, credentialReq,
  linkClock, linkDeaths, linkDonor, mail, ask, redeem, linkWork, claims,
  addressClock, addressDeaths, addressDonor, addressStaff, change, inbox, conf, addressWork,
  portalClock, app, user, job, portalSess, orgs, mailbox, cut, portalReq, wrk

CONSTANT Tokens  \* names of sessions and of links

(***************************************************************************)
(* The constants of each component: a record with one field for each. A    *)
(* component that is taken more than once has a record for each time.      *)
(***************************************************************************)
CONSTANTS
  SessionCase,                          \* sessions of the app and of browsers
  PasskeyCase, CopyCase,                \* a passkey, and a passkey with a copy
  PasswordCase, PhoneCase,              \* the other ways to sign in
  LinkCase, LimitCase,                  \* links redeemed, and links asked for
  AddressCase,                          \* donors and staff who may want one address
  PortalCase, ApplyingCase, MailedCase  \* users of a portal, applications, mailed links

Symmetric == Permutations(Requests) \cup Permutations(Tokens) \cup Permutations(Invites)

Signed(case) == INSTANCE Sessions WITH
  Sessions <- case.Sessions, Apps <- case.Apps, Refreshes <- case.Refreshes,
  Commands <- case.Commands, Kinds <- case.Kinds, accessLifetime <- case.accessLifetime,
  refreshIdle <- case.refreshIdle, refreshLimit <- case.refreshLimit,
  refreshGrace <- case.refreshGrace, touchInterval <- case.touchInterval,
  MaxTokens <- case.MaxTokens, MaxTime <- case.MaxTime, clock <- sessionClock,
  sess <- sessionSess, lock <- sessionLock

Credential(case) == INSTANCE Credentials WITH
  Donors <- case.Donors, Present <- case.Present, Emails <- case.Emails,
  FirstEmail <- case.FirstEmail, Phones <- case.Phones, Keys <- case.Keys,
  Subjects <- case.Subjects, SubjectEmail <- case.SubjectEmail, Ceremonies <- case.Ceremonies,
  Ways <- case.Ways, ceremonyLifetime <- case.ceremonyLifetime, phoneCodeTTL <- case.phoneCodeTTL,
  phoneCodeMaxTries <- case.phoneCodeMaxTries, CodeInterval <- case.CodeInterval,
  Reauthentication <- case.Reauthentication, MaxCodes <- case.MaxCodes,
  MaxPasswords <- case.MaxPasswords, MaxCount <- case.MaxCount, MaxTime <- case.MaxTime,
  Requests <- case.Requests, Sessions <- case.Sessions, clock <- credentialClock,
  donor <- credentialDonor, key <- credentialKey, ceremony <- credentialCeremony,
  sess <- credentialSess, req <- credentialReq

Link(case) == INSTANCE LoginLinks WITH
  Mails <- case.Mails, Askers <- case.Askers, Redeemers <- case.Redeemers,
  Workers <- case.Workers, Minute <- case.Minute, Hour <- case.Hour, PerHour <- case.PerHour,
  proofLifetime <- case.proofLifetime, deliveryLease <- case.deliveryLease,
  RetryAfter <- case.RetryAfter, maxDeliveryAttempts <- case.maxDeliveryAttempts,
  TurnTime <- case.TurnTime, Horizon <- case.Horizon, MaxTime <- case.MaxTime,
  MaxDeaths <- case.MaxDeaths, clock <- linkClock, deaths <- linkDeaths, donor <- linkDonor,
  work <- linkWork

Address(case) == INSTANCE EmailChanges WITH
  Donors <- case.Donors, Addresses <- case.Addresses, First <- case.First,
  Changes <- case.Changes, Confirmers <- case.Confirmers, Workers <- case.Workers,
  proofLifetime <- case.proofLifetime, deliveryLease <- case.deliveryLease,
  RetryAfter <- case.RetryAfter, MaxAttempts <- case.MaxAttempts, Horizon <- case.Horizon,
  MaxTime <- case.MaxTime, MaxDeaths <- case.MaxDeaths, clock <- addressClock,
  deaths <- addressDeaths, donor <- addressDonor, staff <- addressStaff, work <- addressWork

\* The module itself, with the constants of the run, has two administrators who
\* change each other's access at the same time. Here the operator recovers one;
\* the bound is that one account.
Recovery == INSTANCE StaffAccess WITH
  Ceremonies <- {"t1", "t2"}, Actions <- {"recovery"}, MaxRecovers <- 1
OneAccount == staff'["a2"] = NoStaff /\ \A r \in Requests : req'[r].of # "a2"

Portal(case) == INSTANCE PartnerPortal WITH
  Applications <- case.Applications, Emails <- case.Emails, Taken <- case.Taken,
  Receipts <- case.Receipts, Requests <- case.Requests, Workers <- case.Workers,
  MaxJobs <- case.MaxJobs, MaxSessions <- case.MaxSessions, Horizon <- case.Horizon,
  Lease <- case.Lease, SignInLifetime <- case.SignInLifetime,
  InviteLifetime <- case.InviteLifetime, SessionLifetime <- case.SessionLifetime,
  Hour <- case.Hour, PerHour <- case.PerHour, MaxAttempts <- case.MaxAttempts,
  clock <- portalClock, sess <- portalSess, req <- portalReq

ASSUME Instances ==
  /\ Signed(SessionCase)!SessionsAssumption
  /\ Credential(PasskeyCase)!CredentialsAssumption
  /\ Credential(CopyCase)!CredentialsAssumption
  /\ Credential(PasswordCase)!CredentialsAssumption
  /\ Credential(PhoneCase)!CredentialsAssumption
  /\ Link(LinkCase)!LoginLinksAssumption /\ Link(LimitCase)!LoginLinksAssumption
  /\ Address(AddressCase)!EmailChangesAssumption
  /\ StaffAccessAssumption /\ Recovery!StaffAccessAssumption
  /\ Portal(PortalCase)!PartnerPortalAssumption /\ Portal(ApplyingCase)!PartnerPortalAssumption
  /\ Portal(MailedCase)!PartnerPortalAssumption

sessionVars == <<sessionClock, sessionSess, held, waits, ref, cmd, sessionLock, rows>>
credentialVars == <<credentialClock, credentialDonor, credentialKey, link, code, codes,
                credentialCeremony, credentialSess, credentialReq>>
linkVars == <<linkClock, linkDeaths, linkDonor, mail, ask, redeem, linkWork, claims>>
addressVars == <<addressClock, addressDeaths, addressDonor, addressStaff, change, inbox, conf,
                addressWork>>
portalVars == <<portalClock, app, user, job, portalSess, orgs, mailbox, cut, portalReq, wrk>>
accessVars == <<part, sessionVars, credentialVars, linkVars, addressVars, vars, portalVars>>

AccessInit ==
  /\ part \in {"sessions", "passkeys", "copies", "accounts", "phones", "links", "limit", "addresses",
              "administrators", "recovery", "portal", "applications", "partner links"}
  /\ Signed(SessionCase)!Init
  /\ (IF part = "phones" THEN Credential(PhoneCase)!Init
      ELSE IF part = "accounts" THEN Credential(PasswordCase)!Init
      ELSE IF part = "copies" THEN Credential(CopyCase)!Init
      ELSE Credential(PasskeyCase)!Init)
  /\ (IF part = "limit" THEN Link(LimitCase)!Init ELSE Link(LinkCase)!Init)
  /\ Address(AddressCase)!Init
  /\ (IF part = "recovery" THEN Recovery!Init ELSE Init)
  /\ (IF part = "partner links" THEN Portal(MailedCase)!Init
      ELSE IF part = "applications" THEN Portal(ApplyingCase)!Init
      ELSE Portal(PortalCase)!Init)

AccessNext ==
  \/ part = "sessions" /\ Signed(SessionCase)!Next
     /\ UNCHANGED <<part, credentialVars, linkVars, addressVars, vars, portalVars>>
  \/ part = "passkeys"
     /\ (Credential(PasskeyCase)!Passkeys \/ Credential(PasskeyCase)!AccountChanges)
     /\ UNCHANGED <<part, sessionVars, linkVars, addressVars, vars, portalVars>>
  \/ part = "copies"
     /\ (Credential(CopyCase)!Passkeys \/ Credential(CopyCase)!AccountChanges)
     /\ UNCHANGED <<part, sessionVars, linkVars, addressVars, vars, portalVars>>
  \/ part = "accounts"
     /\ (Credential(PasswordCase)!Passwords \/ Credential(PasswordCase)!Providers
         \/ Credential(PasswordCase)!AccountChanges)
     /\ UNCHANGED <<part, sessionVars, linkVars, addressVars, vars, portalVars>>
  \/ part = "phones"
     /\ (Credential(PhoneCase)!PhoneCodes \/ Credential(PhoneCase)!AccountChanges)
     /\ UNCHANGED <<part, sessionVars, linkVars, addressVars, vars, portalVars>>
  \/ part = "links" /\ Link(LinkCase)!Next
     /\ UNCHANGED <<part, sessionVars, credentialVars, addressVars, vars, portalVars>>
  \/ part = "limit" /\ Link(LimitCase)!Next
     /\ UNCHANGED <<part, sessionVars, credentialVars, addressVars, vars, portalVars>>
  \/ part = "addresses" /\ Address(AddressCase)!Moves
     /\ UNCHANGED <<part, sessionVars, credentialVars, linkVars, vars, portalVars>>
  \/ part = "administrators" /\ Next
     /\ UNCHANGED <<part, sessionVars, credentialVars, linkVars, addressVars, portalVars>>
  \/ part = "recovery" /\ Recovery!Next /\ OneAccount
     /\ UNCHANGED <<part, sessionVars, credentialVars, linkVars, addressVars, portalVars>>
  \/ part = "portal"
     /\ (Portal(PortalCase)!Applying \/ Portal(PortalCase)!Deciding
         \/ Portal(PortalCase)!Managing \/ Portal(PortalCase)!Entering
         \/ Portal(PortalCase)!Waiting \/ Portal(PortalCase)!Administering
         \/ Portal(PortalCase)!Posting)
     /\ UNCHANGED <<part, sessionVars, credentialVars, linkVars, addressVars, vars>>
  \/ part = "applications"
     /\ (Portal(ApplyingCase)!Applying \/ Portal(ApplyingCase)!Deciding
         \/ Portal(ApplyingCase)!Managing)
     /\ UNCHANGED <<part, sessionVars, credentialVars, linkVars, addressVars, vars>>
  \/ part = "partner links"
     /\ (Portal(MailedCase)!Applying \/ Portal(MailedCase)!Deciding
         \/ Portal(MailedCase)!Asking \/ Portal(MailedCase)!Working \/ Portal(MailedCase)!Tick
         \/ \E w \in MailedCase.Workers : Portal(MailedCase)!Crash(w))
     /\ UNCHANGED <<part, sessionVars, credentialVars, linkVars, addressVars, vars>>

AccessSpec == AccessInit /\ [][AccessNext]_accessVars

-----------------------------------------------------------------------------
\* Signing out of every session, or of every other one, stops what the requests
\* of those sessions were waiting for the donor to do, and a partner's user who
\* was removed gets in by nothing they had, also when they are invited again
\* (SignOutEverywhere, SignOutOthers, lockSignedIn, RevokePartnerUserSessions).
WaitersHonour ==
  /\ Signed(SessionCase)!WaitersHonour
  /\ part = "portal" => Portal(PortalCase)!RemovalCutsOff

\* When a session is issued the donor still holds what was presented: the
\* passkey, or the password and the address, or the identity, although it was
\* looked up before; a ceremony and a position of a key's counter sign in once
\* (FinishSignIn, PasswordSignIn, OIDCSignIn). Partners' administrators too still
\* are when they remove or demote another, so that one stays
\* (partnerAdminTransaction).
HeldWhenUsed ==
  [][/\ part = "passkeys" => Credential(PasskeyCase)!Presented
     /\ part = "copies" => Credential(CopyCase)!Presented /\ Credential(CopyCase)!CountsOnce
     /\ part = "accounts" => Credential(PasswordCase)!Presented
     /\ part = "portal" => Portal(PortalCase)!AdministratorKept]_accessVars

\* Of the sign-in links open at once one is used at most, and no minute or hour
\* mints more of them than it may, whatever requests wait for the donor with a
\* time they read earlier; a phone's code signs in once and is guessed a few
\* times only, and a partner's link is mailed a bounded number of times and used
\* once (claim, QueueLoginEmail, FinishSignIn, ClaimPartnerLoginEmail, AcceptInvite).
LinksLimited ==
  /\ part = "links" => Link(LinkCase)!OneOfTheOpen
  /\ part = "limit" => Link(LimitCase)!NotFlooded
  /\ part = "phones" => Credential(PhoneCase)!GuessesBounded /\ Credential(PhoneCase)!SignsInOnce
  /\ part = "partner links" => Portal(MailedCase)!SendsBounded
  /\ part = "portal" => Portal(PortalCase)!LinkUsedOnce

\* An address signs in to one kind of account and to one donor, and an account
\* moves to another address only when a proof reached both, however long the
\* change waited between its confirmations; an address is a user of one
\* organization (reserveEmailIdentity, Confirm, Approve).
OneOwnerPerAddress ==
  /\ part = "addresses" => Address(AddressCase)!OneRole /\ Address(AddressCase)!ProvedTwice
  /\ part = "applications" => Portal(ApplyingCase)!OnePartnerPerEmail
=============================================================================
