------------------------------ MODULE MCAccess ------------------------------
(* Small instances of the components of Access. *)
EXTENDS Access

\* A session of the app and one of a browser, and two requests to sign out.
SessionValues ==
  [Sessions |-> {"s1", "s2"}, Apps |-> {"s1"}, Refreshes |-> {"r1"}, Commands |-> Requests,
   Kinds |-> {"SignOut", "SignOutSession", "SignOutOthers", "SignOutEverywhere"},
   accessLifetime |-> 1, refreshIdle |-> 2, refreshLimit |-> 3, refreshGrace |-> 1,
   touchInterval |-> 1, MaxTokens |-> 2, MaxTime |-> 1]

\* One passkey, answered by two requests at once while it may be deleted.
PasskeyValues ==
  [Donors |-> {"d1"}, Present |-> {"d1"}, Emails |-> {"a"}, FirstEmail |-> [d \in {"d1"} |-> "a"],
   Keys |-> {"k1"}, Subjects |-> {}, SubjectEmail |-> <<>>, Ceremonies |-> {"t1", "t2"},
   Ways |-> {"passkey"}, MaxPasswords |-> 1, Phones |-> {}, ceremonyLifetime |-> 1,
   phoneCodeTTL |-> 2, phoneCodeMaxTries |-> 2, CodeInterval |-> 1, Reauthentication |-> 2,
   MaxCodes |-> 1, MaxCount |-> 1, MaxTime |-> 1, Requests |-> Requests, Sessions |-> Tokens]

\* One passkey and a copy of it, which answer two challenges. No time passes.
CopyValues ==
  [PasskeyValues EXCEPT !.Ceremonies = Invites \cup {"t3"}, !.Sessions = Tokens \cup {"s3"},
                        !.MaxTime = 0]

\* Passwords and a provider, while addresses change and accounts are deleted.
PasswordValues ==
  [Donors |-> {"d1", "d2"}, Present |-> {"d1"}, Emails |-> {"a", "b"},
   FirstEmail |-> [d \in {"d1", "d2"} |-> IF d = "d1" THEN "a" ELSE "b"], Keys |-> {},
   Subjects |-> {"b1"}, SubjectEmail |-> [b \in {"b1"} |-> "a"], Ceremonies |-> {},
   Ways |-> {"password", "oidc"}, MaxPasswords |-> 2, Phones |-> {}, ceremonyLifetime |-> 1,
   phoneCodeTTL |-> 2, phoneCodeMaxTries |-> 2, CodeInterval |-> 1, Reauthentication |-> 2,
   MaxCodes |-> 1, MaxCount |-> 1, MaxTime |-> 1, Requests |-> Requests, Sessions |-> Tokens]

\* Codes sent to a phone, guessed by two requests at once.
PhoneValues ==
  [Donors |-> {"d1"}, Present |-> {"d1"}, Emails |-> {"a"}, FirstEmail |-> [d \in {"d1"} |-> "a"],
   Keys |-> {}, Subjects |-> {}, SubjectEmail |-> <<>>, Ceremonies |-> {}, Ways |-> {"phone"},
   MaxPasswords |-> 1, Phones |-> {"p1"}, ceremonyLifetime |-> 1, phoneCodeTTL |-> 2,
   phoneCodeMaxTries |-> 2, CodeInterval |-> 1, Reauthentication |-> 2, MaxCodes |-> 2,
   MaxCount |-> 1, MaxTime |-> 1, Requests |-> Requests, Sessions |-> Tokens \cup {"s3"}]

\* Two sign-in links, redeemed by two requests.
LinkValues ==
  [Mails |-> Tokens, Askers |-> {"a1"}, Redeemers |-> Requests, Workers |-> {"w1"},
   proofLifetime |-> 3, maxDeliveryAttempts |-> 2, MaxTime |-> 2, MaxDeaths |-> 1, Minute |-> 1,
   Hour |-> 3, PerHour |-> 2, deliveryLease |-> 2, RetryAfter |-> 1, TurnTime |-> 1,
   Horizon |-> 9]

\* Two requests for links, over more than an hour.
LimitValues ==
  [Mails |-> {"m1", "m2", "m3"}, Askers |-> {"a1", "a2"}, Redeemers |-> {}, Workers |-> {},
   proofLifetime |-> 2, maxDeliveryAttempts |-> 1, MaxTime |-> 5, MaxDeaths |-> 0, Minute |-> 1,
   Hour |-> 3, PerHour |-> 2, deliveryLease |-> 2, RetryAfter |-> 1, TurnTime |-> 1,
   Horizon |-> 9]

\* Two donors and a member of staff who may want one address.
AddressValues ==
  [Donors |-> {"d1", "d2"}, Addresses |-> {"a", "b", "x"},
   First |-> [d \in {"d1", "d2"} |-> IF d = "d1" THEN "a" ELSE "b"], Changes |-> Invites,
   Confirmers |-> {"p1"}, Workers |-> {"w1"}, proofLifetime |-> 3, deliveryLease |-> 2,
   RetryAfter |-> 1, MaxAttempts |-> 1, Horizon |-> 9, MaxTime |-> 0, MaxDeaths |-> 0]

\* An organization with two users, whom two requests invite and remove.
PortalValues ==
  [Applications |-> {"a1"}, Emails |-> {"e1", "e2"}, Taken |-> {}, Receipts |-> {},
   Requests |-> Requests, Workers |-> {"w1"}, MaxJobs |-> 2, MaxSessions |-> 2, Horizon |-> 0,
   Lease |-> 1, SignInLifetime |-> 1, InviteLifetime |-> 2, SessionLifetime |-> 2, Hour |-> 2,
   PerHour |-> 2, MaxAttempts |-> 2]

\* Two applications for an organization, which may name one address.
ApplyingValues ==
  [Applications |-> {"a1", "a2"}, Emails |-> {"e1", "e3"}, Taken |-> {"e3"}, Receipts |-> {"x1"},
   Requests |-> {}, Workers |-> {}, MaxJobs |-> 2, MaxSessions |-> 1, Horizon |-> 0, Lease |-> 1,
   SignInLifetime |-> 1, InviteLifetime |-> 2, SessionLifetime |-> 2, Hour |-> 2, PerHour |-> 2,
   MaxAttempts |-> 2]

\* A user who asks for sign-in links, which a worker that may die mails.
MailedValues ==
  [Applications |-> {"a1"}, Emails |-> {"e1"}, Taken |-> {}, Receipts |-> {}, Requests |-> {"r1"},
   Workers |-> {"w1"}, MaxJobs |-> 2, MaxSessions |-> 1, Horizon |-> 2, Lease |-> 1,
   SignInLifetime |-> 1, InviteLifetime |-> 2, SessionLifetime |-> 2, Hour |-> 2, PerHour |-> 2,
   MaxAttempts |-> 2]
=============================================================================
