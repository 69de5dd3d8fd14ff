CONSTANTS
  Accounts = {"a1", "a2"}
  Keys = {k1, k2}
  Invites = {i1, i2}
  Sessions = {s1, s2}
  Ceremonies = {"t1"}
  Requests = {r1, r2}
  Actions = {"disable", "role"}
  maxInviteAttempts = 2
  ceremonyLifetime = 1
  inviteLifetime = 2
  staffSessionLifetime = 2
  MaxRecovers = 0
  MaxTime = 0
  Tokens = {s1, s2}
  SessionCase <- SessionValues
  PasskeyCase <- PasskeyValues
  CopyCase <- CopyValues
  PasswordCase <- PasswordValues
  PhoneCase <- PhoneValues
  LinkCase <- LinkValues
  LimitCase <- LimitValues
  AddressCase <- AddressValues
  PortalCase <- PortalValues
  ApplyingCase <- ApplyingValues
  MailedCase <- MailedValues
SPECIFICATION AccessSpec
INVARIANTS
  WaitersHonour
  LinksLimited
  OneOwnerPerAddress
  CutOffStays
PROPERTIES
  HeldWhenUsed
  AnAdministratorStays
CHECK_DEADLOCK FALSE
SYMMETRY Symmetric
