CONSTANTS
  r1 = r1
  r2 = r2
  w1 = w1
  w2 = w2
  c1 = c1
  a1 = a1
  a2 = a2
  Requests = {r1}
  Workers = {w1, w2}
  Cancels = {}
  Changes = {a1}
  Amounts = {1, 2}
  DraftAmount = 1
  LeaseTerm = 2
  SubmitWindow = 1
  LateBound = 0
  RenewalMargin = 1
  RetryWindow = 3
  KeyMemory = 4
  Period = 3
  MaxTime = 4
  MaxVersion = 2
SPECIFICATION FairSpec
INVARIANTS
  ReservedWhileLive
PROPERTIES
  NeverOlder
  AppliedChangeConfirmed
  EndedReleases
