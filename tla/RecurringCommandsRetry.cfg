CONSTANTS
  r1 = r1
  r2 = r2
  w1 = w1
  w2 = w2
  c1 = c1
  a1 = a1
  a2 = a2
  Requests = {r1}
  Workers = {w1}
  Cancels = {}
  Changes = {a1, a2}
  Amounts = {1, 2}
  DraftAmount = 1
  LeaseTerm = 2
  SubmitWindow = 1
  LateBound = 1
  RenewalMargin = 2
  RetryWindow = 3
  KeyMemory = 5
  Period = 6
  MaxTime = 7
  MaxVersion = 1
SPECIFICATION Spec
INVARIANTS
  AppliedAtMostOnce
  ReconcilableUntilRenewal
  AmountAuthorized
