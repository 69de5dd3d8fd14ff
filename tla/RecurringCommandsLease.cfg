CONSTANTS
  r1 = r1
  r2 = r2
  w1 = w1
  w2 = w2
  c1 = c1
  a1 = a1
  a2 = a2
  Requests = {r1, r2}
  Workers = {}
  Cancels = {c1}
  Changes = {a1}
  Amounts = {1, 2}
  DraftAmount = 1
  LeaseTerm = 2
  SubmitWindow = 1
  LateBound = 0
  RenewalMargin = 1
  RetryWindow = 3
  KeyMemory = 4
  Period = 3
  MaxTime = 3
  MaxVersion = 1
SPECIFICATION Spec
SYMMETRY Symmetric
INVARIANTS
  TypeOK
  OneEffectiveCall
  SettledIsDone
