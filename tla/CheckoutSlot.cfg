CONSTANTS
  a1 = a1
  a2 = a2
  a3 = a3
  p1 = p1
  p2 = p2
  w1 = w1
  w2 = w2
  t1 = t1
  t2 = t2
  Attempts = {a1, a2}
  Requests = {p1, p2}
  Apps = {p1, p2}
  Workers = {w1}
  Terms = {t1}
  Lifetime = 1
  PrepareTries = 2
  MinimumLeft = 1
  RetryWindow = 3
  ReuseMargin = 0
  RestartBudget = 2
  RestartWindow = 2
  RestartGrace = 0
  RequestTime = 1
  MaxTime = 3
SPECIFICATION Spec
SYMMETRY Symmetric
INVARIANTS
  OneMonthlyGift
  ClosedIsOver
PROPERTIES
  NeverReopened
  ImplementsSlot
