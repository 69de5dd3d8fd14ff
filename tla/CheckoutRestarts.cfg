CONSTANTS
  a1 = a1
  a2 = a2
  a3 = a3
  a4 = a4
  p1 = p1
  p2 = p2
  w1 = w1
  t1 = t1
  Attempts = {a1, a2, a3}
  Requests = {p1, p2}
  Apps = {p2}
  Workers = {}
  Terms = {t1}
  Lifetime = 2
  PrepareTries = 2
  MinimumLeft = 1
  RetryWindow = 3
  ReuseMargin = 0
  RestartBudget = 1
  RestartWindow = 3
  RestartGrace = 0
  RequestTime = 1
  MaxTime = 5
SPECIFICATION RestartSpec
SYMMETRY Symmetric
INVARIANTS
  RestartsBounded
