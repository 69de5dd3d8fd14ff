CONSTANTS
  MaxPeriod = 2
  MaxChanges = 1
  Copies = {1}
  EventAttempts = 1
  ReversalAttempts = 1
  MaxFaults = 0
  ReferralEnds = 2
  CheckoutOpen = 2
  SettleWait = 3
  Workers = {"w1"}
  Horizon = 1
  StaffRefunds <- OneCommand
  DashboardRefunds <- ThreeEvents
  CardUpdates <- TwoUpdates
SPECIFICATION MoneySpec
INVARIANTS
  LedgerMatchesCharges
  ReversalsExact
  RefundsExact
  LatestCardStands
  TotalsExact
CHECK_DEADLOCK FALSE
