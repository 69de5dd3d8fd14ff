CONSTANTS
  Callers = {"c1"}
  Locals = {"j1"}
  Remaining = {0, 1, 5}
  Interval = 2
  Tolerance = 3
  MaxWait = 4
  MaxTime = 4
  MaxSlots = 4
  BadgeRules <- OneDonor
  FoundingClaims <- OneAddress
  ClosingMonths <- TwoTeams
  LinkedGifts <- OneEmployee
  SentPayments <- OneRequest
SPECIFICATION ProgrammeSpec
INVARIANTS
  WithinRate
  SettledIsAwarded
  OneWinningTeam
  MatchExact
  PublishedVerified
PROPERTIES
  SeatsFair
  DeliveredWhileTrue
CHECK_DEADLOCK FALSE
