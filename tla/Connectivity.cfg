SPECIFICATION MCSpec
CONSTANTS
  j1 = j1
  j2 = j2
  ann = ann
  bob = bob
  r1 = r1
  r2 = r2
  Remittances <- MCRemittances
  MaxConversions = 2
  None = None
  Journeys <- MCJourneys
  Officers <- MCOfficers
  Amount <- MCAmount
  Environments = {"SANDBOX", "PRODUCTION"}
  PerTransaction = 2
  PerDay = 2
  Rate = 2
  Executed = 2
  FailuresToDegrade = 2
SYMMETRY Symmetry
CHECK_DEADLOCK FALSE
INVARIANTS
  MatchedWasPaid
  RejectedNeverPaid
  DailyLimitKept
  PaidOnceAndFunded
