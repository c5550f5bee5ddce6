SPECIFICATION MCSpec
CONSTANTS
  e1 = e1
  e2 = e2
  e3 = e3
  order = order
  redelivered = redelivered
  large = large
  i1 = i1
  i2 = i2
  t1 = t1
  t2 = t2
  None = None
  NoRail = NoRail
  Executions <- MCExecutions
  Objects <- MCObjects
  Ids <- MCIds
  RailId <- MCRailId
  Source <- MCSource
  Destination <- MCDestination
  Limit = 2
  Rate = 2
  Transfers <- MCTransfers
  Payments <- MCPayments
  Opening <- MCOpening
  Providers <- MCProviders
  MaxSends = 2
  Catalogue <- MCCatalogue
  Countries = {"US", "IN"}
  Principal = 10000
  MaxRegistered = 4
  Fleet <- MCFleet
  Capable <- MCCapable
  Asked <- MCAsked
  Failing = {"Solana_USDC", "Circle_CCTP"}
SYMMETRY Symmetry
CHECK_DEADLOCK FALSE
INVARIANT PaidOnce
