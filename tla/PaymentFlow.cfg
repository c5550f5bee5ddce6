SPECIFICATION FairSpec
CONSTANTS
  p1 = p1
  p2 = p2
  p3 = p3
  known = known
  unknown = unknown
  NoRoute = NoRoute
  Payments <- MCPayments
  Wallets <- MCWallets
  Existing <- MCExisting
  Funding <- MCFunding
  Amounts <- MCAmounts
  Routes <- MCRoutes
  Registered <- MCRegistered
  Instant <- MCInstant
INVARIANTS
  TypeOK
  WalletAccounting
  SendsAreSecured
  OutcomeIsConsistent
  ChainIsCovered
PROPERTIES
  KeepsPromise
  EveryPaymentEnds
CHECK_DEADLOCK FALSE
