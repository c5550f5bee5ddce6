SPECIFICATION Spec
CONSTANTS
  country = country
  regional = regional
  global = global
  r1 = r1
  r2 = r2
  NoPool = NoPool
  NoPolicy = NoPolicy
  Pools <- MCPools
  Parent <- MCParent
  Level <- MCLevel
  Opening <- MCOpening
  Locked <- MCLocked
  Calls <- MCCalls
  Amounts = {4, 8}
  Parts = 2
  Ratios = {1, 2}
  MaxAlerts = 2
SYMMETRY Symmetry
INVARIANTS
  PoolsAreAccounted
PROPERTIES
  NeverOverfills
  KeepsPromise
