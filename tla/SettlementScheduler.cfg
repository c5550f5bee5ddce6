SPECIFICATION SchedulerSpec
CONSTANTS
  pool = pool
  r1 = r1
  r2 = r2
  w1 = w1
  w2 = w2
  w3 = w3
  NoPool = NoPool
  NoPolicy = NoPolicy
  NoReservation = NoReservation
  Pools <- MCPools
  Parent <- MCParent
  Level <- MCLevel
  Opening <- MCOpening
  Locked <- MCLocked
  Calls <- MCCalls
  Workers <- MCWorkers
  Amounts = {1}
  Parts = 1
  Ratios = {}
  MaxAlerts = 0
  MaxTasks = 3
SYMMETRY Symmetry
CHECK_DEADLOCK FALSE
INVARIANTS
  TasksAreAccounted
  SettledOnce
