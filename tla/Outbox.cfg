SPECIFICATION Spec
CONSTANTS
  Writers = {w1, w2}
  Polls = {p1, p2}
  Consumers <- MCConsumers
  Limit = 2
  MaxRetries = 1
  PoolSize = 1
  MaxFaults = 2
  None = None
INVARIANTS
  OutboxAgrees
  NoOvertaking
PROPERTIES
  KeepsPromise
  EveryEventIsProcessed
CHECK_DEADLOCK FALSE
