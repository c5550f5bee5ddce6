SPECIFICATION ClearingSpec
CONSTANTS
  Parties = {"A", "B", "C"}
  Obligations <- MCObligations
  Cycles = {c1, c2}
  Limits <- MCLimits
INVARIANTS
  PositionsPreserved
  CyclesReduce
  LimitKept
CHECK_DEADLOCK FALSE
