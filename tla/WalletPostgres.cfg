SPECIFICATION FairSpec
CONSTANTS
  c1 = c1
  c2 = c2
  c3 = c3
  None = None
  Calls <- MCCalls
  Amounts <- MCAmounts
  Funding = 3
  Entries = 2
CHECK_DEADLOCK FALSE
INVARIANTS
  OutcomesMatchRows
PROPERTIES
  RunsInTurn
  EveryCallEnds
