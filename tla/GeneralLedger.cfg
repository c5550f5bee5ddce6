SPECIFICATION Spec
CONSTANTS
  cash = cash
  client = client
  fees = fees
  sale = sale
  transfer = transfer
  slip = slip
  mixed = mixed
  c1 = c1
  c2 = c2
  c3 = c3
  NoEntry = NoEntry
  Calls <- MCCalls
  Entries <- MCEntries
  Lines <- MCLines
  Time <- MCTime
  Accounts <- MCAccounts
  Type <- MCType
  Currency <- MCCurrency
  Times = {1, 2}
  MaxPeriods = 2
SYMMETRY Symmetry
CHECK_DEADLOCK FALSE
INVARIANTS
  TypeOK
  TrialBalances
  PostingsAreOrderly
PROPERTIES
  ClosedStaysClosed
  ClosedBooksSettle
