SPECIFICATION MCSpec
CONSTANTS
  Nothing = Nothing
  Refused = Refused
  Emails = {"ann"}
  Passwords = {"good"}
  Amounts = {10, 20}
  MaxUsers = 2
  MaxQuotes = 1
  MaxOrders = 2
  MaxRestarts = 1
  MaxPending = 2
  a1 = a1
  a2 = a2
  a3 = a3
  NoKey = NoKey
  ApiCalls <- MCCalls
  Keys = {k}
  Paths = {"GET /health", "GET /v1/payments/1"}
  Registered = {"GET /health"}
  Capacity = 2
  Refill = 1
  MaxTicks = 1
  MaxLives = 2
CHECK_DEADLOCK FALSE
INVARIANTS
  AppTypeOK
  TransfersAreTold
  KeysAreKept
