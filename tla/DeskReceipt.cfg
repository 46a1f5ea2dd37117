\* One market and two orders.
CONSTANTS
  Null = Null
  Indices = {gpu}
  StakeSize = 2
  MinTrade = 1
  MinWithdraw = 1
  Tries = 2
  MaxSteps = 6
  MaxOrders = 2
SPECIFICATION Spec
INVARIANT ReceiptIsNew
CHECK_DEADLOCK FALSE
