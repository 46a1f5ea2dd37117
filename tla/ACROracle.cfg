\* Two accounts, one index, prints that arrive late, early and out of order.
CONSTANTS
  press = press
  relay = relay
  inf = inf
  policy = policy
  noPolicy = noPolicy
  noAddress = noAddress
  Accounts <- MCAccounts
  OracleDeployer = press
  NoAddress = noAddress
  Indices <- MCIndices
  PrintInputs <- MCPrintInputs
  NoPolicy = noPolicy
  IsV2 = TRUE
  MaxTsSkew = 1
  MaxWindowSpan = 3
  MaxWindowLag = 1
  MoveScale = 10
  MaxMoveBps = 3
  MaxPrints = 3
  MaxTime = 4
SPECIFICATION OracleSpec
INVARIANTS OracleTypeOK HistoryIsOrdered SearchFindsTheFirst
PROPERTY FirstPrintIsFixed
CHECK_DEADLOCK FALSE
