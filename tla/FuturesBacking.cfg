\* Three participants, marks half a USDC unit apart: the payout of a clearing.
CONSTANTS
  mm = mm
  t1 = t1
  t2 = t2
  inf = inf
  policy = policy
  noPolicy = noPolicy
  noAddress = noAddress
  Accounts <- MCAccounts
  OracleDeployer = mm
  NoAddress = noAddress
  Indices <- MCIndices
  PrintInputs <- MCPrintInputs
  NoPolicy = noPolicy
  IsV2 = FALSE
  MaxTsSkew = 0
  MaxWindowSpan = 9
  MaxWindowLag = 9
  MoveScale = 1
  MaxMoveBps = 1
  MaxPrints = 3
  MaxTime = 5
  Wad = 1
  WadUsdc = 16
  MarginBps = 5
  Bps = 10
  Deployer = mm
  Makers <- MCMakers
  Heirs = {}
  Expiries = {2}
  Multipliers = {1}
  Quantities <- MCQuantities
  Amounts = {2}
  Funds = 2
  MaxSettleAge = 1
  SettleGrace = 2
  MaxTraders = 3
  MaxSeries = 1
  MaxFills = 3
SPECIFICATION Spec
INVARIANT FullyBacked
SYMMETRY Symmetry
CHECK_DEADLOCK FALSE
