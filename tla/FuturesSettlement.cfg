\* A series whose owner picks the expiry, a feed that may fall silent before, at or after an expiry.
CONSTANTS
  mm = mm
  t1 = t1
  t2 = t2
  inf = inf
  policy = policy
  noPolicy = noPolicy
  noAddress = noAddress
  Accounts <- MCTwoAccounts
  OracleDeployer = mm
  NoAddress = noAddress
  Indices <- MCIndices
  PrintInputs <- MCTwoMarks
  NoPolicy = noPolicy
  IsV2 = FALSE
  MaxTsSkew = 0
  MaxWindowSpan = 9
  MaxWindowLag = 9
  MoveScale = 1
  MaxMoveBps = 1
  MaxPrints = 3
  MaxTime = 5
  Wad = 1
  WadUsdc = 16
  MarginBps = 5
  Bps = 10
  Deployer = mm
  Makers <- MCMakers
  Heirs <- MCHeirs
  Expiries = {1, 2}
  Multipliers = {1}
  Quantities <- MCQuantities
  Amounts = {1}
  Funds = 1
  MaxSettleAge = 1
  SettleGrace = 2
  MaxTraders = 3
  MaxSeries = 1
  MaxFills = 1
SPECIFICATION FairSpec
INVARIANT PriceFixedByExpiry
PROPERTY EverySeriesSettles
CHECK_DEADLOCK FALSE
