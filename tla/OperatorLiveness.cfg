\* Sound bills within the limit, budgets wide enough.
CONSTANTS
  agent = agent
  boss = boss
  vendor = vendor
  infra = infra
  nobody = nobody
  q1 = q1
  q2 = q2
  Agent = agent
  Owner = boss
  Vendor = vendor
  Category = infra
  Nobody = nobody
  Budgets <- MCWide
  Funded = 4
  Budgeted = TRUE
  Requests = {}
  Evidence <- MCSound
  ReadLimit = 99
  RingSize = 2
  Crowded = TRUE
  Second = 3
  SendTimesOut = FALSE
  PressCrashes = FALSE
  LogFails = FALSE
  MaxTape = 3
  LastPurchase = 6
  MaxBudgetSets = 2
  MaxTime = 9
SPECIFICATION FairSpec
PROPERTY EverySettlementIsPaid
CHECK_DEADLOCK FALSE
