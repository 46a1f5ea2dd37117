\* A receipt that comes too late.
CONSTANTS
  agent = agent
  boss = boss
  vendor = vendor
  infra = infra
  nobody = nobody
  q1 = q1
  q2 = q2
  Agent = agent
  Owner = boss
  Vendor = vendor
  Category = infra
  Nobody = nobody
  Budgets <- MCBudgets
  Funded = 4
  Budgeted = TRUE
  Requests = {}
  Evidence <- MCSound
  ReadLimit = 99
  RingSize = 2
  Crowded = FALSE
  Second = 2
  SendTimesOut = TRUE
  PressCrashes = FALSE
  LogFails = FALSE
  MaxTape = 2
  LastPurchase = 8
  MaxBudgetSets = 2
  MaxTime = 8
SPECIFICATION Spec
INVARIANT ReferencePaidOnce
CHECK_DEADLOCK FALSE
