\* The keeper alone: changing budgets and evidence, payments that revert.
CONSTANTS
  agent = agent
  boss = boss
  vendor = vendor
  infra = infra
  nobody = nobody
  q1 = q1
  q2 = q2
  Agent = agent
  Owner = boss
  Vendor = vendor
  Category = infra
  Nobody = nobody
  Budgets <- MCBudgets
  Funded = 4
  Budgeted = TRUE
  Requests = {}
  Evidence <- MCAllEvidence
  ReadLimit = 99
  RingSize = 2
  Crowded = TRUE
  Second = 2
  SendTimesOut = FALSE
  PressCrashes = FALSE
  LogFails = FALSE
  MaxTape = 3
  LastPurchase = 7
  MaxBudgetSets = 2
  MaxTime = 7
SPECIFICATION Spec
INVARIANTS NothingIsPaidTwice SettledIsPaid
CHECK_DEADLOCK FALSE
