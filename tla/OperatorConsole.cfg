\* Two approvals at a time, timeouts, restarts and a full disk.
CONSTANTS
  agent = agent
  boss = boss
  vendor = vendor
  infra = infra
  nobody = nobody
  q1 = q1
  q2 = q2
  Agent = agent
  Owner = boss
  Vendor = vendor
  Category = infra
  Nobody = nobody
  Budgets <- MCNarrow
  Funded = 4
  Budgeted = TRUE
  Requests <- MCBoth
  Evidence <- MCUsual
  ReadLimit = 99
  RingSize = 2
  Crowded = FALSE
  Second = 2
  SendTimesOut = TRUE
  PressCrashes = TRUE
  LogFails = TRUE
  MaxTape = 2
  LastPurchase = 3
  MaxBudgetSets = 0
  MaxTime = 5
SYMMETRY MCSame
SPECIFICATION Spec
INVARIANTS PaidRowsHaveTheirPayment OwnerPaysEscalationsOnly
CHECK_DEADLOCK FALSE
