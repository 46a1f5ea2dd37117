\* The three budgeted doors over time, and owner signatures: relayed, stale, out
\* of order, across a change of owner.
CONSTANTS
  alice = alice
  bob = bob
  d1 = d1
  d2 = d2
  shop = shop
  rent = rent
  noAddress = noAddress
  noDecision = noDecision
  Accounts <- MCAccounts
  Deployer = alice
  Payees <- MCPayees
  Categories <- MCOneCategory
  Decisions <- MCTwoDecisions
  Amounts = {1, 2}
  BudgetChoices <- MCBudgetChoices
  Deadlines = {0}
  NoAddress = noAddress
  NoDecision = noDecision
  MaxTime = 3
  MaxBudgetSets = 2
  MaxSignatures = 2
  MaxBalance = 4
SPECIFICATION Spec
INVARIANTS TypeOK DecisionPaidOnce CapHoldsInEveryPeriod RemainingIsTruth RunningTotals LargePaymentsHaveTheOwner ApprovalsPayInNonceOrder
PROPERTY ImplementsLedger
CONSTRAINT BudgetsOrApprovals
SYMMETRY Symmetry
CHECK_DEADLOCK FALSE
