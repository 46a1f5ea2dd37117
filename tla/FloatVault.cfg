\* Requests, escalations, governance and funding of a small treasury.
CONSTANTS
  scout = scout
  visitor = visitor
  shop = shop
  llama = llama
  press = press
  ops = ops
  human = human
  none = none
  n1 = n1
  n2 = n2
  n3 = n3
  pool = pool
  bond = bond
  Agents = {scout, visitor}
  Sellers = {shop}
  Indices = {llama}
  Prices = {20, 22}
  Signers = {press}
  MaxPrints = 2
  Requests <- MCRequests
  Proposals <- MCProposals
  Policies <- MCPolicies
  Limits <- MCLimits
  Keys = {ops, human}
  Sleeves = {pool, bond}
  NoAddress = none
  Targets = {10}
  Ttls = {1}
  GuestCap = 12
  Scale = 2
  Day = 2
  Setup <- MCSetup
  MaxTime = 2
  MaxCheckpoints = 2
  MaxSignatures = 2
  MaxValue = 9
SPECIFICATION Spec
INVARIANTS PaidOnce CapHoldsEveryDay PeopleDecide ReceiptsStayCheckable
PROPERTIES ImplementsLedger GovernedByPeople JitPullsTheShortfall
CONSTRAINT Explored
CHECK_DEADLOCK FALSE
