\* The three stock endpoints alone, three concurrent requests.
SPECIFICATION FairSpec
CONSTANTS
  w1 = w1  w2 = w2  product = product
  r1 = r1  r2 = r2  r3 = r3  q1 = q1  q2 = q2
  Warehouses = {w1, w2}
  ProductRow = product
  Quantities = {1}
  UnitCosts = {5}
  Requests = {r1, r2, r3}
  Sales = {}
  SaleLines = {}
  InitQuantity <- MCStock
  InitCost = 2
  MaxRetries = 2
  JobRuns = 0
  DailyNum = 3
  DailyDen = 2
INVARIANTS LedgerReconciles
PROPERTIES EndpointsAreAtomic IncreaseAddsItsCost EveryRequestAnswered
CHECK_DEADLOCK FALSE
