\* Two requests, a quote sale and one run of the holding-cost job.
SPECIFICATION FairSpec
CONSTANTS
  w1 = w1  w2 = w2  product = product
  r1 = r1  r2 = r2  r3 = r3  q1 = q1  q2 = q2
  Warehouses = {w1, w2}
  ProductRow = product
  Quantities = {1}
  UnitCosts = {5}
  Requests = {r1, r2}
  Sales = {q1}
  SaleLines <- MCLines
  InitQuantity <- MCStock
  InitCost = 2
  MaxRetries = 2
  JobRuns = 1
  DailyNum = 3
  DailyDen = 2
INVARIANTS UnsoldRowsReconcile
PROPERTIES TransferMovesStock
CHECK_DEADLOCK FALSE
