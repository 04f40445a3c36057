\* One list request beside two writers, all of which may die.
SPECIFICATION Spec
CONSTANTS
  r1 = r1
  r2 = r2
  w1 = w1
  w2 = w2
  p1 = p1
  p2 = p2
  Lists = {"cases", "lowStock", "query"}
  Ops = {"approveQuote", "createSalesOrder", "markFeedback", "saveColumns", "changeReportedRows", "moveStock"}
  Readers = {r1}
  Writers = {w1, w2}
  Pages = {p1}
  MaxOpen = 2
  MayCrash = TRUE
INVARIANTS OnlyFillsGoStale
PROPERTIES QueryResultsAge
CHECK_DEADLOCK FALSE
