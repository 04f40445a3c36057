\* Two requests of any kind on one list, either of which may die.
SPECIFICATION Spec
CONSTANTS
  r1 = r1  r2 = r2
  Requests = {r1, r2}
  Rows = {1, 2, 3}
  Labels = {"a", "A"}
  Capitals <- MCCapitals
  Exts = {"png", "jpg"}
  Start <- MCStart
  MayCrash = TRUE
INVARIANTS NoOrphans ImagesStored
PROPERTIES LoneMarkLeavesOne
CHECK_DEADLOCK FALSE
