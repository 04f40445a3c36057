\* Two requests at a time, any of them may die.
SPECIFICATION FairSpec
CONSTANTS
  r1 = r1  r2 = r2  r3 = r3  first = first
  Requests = {r1, r2}
  FirstItems = first
  InitStatuses = {"DRAFT", "PENDING_APPROVAL", "REVIZE"}
  Targets = {"SENT", "PENDING_APPROVAL", "APPROVED", "REJECTED", "REVIZE"}
  Kinds = {"update", "approve", "reject", "remove"}
  MaxOpen = 2
  HasContact = TRUE
  MayCrash = TRUE
INVARIANTS StatusRecorded OneSale ItemsAreCommitted
PROPERTIES EveryRequestAnswered
CHECK_DEADLOCK FALSE
