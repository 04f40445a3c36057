\* Three requests, one after the other.
SPECIFICATION Spec
CONSTANTS
  r1 = r1  r2 = r2  r3 = r3  first = first
  Requests = {r1, r2, r3}
  FirstItems = first
  InitStatuses = {"DRAFT", "PENDING_APPROVAL", "REVIZE"}
  Targets = {"SENT", "PENDING_APPROVAL", "APPROVED", "REJECTED", "REVIZE"}
  Kinds = {"update", "approve", "reject", "remove"}
  MaxOpen = 1
  HasContact = TRUE
  MayCrash = FALSE
SYMMETRY Symmetry
INVARIANTS OneItemList
PROPERTIES FollowsWorkflow
CHECK_DEADLOCK FALSE
