\* Two requests that both find the quote open.
SPECIFICATION Spec
CONSTANTS
  r1 = r1  r2 = r2  r3 = r3  first = first
  Requests = {r1, r2}
  FirstItems = first
  InitStatuses = {"PENDING_APPROVAL"}
  Targets = {"SENT", "APPROVED"}
  Kinds = {"update", "approve"}
  MaxOpen = 2
  HasContact = TRUE
  MayCrash = FALSE
PROPERTY SettledStaysSettled
CHECK_DEADLOCK FALSE
