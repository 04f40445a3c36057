\* Three requests, two beside each other, of one group of operations.
SPECIFICATION Spec
CONSTANTS
  u1 = u1  u2 = u2  u3 = u3  clerk = clerk  guest = guest  r1 = r1  r2 = r2
  Requests = {r1, r2}
  Users = {u1, u2, u3}
  Browsers = {u1, u2}
  Roles = {clerk, guest}
  Links = {"l1", "l2"}
  AccessTTL = 2
  MarkerTTL = 3
  CacheTTL = 1
  LinkTTL = 1
  TrialTTL = 1
  MaxRequests = 3
  Grants <- MCGrants
  Modules = {"crm"}
  Offers <- MCOffers
SYMMETRY Either
INVARIANTS EveryNeedGrantable OneResetPerLink AdminRemains
PROPERTIES SessionsEndAtReset AccessEnds LoneRemovalKeepsRoles PageStaysClosed
CHECK_DEADLOCK FALSE
