\* Three requests on an order of two items, any of which may die.
SPECIFICATION Spec
CONSTANTS
  i1 = i1  i2 = i2  none = none
  NoId = none
  MaxRequests = 3
  MaxOpen = 2
  Orders = {"sales", "purchase"}
  FirstItems = {i1, i2}
  Quantities = {2}
  Targets = {"DELIVERED", "FULLY_RECEIVED", "CANCELLED"}
  MayCrash = TRUE
PROPERTIES LoneChangeFits LoneFullCompletes
CHECK_DEADLOCK FALSE
