\* Three creates of any kind, or two imports of one kind, with removals and crashes.
SPECIFICATION ImportsSpec
CONSTANTS
  r1 = r1  r2 = r2  r3 = r3  k1 = k1  i1 = i1  i2 = i2  none = none
  Requests = {r1, r2, r3}
  Kinds = {"quote", "project", "salesOrder", "approval", "purchaseOrder"}
  Keys = {k1}
  NoKey = none
  None = none
  MaxAttempts <- MCAttempts
  MayCrash = TRUE
  MayRemove = TRUE
  Importers = {i1, i2}
  Offers <- MCOffers
SYMMETRY Either
INVARIANTS FailsOnlyWhenCrowded AnsweredWithOneDocument
PROPERTIES LoneImportComplete KeysKept
CHECK_DEADLOCK FALSE
