SPECIFICATION Spec
CONSTANTS
  Ids = {i1, i2}
  Segments = {"a", "b", "set"}
  NameList <- MCNameList
  Undefined = Undefined
  MaxSteps = 4
INVARIANTS
  TypeOK
  NoForeignValues
  PlainNamesAreHeard
  PublishedUnderTheId
PROPERTIES
  EarlierIdsAreNotHeard
\* The bound on the steps is used up.
CHECK_DEADLOCK FALSE
