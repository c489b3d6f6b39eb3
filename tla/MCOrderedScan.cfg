SPECIFICATION Spec
CONSTANTS
  Gone = Gone
  None = None
  Id <- Ids
  Key <- Keys
  FirstPage = 1
  Growth = 2
  MaxPage = 4
  MaxChanges = 1
INVARIANTS
  TypeOK
  GivenOnce
  NothingSkipped
PROPERTY
  InOrder
CHECK_DEADLOCK FALSE
