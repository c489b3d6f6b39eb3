SPECIFICATION Spec
CONSTANTS
  a = a
  b = b
  other = other
  Conn = {c1, c2}
  Table <- Tables
  Home <- OneDatabase
  ForeignKeys <- Graphs
  MaxCount = 2
  MaxRows = 1
  Busy <- OneDatabase
  Transacting = {c1}
  MaxWrites = 2
  MaxDdl = 2
  Gone = Gone
  None = None
INVARIANT DropDatabaseRefuses
CHECK_DEADLOCK FALSE
