CONSTANTS
  i1 = i1
  i2 = i2
  i3 = i3
  a = a
  b = b
  Id <- Ids
  Col <- Columns
  Key = {1}
  Null = 0
  NoRow = NoRow
  Gone = Gone
  None = None
  Indexes <- Tables
  MaxWrites = 3
  MaxOthers = 1
SPECIFICATION Spec
SYMMETRY Alike
PROPERTIES
  FailedWriteAlwaysKeepsRows
