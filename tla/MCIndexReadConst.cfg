SPECIFICATION Spec
CONSTANTS
  Values <- ValuesOf
  Beyond <- Past
  Keys <- LongKeys
  Tables <- RowsFor
  Reads <- ReadsFor
  Room = 1
  PadSpaceLookups = 3
  MaxReads = 2
  None = None
INVARIANTS
  ConstantsHold
CHECK_DEADLOCK FALSE
