SPECIFICATION Spec
CONSTANTS
  Values <- ValuesOf
  Beyond <- Past
  Keys <- KeysUsed
  Tables <- RowsFor
  Reads <- ReadsFor
  Room = 1
  PadSpaceLookups = 3
  MaxReads = 2
  None = None
INVARIANTS
  FlagsHold
CHECK_DEADLOCK FALSE
