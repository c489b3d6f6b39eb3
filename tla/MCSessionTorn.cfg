SPECIFICATION Spec
CONSTANTS
  None = None
  a = a
  f = f
  a1 = a1
  f1 = f1
  f2 = f2
  Conn = {c1, c2}
  Val = {v1, v2}
  Table <- TablesAF
  Row <- RowsAF
  TableOf <- RowTable
  FkTable = {f}
  DefaultLevel = "RC"
CONSTRAINT OneBusy
SYMMETRY Symmetric
INVARIANTS
  OneStatementViewAlways
