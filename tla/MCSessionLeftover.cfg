SPECIFICATION Spec
CONSTANTS
  None = None
  a = a
  f = f
  a1 = a1
  f1 = f1
  f2 = f2
  Conn = {c1, c2}
  Val = {v1, v2}
  Table <- TablesF
  Row <- RowsF
  TableOf <- RowTable
  FkTable = {f}
  DefaultLevel = "RC"
SYMMETRY Symmetric
INVARIANTS
  FailedStatementLeavesNothing
