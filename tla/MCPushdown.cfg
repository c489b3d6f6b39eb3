SPECIFICATION Spec
CONSTANTS
  ColType <- Types
  ColCs <- Collations
  Statement <- MCStatement
  UnitOf <- MCUnitOf
  ContextOf <- MCContextOf
  TablesFor <- MCTablesFor
  Foreign <- MCForeign
CHECK_DEADLOCK FALSE
INVARIANTS
  TypeOK
  PushedRowsAreTheServers
