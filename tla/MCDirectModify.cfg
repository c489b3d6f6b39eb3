SPECIFICATION Spec
CONSTANTS
  Statement <- MCStatement
  ModifyOf <- MCModifyOf
  TablesFor <- MCTablesFor
  Pushable <- MCPushable
  Folds <- MCFolds
  OneRowFor <- MCOneRowFor
  ServerOn <- MCServerOn
  EngineOn <- MCEngineOn
  CountOn <- MCCountOn
CHECK_DEADLOCK FALSE
INVARIANTS
  TypeOK
  TakenConditionRuns
  CountsAreHonest
  OneErrorRaised
PROPERTY ModifiesAsTheServer
