SPECIFICATION Spec
CONSTANTS
  Kits <- LeanStatements
  LexRoom = 4
  StatementRoom = 8
  ScopeRoom = 12
CHECK_DEADLOCK FALSE
INVARIANT StatementSeen
