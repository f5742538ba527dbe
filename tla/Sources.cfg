SPECIFICATION Spec
CONSTANTS
  Kits <- AllKits
  LexRoom = 5
  StatementRoom = 8
  ScopeRoom = 15
CHECK_DEADLOCK FALSE
INVARIANT CommentsBlanked
INVARIANT BlankersAgree
INVARIANT ContinuationInside
INVARIANT KeysAgree
INVARIANT StatementKept
