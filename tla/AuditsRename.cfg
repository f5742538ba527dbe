SPECIFICATION ASpec
CONSTANTS
  f = f
  g = g
  h = h
  thm = thm
  dfn = dfn
  axm = axm
  t1 = t1
  strong = strong
  weak = weak
  odd = odd
  murky = murky
  NoDecl = NoDecl
  Path <- ThreePaths
  Key <- MCKey
  Kind <- MCKind
  Single <- MCSingle
  Segment <- MCSegment
  Place <- MCPlace
  Stmt = {strong, weak, odd, murky}
  Opaque = {odd, murky}
  FirstLine <- MCFirstLine
  Cited <- MCCited
  Task <- MCTask
  Target <- MCTarget
  Allowed = {}
  InitTree <- DoneInitTree
  Edit <- MCEdit
  Setting <- MCSetting
  MaxEdits = 1
  MaxMoves = 1
  MaxRenames = 2
  MaxFaults = 0
CHECK_DEADLOCK FALSE
PROPERTY StatementsReachHead
