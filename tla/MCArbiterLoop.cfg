SPECIFICATION Spec
CONSTANTS
  alice = alice
  bob = bob
  s1 = s1
  Login <- MCLogin
  Session <- MCSession
  NoSession = NoSession
  NoWorker = NoWorker
  StaleAfter = 1
  MaxComments = 4
  Stamps <- MCStamps
  Clock <- MCClock
SYMMETRY Symmetry
CHECK_DEADLOCK FALSE
INVARIANT LoopDecides
INVARIANT SupersededLost
