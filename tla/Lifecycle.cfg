SPECIFICATION LifeLiveSpec
CONSTANTS
  alice = alice
  c1 = c1
  s1 = s1
  s2 = s2
  rec1 = rec1
  NoSession = NoSession
  NoWorker = NoWorker
  BadBody = BadBody
  Login <- MCLogin
  Client <- MCClient
  LoginOf <- MCLoginOf
  Session <- OneSession
  Record <- MCRecord
  Patient <- NobodyPatient
  IssueStates <- AllIssues
  StaleAfter = 0
  Threshold = 1
  ReuseSession = FALSE
  Faulty = FALSE
  HalfSnapshots = TRUE
  ReplicaLag = 0
  MaxSkew = 0
  MaxCall = 0
  MaxComments = 2
  MaxClock = 2
  WritersFail = TRUE
  MaxEdits = 1
CHECK_DEADLOCK FALSE
INVARIANT LifeTypeOK
INVARIANT NeverUnlabelled
PROPERTY ImplementsLease
PROPERTY LabelsCatchUp
