SPECIFICATION Spec
CONSTANTS
  alice = alice
  bob = bob
  c1 = c1
  c2 = c2
  c3 = c3
  s1 = s1
  s2 = s2
  s3 = s3
  NoSession = NoSession
  NoWorker = NoWorker
  Patient <- NobodyPatient
  Login <- MCLogin
  LoginOf <- MCLoginOf
  Client <- ThreeClients
  Session <- TwoSessions
  IssueStates <- FreeOrTaken
  StaleAfter = 1
  ReuseSession = FALSE
  Faulty = TRUE
  ReplicaLag = 1
  MaxSkew = 0
  MaxCall = 0
  MaxComments = 4
  MaxClock = 0
SYMMETRY RaceSymmetry
CHECK_DEADLOCK FALSE
INVARIANT TypeOK
INVARIANT ClaimedExclusive
PROPERTY OnlyOwnReleaseFrees
