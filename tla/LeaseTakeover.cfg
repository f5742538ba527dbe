SPECIFICATION Spec
CONSTANTS
  alice = alice
  bob = bob
  c1 = c1
  c2 = c2
  c3 = c3
  s1 = s1
  s2 = s2
  s3 = s3
  NoSession = NoSession
  NoWorker = NoWorker
  Patient <- NobodyPatient
  Login <- MCLogin
  LoginOf <- MCLoginOf
  Client <- TwoClients
  Session <- ThreeSessions
  IssueStates <- AlwaysFree
  StaleAfter = 1
  ReuseSession = FALSE
  Faulty = TRUE
  ReplicaLag = 0
  MaxSkew = 0
  MaxCall = 0
  MaxComments = 5
  MaxClock = 3
SYMMETRY DuelSymmetry
CHECK_DEADLOCK FALSE
INVARIANT OneStandingWinner
INVARIANT NoFalseLoss
PROPERTY BeatRefreshes
PROPERTY ReleaseFrees
