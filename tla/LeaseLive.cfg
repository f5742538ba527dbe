SPECIFICATION LiveSpec
CONSTANTS
  alice = alice
  bob = bob
  c1 = c1
  c2 = c2
  c3 = c3
  s1 = s1
  s2 = s2
  s3 = s3
  NoSession = NoSession
  NoWorker = NoWorker
  Patient <- BobPatient
  Login <- MCLogin
  LoginOf <- MCLoginOf
  Client <- TwoClients
  Session <- ThreeSessions
  IssueStates <- AlwaysFree
  StaleAfter = 1
  ReuseSession = FALSE
  Faulty = FALSE
  ReplicaLag = 0
  MaxSkew = 0
  MaxCall = 1
  MaxComments = 4
  MaxClock = 2
CHECK_DEADLOCK FALSE
PROPERTY RaceDecided
PROPERTY AbandonedTaskTaken
