SPECIFICATION Spec
CONSTANTS
  k1 = k1
  k2 = k2
  NoCommit = NoCommit
  First = k1
  Commit <- MCCommit
  Run <- MCRun
  Context <- NoContext
  ChecksOf <- MCChecksOf
  Trees <- MCTrees
  SameRepos <- Anywhere
  FirstTimes <- Newcomer
  Prover = "lean4"
  Caller <- Both
  MaxOverrides = 1
  MaxEvents = 2
CHECK_DEADLOCK FALSE
INVARIANT PRTypeOK
INVARIANT MergedVouched
INVARIANT OverrideOnTrail
PROPERTY LandingReported
PROPERTY HeldUntilApproved
