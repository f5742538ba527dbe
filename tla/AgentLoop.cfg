SPECIFICATION LoopLiveSpec
CONSTANTS
  k1 = k1
  k2 = k2
  NoCommit = NoCommit
  First = k1
  Commit <- TwoCommits
  Run <- LoopRun
  Context <- LoopContext
  ChecksOf <- LoopChecksOf
  Trees <- LoopTrees
  SameRepos <- InRepo
  FirstTimes <- Newcomer
  Prover = "lean4"
  PollProver = "none"
  Caller <- JustAgent
  MaxWait = 2
  MaxOverrides = 0
  MaxEvents = 1
CHECK_DEADLOCK FALSE
INVARIANT VerdictsAgree
PROPERTY GreenMerged
PROPERTY HeldReleased
PROPERTY NoTrustSeed
