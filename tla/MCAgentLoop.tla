---------------------------- MODULE MCAgentLoop -----------------------------
EXTENDS AgentLoop, TLC

CONSTANTS k1, k2

TwoCommits == {k1, k2}

\* One run the prover relaxes, one that fails fixably and takes the comparator with
\* it, one with the other required checks, and a commit status nobody registered.
LoopRun == {"equiv", "build", "audits", "codecov"}
LoopContext == {"codecov"}
LoopChecksOf == [r \in LoopRun |->
  CASE r = "equiv"   -> {"statement-equiv"}
    [] r = "build"   -> QualityChecks \cup SALVAGE_OPAQUE
    [] r = "audits"  -> TrustChecks \ ({"statement-equiv"} \cup SALVAGE_OPAQUE)
    [] r = "codecov" -> {Unregistered}]
LoopTrees == {LoopRun \ LoopContext}

InRepo == {TRUE}
Newcomer == {TRUE}
JustAgent == {"agent"}
=============================================================================
