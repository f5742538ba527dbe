--------------------------- MODULE MCPullRequest ----------------------------
EXTENDS PullRequest, TLC

CONSTANTS k1, k2

MCCommit == {k1, k2}
\* One run the prover relaxes, and one with every other required check.
MCRun == {"equiv", "audits"}
NoContext == {}
MCChecksOf == [r \in MCRun |->
  CASE r = "equiv"   -> {"statement-equiv"}
    [] r = "audits"  -> REQUIRED_PRESENT \ {"statement-equiv"}]
MCTrees == {MCRun, {"equiv"}}
Anywhere == BOOLEAN
Newcomer == {TRUE}
Both == {"agent", "overseer"}
=============================================================================
