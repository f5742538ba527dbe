--------------------------- MODULE MCContribution ---------------------------
EXTENDS Contribution, TLC

CONSTANTS alice, bob, i1, a1, a2

MCSlot == {<<alice, i1>>, <<bob, i1>>}
MCProcess == {a1, a2}
MCWorkerOf == (a1 :> alice) @@ (a2 :> alice)
MCOwner == {}
=============================================================================
