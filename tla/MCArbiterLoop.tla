--------------------------- MODULE MCArbiterLoop ----------------------------
EXTENDS ArbiterLoop

CONSTANTS alice, bob, s1

MCLogin == {alice, bob}
MCSession == {s1}
MCStamps == {0, 2}
MCClock == 0..3
Symmetry == Permutations(MCLogin)
=============================================================================
