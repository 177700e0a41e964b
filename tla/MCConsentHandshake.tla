------------------------- MODULE MCConsentHandshake -------------------------
EXTENDS ConsentHandshake, TLC

CONSTANTS r1, r2, r3, a, b, ha, hb

MCRequests == {r1, r2, r3}
MCCallers == {a, b}
MCHolds == {ha, hb}
Symmetry == Permutations(MCRequests) \cup Permutations(MCCallers) \cup Permutations(MCHolds)
=============================================================================
