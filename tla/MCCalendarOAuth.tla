-------------------------- MODULE MCCalendarOAuth --------------------------
EXTENDS CalendarOAuth, TLC

CONSTANTS r1, r2, r3, r4, h1

MCRequests == {r1, r2, r3, r4}
MCHolds == {h1}
Symmetry == Permutations(MCRequests)
============================================================================
