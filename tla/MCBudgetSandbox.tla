------------------------- MODULE MCBudgetSandbox -------------------------
EXTENDS BudgetSandbox, TLC

CONSTANTS c1, c2, c3, s1, s2, x1, x2, x3

MCCalls == {c1, c2, c3}
\* three holds meet in s1, which is where they can interfere; s2 has none yet
MCSessions == {s1, s2}
MCStarts == {x1, x2, x3}
MCCities == {"TOKYO", "PARIS"}
MCCategories == {"FLIGHT", "HOTEL"}
HoldOf(s, a, k, n) == [session |-> s, city |-> a, category |-> k, amount |-> n]
MCHold ==
    (c1 :> HoldOf(s1, "TOKYO", "FLIGHT", 1))
        @@ (c2 :> HoldOf(s1, "TOKYO", "HOTEL", 2))
        @@ (c3 :> HoldOf(s1, "PARIS", "HOTEL", 4))
Symmetry == Permutations(MCStarts)
==========================================================================
