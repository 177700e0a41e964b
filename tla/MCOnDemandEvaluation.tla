------------------------ MODULE MCOnDemandEvaluation ------------------------
EXTENDS OnDemandEvaluation, TLC

CONSTANTS c1, c2, s1, x1, x2

\* two holds and two sandboxes: totals of 1, 2 and 3 around a budget of 2
MCCalls == {c1, c2}
MCSessions == {s1}
MCStarts == {x1, x2}
MCCities == {"TOKYO"}
MCCategories == {"FLIGHT"}
HoldOf(n) == [session |-> s1, city |-> "TOKYO", category |-> "FLIGHT", amount |-> n]
MCHold == (c1 :> HoldOf(1)) @@ (c2 :> HoldOf(2))
=============================================================================
