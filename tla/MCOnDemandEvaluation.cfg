CONSTANTS
    c1 = c1
    c2 = c2
    s1 = s1
    x1 = x1
    x2 = x2
    NoStart = NoStart
    Calls <- MCCalls
    Sessions <- MCSessions
    Starts <- MCStarts
    Cities <- MCCities
    Categories <- MCCategories
    Hold <- MCHold
    Transcript = s1
    Budget = 2
    MaxAttempts = 2
SPECIFICATION FairSpec
INVARIANT TypeOK
INVARIANT FailedSessionIsOverBudget
INVARIANT HighestTotalIsFinal
INVARIANT LastSpanHasFinalTotal
PROPERTY EvaluationEnds
CHECK_DEADLOCK FALSE
