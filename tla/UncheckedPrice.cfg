CONSTANTS
    c1 = c1
    c2 = c2
    c3 = c3
    c4 = c4
    s1 = s1
    s2 = s2
    atThreshold = atThreshold
    above = above
    Calls <- MCCalls3
    Sessions <- MCSessions
    Candidates <- MCCandidates
    SearchResults <- MCSearchResults
    LivePrice <- MCLivePrice
    Threshold = 5
    NoPrice = NoPrice
    MaxRounds = 3
SYMMETRY Symmetry
SPECIFICATION Spec
INVARIANT EveryHoldPriceChecked
CHECK_DEADLOCK FALSE
