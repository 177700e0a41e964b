CONSTANTS
    c1 = c1
    c2 = c2
    c3 = c3
    c4 = c4
    s1 = s1
    s2 = s2
    NoCall = NoCall
    Calls <- MCCalls
    Sessions <- MCSessions
    SessionOf <- MCSessionOf
SPECIFICATION FairSpec
INVARIANT TypeOK
INVARIANT MutualExclusion
PROPERTY ImplementsFifoMutex
PROPERTY EveryCallGetsItsTurn
