CONSTANTS
    c1 = c1
    c2 = c2
    c3 = c3
    s1 = s1
    s2 = s2
    x1 = x1
    x2 = x2
    x3 = x3
    NoStart = NoStart
    Calls <- MCCalls
    Sessions <- MCSessions
    Starts <- MCStarts
    Cities <- MCCities
    Categories <- MCCategories
    Hold <- MCHold
SYMMETRY Symmetry
SPECIFICATION Spec
PROPERTY RunningTotalOnlyGrows
CHECK_DEADLOCK FALSE
