CONSTANTS
    r1 = r1
    r2 = r2
    r3 = r3
    a = a
    b = b
    ha = ha
    hb = hb
    NoCaller = NoCaller
    NoRequest = NoRequest
    NoHold = NoHold
    Requests <- MCRequests
    Callers <- MCCallers
    Holds <- MCHolds
    MaxSessions = 2
SYMMETRY Symmetry
SPECIFICATION Spec
INVARIANT TypeOK
INVARIANT SendNeverWedged
INVARIANT EventsHaveConsent
INVARIANT ShownIsOwn
INVARIANT ShownIsTrue
CHECK_DEADLOCK FALSE
