CONSTANTS
    r1 = r1
    r2 = r2
    r3 = r3
    r4 = r4
    h1 = h1
    NoRequest = NoRequest
    Requests <- MCRequests
    Holds <- MCHolds
    CodeTtl = 1
    RefreshTtl = 1
    AccessTtl = 1
    MaxTime = 2
SYMMETRY Symmetry
SPECIFICATION Spec
INVARIANT TypeOK
INVARIANT ProvedConsent
INVARIANT GrantedInLifetime
INVARIANT RefusedForAReason
INVARIANT GrantedIsStored
PROPERTY ImplementsConsentLineage
CHECK_DEADLOCK FALSE
