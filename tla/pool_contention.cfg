SPECIFICATION Spec
CONSTANTS
    Requests = {r1, r2, r3}
    Evictor = evictor
    Closer = closer
    Nobody = nobody
    Sessions = {s1, s2, s3}
    NoSession = none
    MaxSessions = 2
    MaxWaiters = 1
    MaxCrashes = 1
    StartErrors = TRUE
    MayClose = FALSE
SYMMETRY ThreadAndSessionSymmetry
INVARIANTS
    PermitsConserved
    SoleOwner
    BrowserBound
    OfferFits
PROPERTIES
    ClosedByOwnerOnly
    LendsSessions
