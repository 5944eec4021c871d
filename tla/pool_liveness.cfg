SPECIFICATION FairSpec
CONSTANTS
    Requests = {r1, r2}
    Evictor = evictor
    Closer = closer
    Nobody = nobody
    Sessions = {s1}
    NoSession = none
    MaxSessions = 1
    MaxWaiters = 1
    MaxCrashes = 1
    StartErrors = FALSE
    MayClose = TRUE
INVARIANTS
    NoSlotLeak
PROPERTIES
    EveryRequestReturns
    IdleServerHoldsNoChromium
