SPECIFICATION FairSpec
CONSTANTS
    Ids = {p}
    Workers = {w1, w2}
    Free = free
    Missing = missing
    Partial = partial
    Operations <- WithoutDelete
    MaxVersions = 3
    MaxFailures = 2
    MaxCrashes = 1
INVARIANTS
    SettledDataIsCurrent
PROPERTIES
    NeverLastCopy
    EveryRequestEnds
