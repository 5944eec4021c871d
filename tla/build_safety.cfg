SPECIFICATION Spec
CONSTANTS
    Ids = {p}
    Workers = {w1, w2, w3}
    Free = free
    Missing = missing
    Partial = partial
    Operations <- EveryOperation
    MaxVersions = 3
    MaxFailures = 1
    MaxCrashes = 1
SYMMETRY WorkerSymmetry
INVARIANTS
    TargetComplete
    SwapForward
