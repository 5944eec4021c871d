SPECIFICATION FairSpec
CONSTANTS
    x = x
    y = y
    z = z
    Files = {x, y, z}
    BaseId <- SameIdThenSameName
    NameOf <- TwoNames
    MaxCopies = 2
    MaxVersions = 2
    ReplaceIfDifferent = FALSE
    MaxPerRun = 3
    MaxCrashes = 1
    MaxScanCrashes = 0
INVARIANTS
    EveryNameStoredOnce
PROPERTIES
    StoredIsBuilt
