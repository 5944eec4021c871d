SPECIFICATION FairSpec
CONSTANTS
    x = x
    y = y
    z = z
    Files = {x}
    BaseId <- SameIdThenSameName
    NameOf <- TwoNames
    MaxCopies = 1
    MaxVersions = 1
    ReplaceIfDifferent = FALSE
    MaxPerRun = 2
    MaxCrashes = 0
    MaxScanCrashes = 1
PROPERTIES
    StoredIsBuilt
