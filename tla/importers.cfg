SPECIFICATION ImportersSpec
CHECK_DEADLOCK FALSE
CONSTANTS
    x = x
    y = y
    z = z
    Files = {x, z}
    BaseId <- SameIdThenSameName
    NameOf <- TwoNames
    MaxCopies = 1
    MaxVersions = 3
    ReplaceIfDifferent = TRUE
    MaxPerRun = 1
    MaxCrashes = 2
    MaxScanCrashes = 1
    p = p
    q = q
    d = d
    Inputs = {p, q}
    DocOf <- OneDocument
    TextOf <- Texts
    TypeSystems <- SmallOrLarge
    Writers = {1, 2}
    Preparer = 0
    Sofas = Sofas
    NoDocument = NoDocument
    Free = Free
    MaxErrors = 1
    MaxRuns = 2
INVARIANTS
    LatestEditionStored
    DocumentsAreWhole
    OthersAreImported
PROPERTY
    ImportsReplaceDocuments
