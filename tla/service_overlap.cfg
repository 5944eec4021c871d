SPECIFICATION ServiceSpec
CONSTANTS
    Readers = {r1, r2}
    Writers = {w1, w2}
    Empty = empty
    ImporterReplaces = TRUE
    MaxVersions = 3
    Requests = {s1, s2}
    Pipelines = {p, q}
    PoolSize = 7
    Unlocked = Unlocked
    NoCall = NoCall
    MaxPieces = 2
INVARIANTS
    OutdatedOnlyIfOvertaken
    ConnectionsSuffice
PROPERTIES
    ServiceSettles
