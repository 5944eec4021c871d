SPECIFICATION FairSpec
CONSTANTS
    Null = null
    a = a
    b = b
    g = g
    h = h
    bars = bars
    text = text
    Configs <- View
    Selectors <- Mixed
    NeedsSvg = TRUE
    Concurrency = 3
    MayTimeOut = TRUE
    MayFail = TRUE
INVARIANTS
    HandlerRestored
    ExactFiles
    OwnWidgetOnly
PROPERTIES
    RunEnds
