CONSTANTS
    s1 = s1
    s2 = s2
    small = small
    large = large
    Sessions <- OneSession
    MaxChildren = 1
    Sizes <- TwoSizes
    DefaultSize = small
    Kinds <- EveryKind
    MaxQueued = 2
    MaxOut = 2
    MayFork = TRUE
SPECIFICATION ReadingSpec
INVARIANTS
    SlotAccounting
    PipeOutputBeforeStatus
    NothingLeft
    PtyFollowsClient
PROPERTIES
    OneChild
    LostSessionEnds
    ExitReported
