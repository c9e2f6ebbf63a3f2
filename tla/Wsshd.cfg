CONSTANTS
    c1 = c1
    c2 = c2
    s1 = s1
    s2 = s2
    small = small
    NoConn = NoConn
    Conns <- OneConn
    MaxHandshakes = 1
    ArmOutcomes <- Always
    Sessions <- TwoSessions
    MaxChildren = 1
    Sizes <- OneSize
    DefaultSize = small
    Kinds <- StartOnly
    MaxQueued = 1
    MaxOut = 0
    MayFork = FALSE
    MaxSessionsPerConn = 1
SPECIFICATION Spec
INVARIANT CountCoversChannels
PROPERTIES
    ImplementsSemaphore
    DrainLeavesNoChannel
