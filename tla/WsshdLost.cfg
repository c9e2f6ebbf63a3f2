CONSTANTS
    c1 = c1
    c2 = c2
    s1 = s1
    s2 = s2
    small = small
    NoConn = NoConn
    Conns <- OneConn
    MaxHandshakes = 1
    ArmOutcomes <- Always
    Sessions <- OneSession
    MaxChildren = 1
    Sizes <- OneSize
    DefaultSize = small
    Kinds <- TtyAndStart
    MaxQueued = 1
    MaxOut = 1
    MayFork = TRUE
    MaxSessionsPerConn = 1
SPECIFICATION FairSpec
PROPERTY LostConnEndsSessions
