CONSTANTS
    d1 = d1
    d2 = d2
    Daemons <- TwoDaemons
    Paths <- TwoPaths
    Launches <- SomeLaunches
    MaxStarts = 3
SPECIFICATION FairSpec
INVARIANTS
    OneIdentity
    ServesFileKey
    ServesAsConfigured
PROPERTY StartEnds
