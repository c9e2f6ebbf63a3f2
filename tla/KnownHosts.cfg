CONSTANTS
    r1 = r1
    r2 = r2
    r3 = r3
    k1 = k1
    k2 = k2
    Runs <- ThreeRuns
    Keys <- TwoKeys
    Torn <- Either
SPECIFICATION Spec
INVARIANT AcceptedIsRecorded
PROPERTY KeyAddedByUnaware
