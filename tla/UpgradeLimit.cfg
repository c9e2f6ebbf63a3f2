CONSTANTS
    c1 = c1
    c2 = c2
    p1 = p1
    p2 = p2
    Absent = Absent
    Junk = Junk
    Keys <- AllKeys
    Trusted <- TwoProxies
    Others <- AnyOthers
    MaxOwn = 2
    MaxHops = 2
    MaxEntries = 2
    Cost = 2
    Refill = 3
    Burst = 2
    TTL = 2
    MaxTime = 6
SPECIFICATION UpgradeSpec
SYMMETRY Alike
INVARIANTS
    MapBounded
    ChargedIsSender
PROPERTY ImplementsTokenBucket
