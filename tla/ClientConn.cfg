CONSTANT MaxPingFailures = 3
SPECIFICATION FairSpec
INVARIANTS
    BlipsSpared
PROPERTIES
    SilentServerDropped
    GoroutinesEnd
