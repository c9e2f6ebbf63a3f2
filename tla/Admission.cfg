CONSTANTS
    c1 = c1
    c2 = c2
    c3 = c3
    Conns <- ThreeConns
    MaxHandshakes = 2
    ArmOutcomes <- Always
SPECIFICATION FairSpec
INVARIANTS
    TypeOK
    SlotAccounting
    NoLostWakeup
    ServingHasNoDeadline
PROPERTIES
    CleanDrain
    ImplementsSemaphore
    SlotEventuallyFreed
    BrokenConnFinishes
    ShutdownTerminates
