CONSTANTS
    o1 = o1
    o2 = o2
    None = None
    Objects = {o1, o2}
    LockTTL = 2
    ExtendTTLs = {1, 2}
    Wait = 1
    MaxSends = 2
    ReuseAtOnce = FALSE
    MaxUses = 2
    MaxFaults = 2
    MaxClock = 3
SPECIFICATION LockFairSpec
INVARIANTS
    HolderOwnsKey
PROPERTIES
    AcquireEnds
CHECK_DEADLOCK FALSE
