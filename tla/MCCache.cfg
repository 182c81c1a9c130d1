CONSTANTS
    o1 = o1
    o2 = o2
    k1 = k1
    k2 = k2
    t1 = t1
    None = None
    Objects = {o1, o2}
    LockTTL = 2
    ExtendTTLs = {}
    Wait = 1
    MaxSends = 1
    ReuseAtOnce = FALSE
    MaxUses = 1
    MaxFaults = 2
    MaxClock = 3
    Keys = {k1, k2}
    Hot = k1
    Tags = {t1}
    TTLs = {2}
    Jitter = 50
    TagSlack = 1
SPECIFICATION Spec
INVARIANTS
    TagCovers
    SingleLoader
    NoRedundantLoad
PROPERTIES
    InvalidateClears
SYMMETRY ObjectSymmetry
CHECK_DEADLOCK FALSE
