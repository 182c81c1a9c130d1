CONSTANTS
    Sessions = {s1, s2}
    GetArguments <- MCGetArguments
    MaxUpdates = 2
    MaxVersion = 3
SPECIFICATION Spec
INVARIANTS
    VersionedNoLostUpdate
    LockedNoLostUpdate
PROPERTIES
    NoResurrection
SYMMETRY SessionSymmetry
CHECK_DEADLOCK FALSE
