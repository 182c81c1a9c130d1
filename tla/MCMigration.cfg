CONSTANTS
    Workers = {w1, w2}
    Deployers = {d1, d2}
    OldApps = {o1}
    NewApps = {n1}
    MaxUpgrades = 3
    MaxId = 2
    BatchSize = 1
    Limits = {0, 1}
    Programs <- MCPrograms
SPECIFICATION Spec
INVARIANTS
    StampedIsApplied
    AdmittedCanWrite
    CheckpointCovers
    EachRowOnce
    LintedIsHarmless
SYMMETRY ProcessSymmetry
CHECK_DEADLOCK FALSE
