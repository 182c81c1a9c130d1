CONSTANTS
    e1 = e1
    e2 = e2
    w1 = w1
    w2 = w2
    None = None
    Events = {e1, e2}
    Workers = {w1, w2}
    BatchSize = 2
    StaleAfter = 1
    MaxAttempts = 2
    BaseDelay = 1
    MaxDelay = 1
    Delays = {0}
    Skew <- MCSkew
    MaxClock = 2
    MaxClaims = 3
    MaxFaults = 1
SPECIFICATION Spec
INVARIANTS
    TypeOK
    TokenIffProcessing
    VersionAgreesWithLease
    DeadIffExhausted
    SettlerIsNamed
PROPERTIES
    ImplementsLedger
    TerminalStable
    NoLostUpdate
SYMMETRY EventSymmetry
CHECK_DEADLOCK FALSE
