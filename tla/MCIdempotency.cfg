CONSTANTS
    r1 = r1
    r2 = r2
    f1 = f1
    f2 = f2
    None = None
    Requests = {r1, r2}
    Fingerprint <- MCFingerprint
    ProcessingTTL = 2
    CompletedTTL = 2
    MaxSends = 2
    MaxBegins = 2
    MaxFaults = 2
    MaxClock = 3
SPECIFICATION Spec
INVARIANTS
    LeaseHolds
    ReplayIsOwnRequest
PROPERTIES
    CompletedStable
CHECK_DEADLOCK FALSE
