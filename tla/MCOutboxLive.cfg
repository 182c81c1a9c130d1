CONSTANTS
    e1 = e1
    e2 = e2
    w1 = w1
    w2 = w2
    None = None
    Events = {e1}
    Workers = {w1, w2}
    BatchSize = 1
    StaleAfter = 2
    MaxAttempts = 2
    BaseDelay = 1
    MaxDelay = 1
    Delays = {0}
    Skew <- MCSkew
    MaxClock = 16
    MaxClaims = 6
    MaxFaults = 2
SPECIFICATION PromptSpec
PROPERTIES
    EveryEventSettles
CHECK_DEADLOCK FALSE
