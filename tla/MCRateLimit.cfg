CONSTANTS
    Units = 3
    Capacity = 3
    Refill = 2
    Costs = {1, 2, 3}
    MinTTL = 2
    MaxChecks = 6
    MaxNow = 12
SPECIFICATION LimitSpec
INVARIANTS
    NeverOverLimit
    RetryAfterIsExact
PROPERTIES
    ImplementsTokenBucket
CHECK_DEADLOCK FALSE
