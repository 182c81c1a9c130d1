CONSTANTS
    t1 = t1
    c1 = c1
    n1 = n1
    n2 = n2
    None = None
    Tasks = {t1}
    Conns = {c1}
    Tenants = {n1, n2}
    MaxAttempts = 2
    MaxCommits = 1
    MaxDepth = 2
    MaxRows = 1
    MaxFlaws = 1
SPECIFICATION Spec
INVARIANTS
    TenantIsolation
    AppliedAsAsked
    OutcomeIsTrue
SYMMETRY TenantSymmetry
CHECK_DEADLOCK FALSE
