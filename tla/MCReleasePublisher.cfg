CONSTANTS
    j1 = j1
    j2 = j2
    Jobs = {j1, j2}
    Commits = {1, 2}
    Variants = {1}
    AssetNames <- MCAssetNames
    ExtraNames = {"notes"}
    OldReleases <- MCOldReleases
    MaxAttempts = 2
    MaxReleases = 5
    MaxFaults = 2
    None = None
SPECIFICATION Spec
INVARIANTS
    PublishedAtTag
    PublishedIsComplete
    FailedJobsAreRepaired
PROPERTIES
    CompleteIsFinal
CHECK_DEADLOCK FALSE
