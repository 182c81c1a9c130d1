CONSTANTS
    Null = Null
    Ids = {1, 2, 3}
    Ranks = {1, 2, Null}
    Fields <- MCFields
    Nullable = {"rank"}
    TieBreaker = "id"
    TieDirection = Null
    DefaultNulls <- MCDefaultNulls
    Rows <- MCRows
    Queries = {"all", "low"}
    Matches <- MCMatches
    SortRequests <- MCAllRequests
    LegacyColumns = {"level"}
    Limits = {1, 2}
    MaxPages = 4
    MaxPage = 3
    MaxChanges = 2
SPECIFICATION Spec
INVARIANTS
    NothingSkipped
    OneQuery
PROPERTIES
    PagesInOrder
    OffsetNextIsTrue
CHECK_DEADLOCK FALSE
