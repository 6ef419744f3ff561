CONSTANTS
    p1 = p1
    p2 = p2
    p3 = p3
    t1 = t1
    t2 = t2
    Nobody = Nobody
    Null = Null
    Error = Error
    None = None
    MinInt <- Lowest
    MaxInt = 1
    Table = {1, 2}
    Contents <- SmallTables
    Indexable <- ValueColumns
    Queries <- AllQueries
SPECIFICATION SpecComponents
INVARIANTS
    PlansAgree  TreeIsValid LookupsAgree
    RecordsAreKept RetiredStayGone NoCommittedImageIsLost
PROPERTIES
    ImplementsOrderedMap FlushMakesDurable
CHECK_DEADLOCK FALSE
