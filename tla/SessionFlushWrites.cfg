\* Nobody but a flush could write a row.
SPECIFICATION FairSpec
CONSTANTS
    p1 = p1
    p2 = p2
    t1 = t1
    t2 = t2
    Players = {p1, p2}
    Types = {"Bag"}
    Cacheable = {"Bag"}
    Values = {1}
    None = None
    Tasks = {t1}
    Flusher = Flusher
    MaxSessions = 1
    NegativeCacheEnabled = FALSE
    FlushIntervalSet = TRUE
    FindErrors = FALSE
    RowWrites = FALSE
    MaxOpens = 2
    MaxCalls = 4
CHECK_DEADLOCK FALSE
INVARIANT FlushWritesBack
