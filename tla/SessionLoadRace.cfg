\* A put and a load of the same session by two tasks.
SPECIFICATION FairSpec
CONSTANTS
    p1 = p1
    p2 = p2
    t1 = t1
    t2 = t2
    Players = {p1}
    Types = {"Bag"}
    Cacheable = {"Bag"}
    Values = {1, 2}
    None = None
    Tasks = {t1, t2}
    Flusher = Flusher
    MaxSessions = 1
    NegativeCacheEnabled = FALSE
    FlushIntervalSet = FALSE
    FindErrors = FALSE
    RowWrites = FALSE
    MaxOpens = 1
    MaxCalls = 3
CHECK_DEADLOCK FALSE
PROPERTY LoadNeverReplaces
