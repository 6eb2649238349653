\* Two tasks and the flush task, a cache of one session, rows that change and
\* queries that fail; one type is cacheable and one is not.
SPECIFICATION FairSpec
CONSTANTS
    p1 = p1
    p2 = p2
    t1 = t1
    t2 = t2
    Players = {p1, p2}
    Types = {"Bag", "Mail"}
    Cacheable = {"Bag"}
    Values = {1}
    None = None
    Tasks = {t1, t2}
    Flusher = Flusher
    MaxSessions = 1
    NegativeCacheEnabled = TRUE
    FlushIntervalSet = TRUE
    FindErrors = TRUE
    RowWrites = TRUE
    MaxOpens = 2
    MaxCalls = 3
CHECK_DEADLOCK FALSE
INVARIANTS TypeOK LruOK UnflushedIsMarked
PROPERTIES QueuedIsFlushed DirtyIsFlushed
