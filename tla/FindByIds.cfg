\* Two calls of up to three ids in two chunks, one connection, every failure.
SPECIFICATION FairSpec
CONSTANTS
    r1 = r1
    r2 = r2
    x1 = x1
    x2 = x2
    x3 = x3
    c1 = c1
    v1 = v1
    None = None
    Reads = {r1, r2}
    Ids = {x1, x2, x3}
    Contents = {v1}
    Conns = {c1}
    Workers = 2
    Errors = TRUE
    Requests <- MCRequests
INVARIANTS TypeOK PoolOK AnswerOnce
PROPERTIES ImplementsRowReads CallsReturn ConnsComeBack
CHECK_DEADLOCK FALSE
