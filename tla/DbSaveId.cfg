\* Two connections and no errors.
SPECIFICATION Spec
CONSTANTS
    t1 = t1
    t2 = t2
    c1 = c1
    c2 = c2
    None = None
    Tasks = {t1, t2}
    Journaled = {t1, t2}
    Conns = {c1, c2}
    Ids = {1}
    ExecErrors = FALSE
    JournalErrors = FALSE
    PoolResets = FALSE
    MaxCalls = 2
    MaxCrashes = 0
INVARIANT SaveSetsOwnId
CHECK_DEADLOCK FALSE
