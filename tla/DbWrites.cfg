\* Two tasks and one connection: errors, a crash, close.
SPECIFICATION FairSpec
CONSTANTS
    t1 = t1
    t2 = t2
    c1 = c1
    c2 = c2
    None = None
    Tasks = {t1, t2}
    Journaled = {t1, t2}
    Conns = {c1}
    Ids = {1}
    ExecErrors = TRUE
    JournalErrors = TRUE
    PoolResets = TRUE
    MaxCalls = 2
    MaxCrashes = 1
INVARIANTS TypeOK PoolOK JournalInCallOrder JournaledOnce ExecutedOnce ReplayRestores
PROPERTY CallsReturn
CHECK_DEADLOCK FALSE
