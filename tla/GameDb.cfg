\* Two tasks, two repositories and two sessions.
SPECIFICATION FairSpec
CONSTANTS
    t1 = t1
    t2 = t2
    s1 = s1
    s2 = s2
    Tasks = {t1, t2}
    Sessions = {s1, s2}
    Configs <- MCConfigs
    MaxInits = 2
    MaxCalls = 2
INVARIANTS TypeOK LoggedUntilClosed CloseFlushesFirst
PROPERTIES MarksTaken CallsReturn
CHECK_DEADLOCK FALSE
