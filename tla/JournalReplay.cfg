\* Only the program crashes; writing does not fail.
SPECIFICATION FairSpec
CONSTANTS
    e1 = e1
    e2 = e2
    e3 = e3
    w1 = w1
    w2 = w2
    Entries = {e1, e2, e3}
    Large = {e3}
    None = None
    Tasks = {w1, w2}
    IoErrors = FALSE
    PowerFailures = FALSE
    MaxCrashes = 1
CHECK_DEADLOCK FALSE
INVARIANT AckedIsReplayed
