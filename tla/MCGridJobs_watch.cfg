\* Two jobs for one slot, one of them watched by execute(); nobody cancels.
CONSTANTS
    Jobs = {j1, j2}
    Watched = {j1}
    Unsendable = {j2}
    Cancellers = {}
    MaxConcurrent = 1
    QueueGrace = 1
    WarnAt = 2
    Timeout = 3
    None = None
SPECIFICATION FairSpec
INVARIANT WarnsOnce
PROPERTY JobsSettle
CHECK_DEADLOCK FALSE
