\* Three jobs for two slots, one thread that cancels; nobody watches.
CONSTANTS
    Jobs = {j1, j2, j3}
    Watched = {}
    Unsendable = {}
    Cancellers = {c1}
    MaxConcurrent = 2
    QueueGrace = 0
    WarnAt = 0
    Timeout = 1
    None = None
SYMMETRY Symmetry
SPECIFICATION Spec
INVARIANTS
    TypeOK
    NodeNotOverrun
    CancelledInQueueNeverRuns
    UsageMeasuredOnce
PROPERTY HandlesAreFutures
CHECK_DEADLOCK FALSE
