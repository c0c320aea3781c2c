\* Two jobs for one slot; the payload of one of them cannot be sent.
CONSTANTS
    Jobs = {j1, j2}
    Watched = {}
    Unsendable = {j1}
    Cancellers = {}
    MaxConcurrent = 1
    QueueGrace = 0
    WarnAt = 0
    Timeout = 1
    None = None
SPECIFICATION Spec
INVARIANT AtMostMaxConcurrent
CHECK_DEADLOCK FALSE
