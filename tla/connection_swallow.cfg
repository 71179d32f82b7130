\* One read cancelled.
SPECIFICATION Spec
CONSTANTS
    Transports = {"RakNet", "NetherNet", "TCP"}
    QueueSize = 2
    BatchSizes = {1}
    BatchBound = 2
    WriteBound = 0
    CancelBound = 1
    FailBound = 0
INVARIANT
    ReadsNext
CHECK_DEADLOCK FALSE
