\* A reader waits when a RakNet peer disconnects.
SPECIFICATION FairSpec
CONSTANTS
    Transports = {"RakNet"}
    QueueSize = 2
    BatchSizes = {1}
    BatchBound = 1
    WriteBound = 0
    CancelBound = 0
    FailBound = 0
PROPERTY
    EndWakesReader
CHECK_DEADLOCK FALSE
