\* Over each transport: two batches into a queue of one, up to three packets written; one
\* read cancelled or one batch too large.
SPECIFICATION FairSpec
CONSTANTS
    Transports = {"RakNet", "NetherNet", "TCP"}
    QueueSize = 1
    BatchSizes = {0, 1, 2}
    BatchBound = 2
    WriteBound = 3
    CancelBound = 1
    FailBound = 1
INVARIANTS
    WaitsForNews
    CloseFlushes
    NothingVanishes
PROPERTIES
    ImplementsStream
    CloseReturns
    ReaderWoken
    FlushedAutomatically
CONSTRAINT
    OneWay
CHECK_DEADLOCK FALSE
