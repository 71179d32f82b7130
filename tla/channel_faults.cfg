\* Two game packets of one or two frames against one loss and one duplicate.
SPECIFICATION Spec
CONSTANTS
    Client = Client
    Server = Server
    WriteSizes = {1, 2}
    IndexMod = 16
    CompoundMod = 8
    RequestBound = 0
    ClientWrites = 0
    ServerWrites = 2
    ClientPings = 0
    ServerPings = 0
    WriteBound <- Writes
    PingBound <- Pings
    Closers = {}
    LossBound = 1
    LossKinds = {"frameset", "ack", "nack"}
    CopyBound = 1
INVARIANTS
    InOrderExactlyOnce
    ReleasedWasReceived
    WaitsOnlyForMissing
PROPERTY
    ImplementsChannel
CHECK_DEADLOCK FALSE
