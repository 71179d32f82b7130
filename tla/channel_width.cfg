\* Counters that wrap after two, one loss, a ping.
SPECIFICATION Spec
CONSTANTS
    Client = Client
    Server = Server
    WriteSizes = {1, 2, 3}
    IndexMod = 2
    CompoundMod = 1
    RequestBound = 0
    ClientWrites = 0
    ServerWrites = 2
    ClientPings = 0
    ServerPings = 1
    WriteBound <- Writes
    PingBound <- Pings
    Closers = {}
    LossBound = 1
    LossKinds = {"frameset"}
    CopyBound = 0
INVARIANT
    StaleIsDuplicate
CONSTRAINT
    PingsAlone
CHECK_DEADLOCK FALSE
