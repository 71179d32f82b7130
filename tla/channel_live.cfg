\* The connection handshake, a packet of the server, either end closing, and one frame set lost.
SPECIFICATION FairSpec
CONSTANTS
    Client = Client
    Server = Server
    WriteSizes = {1}
    IndexMod = 4
    CompoundMod = 8
    RequestBound = 1
    ClientWrites = 0
    ServerWrites = 1
    ClientPings = 0
    ServerPings = 0
    WriteBound <- Writes
    PingBound <- Pings
    Closers = {Client, Server}
    LossBound = 1
    LossKinds = {"frameset"}
    CopyBound = 0
PROPERTIES
    SentIsProcessed
    CloseReachesPeer
    GapsAreRepaired
CHECK_DEADLOCK FALSE
