\* As codecs.cfg.
CONSTANTS
    ByteBits = 4
    IntBytes = 4
    LongBytes = 5
    IdLimit = 16
    MAX_BATCH_SIZE = 3
    compression_threshold = 6
    Side = 2
    WordBytes = 2
    FnvOffset = 40389
    FnvPrime = 403
    Blocks <- AirAndTwo
INIT Init
NEXT Next
INVARIANT
    NbtLeavesTheRest
CHECK_DEADLOCK FALSE
