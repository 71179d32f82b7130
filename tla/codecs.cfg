\* Bytes of 4 bits, of which a varint uses 3; ints of 16 bits, longs of 20; sub-chunks of
\* 2 x 2 x 2 blocks and words of 8 bits.
CONSTANTS
    ByteBits = 4
    IntBytes = 4
    LongBytes = 5
    IdLimit = 16
    MAX_BATCH_SIZE = 3
    compression_threshold = 6
    Side = 2
    WordBytes = 2
    FnvOffset = 40389
    FnvPrime = 403
    Blocks <- AirAndTwo
INIT Init
NEXT Next
INVARIANTS
    ProtocolReadsBack
    WireReadsBack
    NbtIsOneFormat
    ChunksAreRead
    PacketsRelay
    TextsAndAnswers
CHECK_DEADLOCK FALSE
