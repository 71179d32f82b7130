\* Both signaling protocols, both libraries, three attempts, two messages of the server in
\* each; two packets of up to five bytes in segments of two, two at most.
SPECIFICATION FairSpec
CONSTANTS
    MAX_MESSAGE_SIZE = 2
    MAX_SEGMENTS = 2
    PacketBound = 2
    max_retries = 3
    MessageBound = 2
INVARIANTS
    AttemptsKeptApart
    SignalingReleased
    ReadAsWritten
    ErrorAfterPackets
PROPERTIES
    ConnectEnds
    ReaderIsTold
CONSTRAINT
    OneAtATime
CHECK_DEADLOCK FALSE
