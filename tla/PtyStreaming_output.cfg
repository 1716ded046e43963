SPECIFICATION FairSpec
CONSTANTS
    Clients = {c1}
    Streams = {a1, a2}
    NoClient = NoClient
    NoStream = NoStream
    Sizes = {small}
    MaxChunks = 2
    ChunkBytes = {2}
    ScrollCap = 3
    ChanCap = 1
    SockCap = 1
    ResizeMayFail = TRUE
INVARIANTS ScrollbackIsTail StreamIsGapless
PROPERTIES ReplayUnbroken StreamsEnd DeliveredOrReported
