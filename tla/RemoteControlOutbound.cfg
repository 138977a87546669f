SPECIFICATION FairSpec
CONSTANTS
    Streams = {a, b}
    Messages = {m1, m2, m3, m4}
    Unserializable = {m4}
    Capacity = 2
    MaxConns = 2
    None = None
INVARIANTS
    TypeOK
    BufferBound
    UnackedKept
PROPERTIES
    StreamsReliable
    Delivered
