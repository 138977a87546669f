SPECIFICATION FairSpec
CONSTANTS
    ClientIds = {i}
    StreamIds = {s1, s2}
    MaxConns = 2
    MaxSeq = 0
    None = None
INVARIANTS
    TypeOK
    OpenConnectionsTracked
    InboundOnce
    LegacyStreamKnown
PROPERTIES
    DisconnectReported
    IdleClosed
    ShutdownEnds
