SPECIFICATION Spec
CONSTANTS
    ClientIds = {i}
    StreamIds = {s1}
    MaxConns = 2
    MaxSeq = 0
    None = None
CHECK_DEADLOCK FALSE
PROPERTIES
    EndClosesOwnConnection
