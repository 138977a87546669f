SPECIFICATION Spec
CONSTANTS
    Conns = {c}
    Kinds <- MCKinds
    MaxLoads <- MCLoads
    MaxEntries = 2
    MaxListeners = 2
VIEW Live
INVARIANTS
    TypeOK
    ClosedNotSubscribed
    ListenerRuns
    ClosingOwned
