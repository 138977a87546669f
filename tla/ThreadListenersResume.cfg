SPECIFICATION Spec
CONSTANTS
    Conns = {c}
    Kinds <- MCKinds
    MaxLoads <- MCLoads
    MaxEntries = 2
    MaxListeners = 2
INVARIANT ResumeAnswerable
