SPECIFICATION Spec
CONSTANTS
    c1 = c1
    c2 = c2
    c3 = c3
    t1 = t1
    t2 = t2
    alpha = alpha
    beta = beta
    Calls = {c1, c2}
    ThreadIds = {t1, t2}
    RootThread = root_thread
    Paths = {p1, p2}
    RootPath = root_path
    RoleNames <- OneRole
    MaxThreads = 2
    Recorded = {t1}
    Cancellable = {"spawn", "job", "resume"}
    MaxResets = 2
    None = None
SYMMETRY Symm
INVARIANTS
    TypeOK
    SlotAccounting
    AgentsWithinLimit
    NicknamesDistinct
    PlaceholdersHeld
PROPERTIES
    PathNeverTakenOver
