SPECIFICATION Spec
CONSTANTS
    c1 = c1
    c2 = c2
    c3 = c3
    t1 = t1
    t2 = t2
    alpha = alpha
    beta = beta
    Calls = {c1, c2, c3}
    ThreadIds = {t1, t2}
    RootThread = root_thread
    Paths = {}
    RootPath = root_path
    RoleNames <- OneRole
    MaxThreads = 1
    Recorded = {t1}
    Cancellable = {"spawn", "job"}
    MaxResets = 2
    None = None
SYMMETRY Symm
INVARIANTS
    OpenThreadsWithinLimit
