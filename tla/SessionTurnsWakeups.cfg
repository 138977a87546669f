SPECIFICATION Spec
CONSTANTS
    s1 = s1
    s2 = s2
    s3 = s3
    s4 = s4
    i1 = i1
    i2 = i2
    Loop = loop
    GoalItem = goal_item
    None = None
    Clients = {c1}
    Subs = {s1, s2, s3}
    TurnIds = {o1, o2, o3, o4}
    UserItems = {i1}
    TriggerMail = {t1}
    QuietMail = {q1}
    Notes = {n1}
    GoalsEnabled = FALSE
    SpawnKinds = {}
VIEW Live
INVARIANTS
    TasksReachable
    NoDeadTask
PROPERTIES
    EndReported
