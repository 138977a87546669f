SPECIFICATION Spec
CONSTANTS
    s1 = s1
    s2 = s2
    s3 = s3
    s4 = s4
    i1 = i1
    i2 = i2
    Loop = loop
    GoalItem = goal_item
    None = None
    Clients = {}
    Subs = {s1, s2, s3}
    TurnIds = {o1, o2, o3, o4}
    UserItems = {i1}
    TriggerMail = {m1}
    QuietMail = {}
    Notes = {}
    GoalsEnabled = FALSE
    SpawnKinds = {}
INVARIANTS
    TriggerMailStartsTurn
