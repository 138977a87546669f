SPECIFICATION Spec
CONSTANTS
    s1 = s1
    s2 = s2
    s3 = s3
    s4 = s4
    i1 = i1
    i2 = i2
    Loop = loop
    GoalItem = goal_item
    None = None
    Clients = {c1}
    Subs = {s1, s2, s3, s4}
    TurnIds = {o1, o2, o3, o4}
    UserItems = {i1, i2}
    TriggerMail = {}
    QuietMail = {}
    Notes = {}
    GoalsEnabled = FALSE
    SpawnKinds = {"review"}
VIEW Live
SYMMETRY SameInputs
INVARIANTS
    TypeOK
    OneTaskAtATime
    UserInputKept
    ApprovalAnswerable
