SPECIFICATION FairSpec
CONSTANTS
    u1 = u1
    u2 = u2
    p1 = p1
    p2 = p2
    n1 = n1
    n2 = n2
    h1 = h1
    Bot = Bot
    None = None
    Bad = Bad
    Users = {u1}
    People = {p1}
    Names = {n1}
    Existing = {n1}
    Halls = {}
    MaxJoins = 1
    MaxTasks = 1
    MaxEvents = 2
    MaxFaults = 0
    FaultKinds = {}
PROPERTY EventsAnswered
CHECK_DEADLOCK FALSE
