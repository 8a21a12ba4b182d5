SPECIFICATION Spec
CONSTANTS
    u1 = u1
    u2 = u2
    p1 = p1
    p2 = p2
    n1 = n1
    n2 = n2
    h1 = h1
    Bot = Bot
    None = None
    Bad = Bad
    Users = {u1, u2}
    People = {p1, p2}
    Names = {n1, n2}
    Existing = {n1}
    Halls = {h1}
    MaxJoins = 1
    MaxTasks = 2
    MaxEvents = 2
    MaxFaults = 1
    FaultKinds = {"panic", "crash"}
INVARIANTS
    TypeOK
    
    PuppetsPresent
    NoStray
    Apart
    InvitesFit
PROPERTY DirectorySpec
SYMMETRY Symmetry
CHECK_DEADLOCK FALSE
