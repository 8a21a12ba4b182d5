SPECIFICATION Spec
CONSTANTS
    u1 = u1
    u2 = u2
    k1 = k1
    k2 = k2
    Users = {u1}
    Slots = {k1, k2}
    Free = Free
    Handler = Handler
    Batch = 3
    Lines = 1
    MaxTxn = 1
    MaxNative = 1
    MaxEvents = 1
    MaxLogins = 0
    MaxFaults = 1
    FaultKinds = {"drop"}
CHECK_DEADLOCK FALSE
INVARIANT NothingMissed
