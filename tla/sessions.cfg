SPECIFICATION Spec
CONSTANTS
    u1 = u1
    u2 = u2
    k1 = k1
    k2 = k2
    Users = {u1}
    Slots = {k1, k2}
    Free = Free
    Handler = Handler
    Batch = 8
    Lines = 2
    MaxTxn = 2
    MaxNative = 1
    MaxEvents = 2
    MaxLogins = 0
    MaxFaults = 1
    FaultKinds = {"drop", "crash", "matrix", "giveup", "ack", "cancel"}
CHECK_DEADLOCK FALSE
INVARIANTS NoEcho LinesInOrder
PROPERTY PostedInOrder
SYMMETRY Symmetry
