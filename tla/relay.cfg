SPECIFICATION Spec
CONSTANTS
    u1 = u1
    u2 = u2
    k1 = k1
    k2 = k2
    Users = {u1, u2}
    Slots = {k1}
    Free = Free
    Handler = Handler
    Batch = 2
    Lines = 1
    MaxTxn = 1
    MaxNative = 1
    MaxEvents = 1
    MaxLogins = 1
    MaxFaults = 2
    FaultKinds = {"drop", "crash", "matrix", "giveup", "ack", "cancel"}
CHECK_DEADLOCK FALSE
SYMMETRY Symmetry
INVARIANTS
    TypeOK
    HandledPersisted
    PostsBounded
    ResendsBounded
    MissedOnlyBehindBatch
PROPERTY LedgerSpec
