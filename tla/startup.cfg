SPECIFICATION Spec
CONSTANTS
    a = a
    b = b
    c = c
    t1 = t1
    t2 = t2
    Free = Free
    Puppets = {a, b}
    Reals = {b}
    Members = {a, b, c}
    Versions = {0, 1, 2}
    Tasks = {t1, t2}
    MaxIds = 4
    MaxFaults = 3
    FaultKinds = {"crash", "matrix", "disk"}
INVARIANTS TypeOK TxnOnce MembersKept LoadsMigrated
CHECK_DEADLOCK FALSE
