SPECIFICATION FairSpec
CONSTANTS
    c1 = c1
    c2 = c2
    c3 = c3
    None = None
    Commands = {c1, c2, c3}
    Impatient = {c1}
    MaxTries = 3
    MaxBinds = 2
    MaxLosses = 2
INVARIANT TypeOK
PROPERTIES CallsSpec CallsEnd
CHECK_DEADLOCK FALSE
