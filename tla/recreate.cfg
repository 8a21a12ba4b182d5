SPECIFICATION Spec
CONSTANTS
    u1 = u1
    u2 = u2
    a = a
    b = b
    Users = {u1, u2}
    Names = {a, b}
    Bridge = Bridge
    None = None
    MaxAuto = 2
    MaxLogins = 3
    MaxFaults = 0
    FaultKinds = {}
INVARIANT PuppetCanBeMade
