SPECIFICATION Spec
CONSTANTS
    u1 = u1
    u2 = u2
    a = a
    b = b
    Users = {u1, u2}
    Names = {a}
    Bridge = Bridge
    None = None
    MaxAuto = 2
    MaxLogins = 3
    MaxFaults = 1
    FaultKinds = {"panic", "crash"}
SYMMETRY Symmetry
INVARIANTS TypeOK PuppetOrReal BoundToUser Recorded RestartKeeps NoneStranded PuppetsStayPuppets RegisteredOnce  OneUserPerMatrixId KickedOut
