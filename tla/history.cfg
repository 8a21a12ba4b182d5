SPECIFICATION Spec
CONSTANTS
    Batch = 2
    MaxSize = 6
INVARIANT Returned
INVARIANT RequestsBounded
