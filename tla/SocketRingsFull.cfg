CONSTANTS
    Size = 4
    Wrap = 8
    Cap = 3
    Sizes <- MCSizes
    Total = 6
SPECIFICATION Spec
INVARIANT NeverOverwritten
CHECK_DEADLOCK FALSE
