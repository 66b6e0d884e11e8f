CONSTANTS
    Size = 4
    Wrap = 8
    Cap = 3
    Sizes <- MCSizes
    Total = 6
SPECIFICATION FairSpec
INVARIANTS TypeOK StreamIntact AllAccounted
PROPERTY AllDelivered
CHECK_DEADLOCK FALSE
