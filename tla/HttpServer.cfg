CONSTANTS
    Chunk = 2
    Pages <- MCPages
    Files <- MCFiles
    Size <- MCSize
    NumSlots = 2
    MaxConns = 2
SPECIFICATION FairSpec
INVARIANTS TypeOK NoSlotLeak FileBookkeeping WholeResponse OneAnswer
PROPERTIES SdPartIsLive ListensAgain
