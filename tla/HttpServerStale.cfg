CONSTANTS
    Chunk = 2
    Pages <- MCPages
    Files <- MCFiles
    Size <- MCSize
    NumSlots = 2
    MaxConns = 2
SPECIFICATION Spec

PROPERTY PartIsLive
