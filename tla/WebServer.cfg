CONSTANTS
    Chunk = 1
    Pages <- MCPages
    Files <- MCFiles
    Size <- MCSize
    MaxConns = 2
    Cap = 2
    MaxUnits = 3
SPECIFICATION Spec
INVARIANTS OldDataIsLeftMail
PROPERTIES IsHttpServer
