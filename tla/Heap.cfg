CONSTANTS
    Units = 13
    Requests <- MCRequests
SPECIFICATION Spec
INVARIANTS TypeOK Tiled FreeListOK FreeCount Restored
PROPERTY KeepsPromise
