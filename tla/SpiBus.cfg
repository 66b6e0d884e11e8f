CONSTANTS
    Servers = 1
    Socks <- MCSocks
    Api <- MCShapes
    Pointers = 2
SPECIFICATION FairSpec
INVARIANTS TypeOK BusGivenBack FramesWhole
PROPERTIES IsRegisters CallsReturn
