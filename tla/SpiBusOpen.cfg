CONSTANTS
    Servers = 1
    Socks <- MCSocks
    Api <- MCApi
    Pointers = 2
SPECIFICATION Spec
PROPERTY WritesArrive
CHECK_DEADLOCK FALSE
