CONSTANTS
    Servers <- MCServers
    Lease <- MCLease
    MaxRetry = 2
    WaitTime = 1
    MaxTick = 2
    MaxInFlight = 1
SPECIFICATION FairSpec
INVARIANTS TypeOK
INVARIANT LeaseKept
PROPERTIES GetsLease KeepsAsking
