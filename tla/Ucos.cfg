CONSTANTS
    sem = sem
    mbox = mbox
    m = m
    NumTasks = 3
    Sems <- MCSems
    Boxes <- MCBoxes
    Msgs <- MCMsgs
    MaxCount = 1
    Initially = 1
    Timeouts <- MCTimeouts
    Delays <- MCDelays
    MaxLock = 1
SPECIFICATION FairSpec
INVARIANTS TypeOK RunsHighest ListsAgree NoLostWakeup LockHolds
PROPERTIES IsKernelCalls TimedWaitEnds
