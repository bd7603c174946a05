SPECIFICATION ELFairSpec
CONSTANTS
    t1 = t1
    t2 = t2
    s1 = s1
    s2 = s2
    a1 = a1
    a2 = a2
    NULL = NULL
    Transfers <- TwoTransfers
    Sockets <- TwoSockets
    Addresses <- TwoAddresses
    PollActions <- AllDirections
    Timeout = 3
INVARIANTS
    ELTypeOK
    SocketContextsOwned
    PollCallbackIsAlive
    OnlyWantedIsWatched
    TimerNotLate
    WatchedAsWanted
PROPERTIES
    SilentTransfersEnd
    ActiveTransfersEnd
    SilentTimerRuns
