SPECIFICATION ELFairSpec
CONSTANTS
    t1 = t1
    t2 = t2
    s1 = s1
    s2 = s2
    a1 = a1
    a2 = a2
    NULL = NULL
    Transfers <- OneTransfer
    Sockets <- OneSocket
    Addresses <- TwoAddresses
    PollActions <- OneDirection
    Timeout = 2
PROPERTIES
    TransfersEnd
