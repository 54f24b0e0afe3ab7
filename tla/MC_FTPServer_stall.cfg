CONSTANTS
    c1 = c1
    c2 = c2
    h1 = h1
    h2 = h2
    Nil = Nil
    Garbage = Garbage
    Clients <- MCClients
    Hosts <- MCHosts
    HostOf <- MCHostOf
    FileSize <- MCStallFileSize
    Strays <- MCNoStrays
    Workers = 1
    MaxWriters = 4
    ChanCap = 1
    Seq32 = 1073741824
SPECIFICATION Spec
PROPERTY EveryTransferEnds
CHECK_DEADLOCK FALSE
