CONSTANTS
    c1 = c1
    c2 = c2
    h1 = h1
    h2 = h2
    Nil = Nil
    Garbage = Garbage
    Clients <- MCClients
    Hosts <- MCHosts
    HostOf <- MCSharedHostOf
    FileSize <- MCFileSize
    Strays <- MCNoStrays
    Workers = 4
    MaxWriters = 4
    ChanCap = 1
    Seq32 = 1073741824
SPECIFICATION Spec
INVARIANT FileIsPrefixOfSource
\* listen() blocking in recvfrom() is a resting state, not a deadlock.
CHECK_DEADLOCK FALSE
