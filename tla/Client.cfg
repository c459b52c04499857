\* One server, two connections to it, two files; no two tasks of one name and period at once.
CONSTANTS
    a1 = a1
    s1 = s1
    s2 = s2
    f1 = f1
    f2 = f2
    None = None
    Addrs <- MCAddrs
    Fds = {1, 2}
    Socks <- MCSocks
    Files <- MCFiles
    MaxSame = 1
SPECIFICATION FairSpec
INVARIANTS
    TasksSendOwn
    FilesOutliveTasks
    LinksReachable
PROPERTIES
    AttemptsPersist
    ShutdownNears
    ShutdownEnds
CHECK_DEADLOCK FALSE
