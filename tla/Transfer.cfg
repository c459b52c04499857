\* One connection, three files one after the other, one of them empty, one not writable.
CONSTANTS
    c1 = c1
    c2 = c2
    c3 = c3
    p1 = p1
    p2 = p2
    empty = empty
    short = short
    exact = exact
    long = long
    double = double
    locked = locked
    NoFile = NoFile
    Conns <- MCOneConn
    Clients <- MCOneClient
    ClientOf <- MCOneClientOf
    Files <- MCThreeFiles
    Size <- MCThreeSizes
    Package = 2
    StartLen = 2
    FinishLen = 2
    RecvMax = 10
    Unwritable <- MCLocked
SPECIFICATION FairSpec
INVARIANTS
    DoneHasContent
PROPERTIES
    SendingStops
    InputIsDrained
CHECK_DEADLOCK FALSE
