\* One connection, two files one after the other.
CONSTANTS
    c1 = c1
    c2 = c2
    c3 = c3
    p1 = p1
    p2 = p2
    empty = empty
    short = short
    exact = exact
    long = long
    double = double
    locked = locked
    NoFile = NoFile
    Conns <- MCOneConn
    Clients <- MCOneClient
    ClientOf <- MCOneClientOf
    Files <- MCTwoFiles
    Size <- MCTwoSizes
    Package = 2
    StartLen = 2
    FinishLen = 2
    RecvMax = 10
    Unwritable <- MCNone
SPECIFICATION Spec
INVARIANTS
    DoneIsIntact
CHECK_DEADLOCK FALSE
