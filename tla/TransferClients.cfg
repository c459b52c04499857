\* Two clients that send one file at a time each, one of them on two connections; files of
\* one package and of two.
CONSTANTS
    c1 = c1
    c2 = c2
    c3 = c3
    p1 = p1
    p2 = p2
    empty = empty
    short = short
    exact = exact
    long = long
    double = double
    locked = locked
    NoFile = NoFile
    Conns <- MCThreeConns
    Clients <- MCTwoClients
    ClientOf <- MCTwoClientsOf
    Files <- MCTwoLengths
    Size <- MCShortLong
    Package = 2
    StartLen = 2
    FinishLen = 2
    RecvMax = 10
    Unwritable <- MCNone
SYMMETRY MCSymmetry
CONSTRAINT IdleStand
SPECIFICATION TurnsSpec
INVARIANTS
    DoneHasContent
    NoSilentLoss
PROPERTIES
    SendingNears
CHECK_DEADLOCK FALSE
