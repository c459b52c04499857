\* One connection, fairness.
CONSTANTS
    c1 = c1
    c2 = c2
    c3 = c3
    NoConn = NoConn
    Conns <- MCOneConn
SPECIFICATION FairSpec
PROPERTIES
    QuitExits
CHECK_DEADLOCK FALSE
