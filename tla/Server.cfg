\* Three connections, fairness.
CONSTANTS
    c1 = c1
    c2 = c2
    c3 = c3
    NoConn = NoConn
    Conns <- MCConns
SPECIFICATION FairSpec
INVARIANTS
    TasksHaveFiles
    QuietWhenFreed
    RunnerSurvives
    ChainsUnbroken
PROPERTIES
    ShutdownNears
    
CHECK_DEADLOCK FALSE
