\* Three tasks, two of one name, one whose run() may throw; one terminating caller.
CONSTANTS
    a = a
    b = b
    c = c
    n = n
    none = none
    NoTask = NoTask
    p = p
    Tasks <- MCTasks
    Names <- MCNames
    NoName <- none
    NameOf <- MCNameOf
    Callers <- MCCallers
    Delays <- MCDelays
    Periods <- MCPeriods
    MaxTime = 1
    Throwing <- MCThrowing
SPECIFICATION Spec
INVARIANTS
    MemorySafe
    QueueOrdered
    NeverOversleeps
    NoTaskLost
    TerminatedIsQuiet
    CancelIsAnswered
PROPERTIES
    TakenNeverDestroyed
    EndNears
SYMMETRY NamedTwice
CHECK_DEADLOCK FALSE
