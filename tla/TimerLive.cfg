\* Two tasks that never throw, a clock of three values, fairness.
CONSTANTS
    a = a
    b = b
    c = c
    n = n
    none = none
    NoTask = NoTask
    p = p
    Tasks <- MCTwoTasks
    Names <- MCNames
    NoName <- none
    NameOf <- MCTwoNames
    Callers <- MCCallers
    Delays <- MCFutureDelays
    Periods <- MCPeriods
    MaxTime = 2
    Throwing <- MCNothing
SPECIFICATION FairSpec
PROPERTIES
    DueTaskRuns
    CancelReturns
    KeepsPromise
CHECK_DEADLOCK FALSE
