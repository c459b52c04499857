\* Two callers, two threads one after the other.
CONSTANTS
    main = main
    other = other
    Callers <- MCCallers
    MaxThreads = 2
SPECIFICATION FairSpec
INVARIANTS
    Exclusive
    JoinedOnce
    NoCircularWait
PROPERTIES
    CallsReturn
CHECK_DEADLOCK FALSE
