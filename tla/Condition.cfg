\* Two threads that wait, two that notify.
CONSTANTS
    w1 = w1
    w2 = w2
    n1 = n1
    n2 = n2
    NoThread = NoThread
    Waiters <- MCWaiters
    Notifiers <- MCNotifiers
SPECIFICATION FairSpec
INVARIANTS
    SignalWakesOne
    BroadcastStays
PROPERTIES
    BroadcastReturns
