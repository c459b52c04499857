\* Two objects, three pointers, two threads; two references in nobody's pointer.
CONSTANTS
    o1 = o1
    o2 = o2
    p1 = p1
    p2 = p2
    p3 = p3
    t1 = t1
    t2 = t2
    Null = Null
    Objects <- MCObjects
    Pointers <- MCPointers
    Threads <- MCThreads
    MaxRaw = 2
SYMMETRY Symmetric
SPECIFICATION Spec
INVARIANTS
    FreedOnceUnheld
CHECK_DEADLOCK FALSE
