CONSTANTS
    o1 = o1
    m1 = m1
    m2 = m2
    m3 = m3
    r1 = r1
    r2 = r2
    r3 = r3
    None = None
    Objects <- MCObjects
    Mutexes <- MCMutexes
    Requests <- MCRequests
SPECIFICATION FairSpec
INVARIANTS
    ObjectExclusion
PROPERTIES
    ImplementsFifoLock
    EveryRequestServed
CHECK_DEADLOCK FALSE
