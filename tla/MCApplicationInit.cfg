CONSTANTS
    r1 = r1
    r2 = r2
    s1 = s1
    s2 = s2
    c1 = c1
    c2 = c2
    None = None
    Runs = {r1, r2}
    Scanners = {s1, s2}
    Configs = {c1, c2}
SPECIFICATION FairSpec
INVARIANTS
    ReadyToEnter
    LogsSeen
PROPERTIES
    DisposeReachesAll
    RunsSettle
CHECK_DEADLOCK FALSE
