CONSTANTS
    c1 = c1
    c2 = c2
    c3 = c3
    Calls <- MCCalls
SPECIFICATION Spec
SYMMETRY Symmetry
INVARIANTS
    StateMatchesServer
    NothingLoose
    CleanRelease
    NoLostWrite
    FailedQueryNotDurable
PROPERTIES
    RolledBackBeforeFailure
    NothingSentAfterRelease
CHECK_DEADLOCK FALSE
