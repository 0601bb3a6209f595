CONSTANTS
    c1 = c1
    c2 = c2
    c3 = c3
    Calls <- MCCalls
SPECIFICATION Spec
INVARIANT ThrowRollsBack
CHECK_DEADLOCK FALSE
