CONSTANTS
    c1 = c1
    c2 = c2
    c3 = c3
    Calls <- TwoCalls
SPECIFICATION FairSpec
PROPERTIES
    TransactionSettles
CHECK_DEADLOCK FALSE
