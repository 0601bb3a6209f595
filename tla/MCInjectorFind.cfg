CONSTANTS
    root = root
    a = a
    b = b
    c = c
    s1 = s1
    s2 = s2
    plain = plain
    upward = upward
    p1 = p1
    p2 = p2
    q1 = q1
    None = None
    Contexts <- MCContexts
    Root = root
    Scopes <- MCScopes
    Tokens <- PlainTokens
    Providers <- PlainProviders
    TokenOf <- PlainTokenOf
    ParentsOnly = {}
SPECIFICATION Spec
SYMMETRY Symmetry
INVARIANTS
    CacheIsNearest
CHECK_DEADLOCK FALSE
