CONSTANTS
    r1 = r1
    h1 = h1
    h2 = h2
    h3 = h3
    Shared = Shared
    None = None
    Requests = {r1}
    Hosts = {"mvc", "lambda"}
    Preparers = 2
    Hooks = {h1, h2, h3}
    Transformers <- MCTransformers
    ErrorHandlers <- MCErrorHandlers
SPECIFICATION FairSpec
INVARIANTS
    AnsweredOnce
    HandlerGuarded
    FailuresReported
    CorsHeadersKept
PROPERTIES
    EveryRequestAnswered
CHECK_DEADLOCK FALSE
