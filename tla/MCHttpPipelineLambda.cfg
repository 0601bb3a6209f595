CONSTANTS
    r1 = r1
    r2 = r2
    Shared = Shared
    None = None
    Requests = {r1, r2}
    Hosts = {"lambda"}
    Preparers = 0
    Hooks = {}
    Transformers <- LambdaTransformers
    ErrorHandlers <- LambdaErrorHandlers
SPECIFICATION Spec
INVARIANTS
    EventHeadersOnly
CHECK_DEADLOCK FALSE
