CONSTANTS
    MaxValues = 3
    Subscribers = {s1, s2}
    MaxCalls = 2
    CallArgs <- MCCallArgs
    StoredValues = {x, y}
    FalsyValue = zero
    NoEntry = none
    Durations = {1, 2, 3}
    Forever = 0
    MaxDelay = 2
    MaxTime = 3
    MaxSets = 2
    Gets = {g1}
    ScopeProviders <- MCScopeProviders
    NewScopes <- MCNewScopes
    RootScope <- MCRootScope
    NoRestriction <- MCNoRestriction
    MaxContexts = 4
    MaxAsks = 2
    Packages = {"a", "b", "c"}
    Projects <- MCProjects
    Commands = {"update-configs", "build", "publish", "unpublish", "outdated", "deprecate", "yarn"}
    MaxProcesses = 2
    PreparerClasses <- MCPreparerClasses
    PipelineConfigs <- MCPipelineConfigs
    Renderers <- MCRenderers
    RendererTypes <- MCRendererTypes
    DefaultTypeOf <- MCDefaultTypeOf
    DefaultRenderer = "json"
    AcceptHeaders <- MCAcceptHeaders
    MaxRendered = 3
    BodyParsers <- MCBodyParsers
    ParserType <- MCParserType
    Bodies <- MCBodies
    BodyPaths = {"p"}
    MaxBodies = 2
    Applications <- MCApplications
    Slash = "/"
    GlobalCors <- MCGlobalCors
    SafelistHeaders = {"content-type"}
    PartOf = {}
    Schemes = {"Bearer"}
    Origins <- MCOrigins
    Hosts = {"s"}
    Callers <- MCCallers
    RequestPaths <- MCRequestPaths
    RequestMethods = {"GET", "PUT", "OPTIONS", "POST"}
    RequestHeaders = {{}, {"x-a"}, {"x-b"}}
    MaxRequests = 1
    BaseOf <- MCBaseOf
    ModelDecorations <- MCModelDecorations
    NumberOf <- MCNumberOf
    BodySources <- MCBodySources
    FlatSources <- MCFlatSources
    ParamMeta <- MCParamMeta
    ParamValues <- MCParamValues
    MaxBuilds = 1
    ViewConfigs <- MCViewConfigs
    NoPriority <- MCNoPriority
    RouteViews <- MCRouteViews
    ErrorTemplates <- MCErrorTemplates
    Requests <- MCRequestsRendered
    Renderings = {r1, r2}
    Templates <- MCTemplates
    MaxChanges = 2
    Types <- MCTypes
    OwnRelations <- MCOwnRelations
    ResourceLineage <- MCResourceLineage
    DecoratorOrders <- MCDecoratorOrders
    OwnIdTypes <- MCOwnIdTypes
    RootType = "List"
    RootIsList = FALSE
    Asks <- MCAsks
    MaxItems = 2
SPECIFICATION ComponentsSpec
INVARIANTS
    SeesWhatIsQueued
    EntriesAreKept
    KeptWhereMeant
    DependenciesFirst
    PreparedInOrder
    BestRendererAnswers
    BodiesSurvive
    RoutesAsDeclared
    ServedAsDeclared
    ModelsAsDeclared
    PreferredView
    EmbedsWhatIsAsked
CHECK_DEADLOCK FALSE
