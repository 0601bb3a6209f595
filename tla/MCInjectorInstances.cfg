CONSTANTS
    root = root
    app = app
    req = req
    appScope = appScope
    reqScope = reqScope
    service = service
    own = own
    session = session
    boot = boot
    None = None
    Root = root
    Named <- MCNamed
    NamedPath <- MCNamedPath
    ScopeOf <- MCScopeOf
    Disposers <- MCDisposers
    Providers <- AppProviders
    Requested = {session}
    Registration <- AppRegistration
    Restriction <- AppRestriction
    Deps <- AppDeps
    MaxJobs = 6
    MaxRequests = 2
SPECIFICATION FairSpec
INVARIANTS
    OneInstance
    RequestsRun
    UsersDisposedFirst
    NothingLeaks
    NoDeadDependencies
PROPERTIES
    NotUndefined
    EverythingSettles
CHECK_DEADLOCK FALSE
