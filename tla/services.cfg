CONSTANTS
    p = p
    q = q
    x = x
    y = y
    tag = tag
    Admins = {a}
    GovernedNodes = {n, m}
    MaxGovernance = 3
    MaxStops = 2
    DraftDocuments = {d1, d2, d3}
    ValidDocuments = {d1, d2}
    NoDraft = none
    Calls = {p, q}
    MaxInFlight = 2
    MaxCalls = 3
    MaxAbandoned = 1
    CdnAgents = {c}
    Posts = {p, q}
    CdnVersions = {1, 2}
    MaxPosts = 3
    MaxCdnStops = 1
    MaxCdnExports = 1
    Nonces = {e1, e2, e3}
    PerSecond = 2
    MaxClockSkew = 1
    NonceTtl = 2
    MaxEntries = 2
    MaxTick = 6
    FileAgents = {x, y}
    FileDocuments = {d1, d2}
    FileTasks = {p, q}
    MaxFiled = 2
    MaxFileFaults = 1
    SuiteDocuments = {d1, d2}
    MaxRevisions = 2
    NoItem = none
    ChainSubjects = {x, y}
    MaxSealed = 3
    MaxRestored = 1
    Subjects = {x, y}
    NoSubject = none
    Handlers = {p, q}
    MaxHandled = 3
    MaxDropped = 1
    TagIds = {t1, t2, t3}
    NoTag = none
    Wildcard = any
    MaxTags = 2
    IndexedPackages <- SomePackages
    Queries <- SomeQueries
    Unasked = unasked
    IndexSize = 2
    Invocations = {i1}
    Threads = {p, q}
    MaxAge = 1
    FutureSkew = 1
    MaxMade = 2
    MaxClock = 2
    MaxRestarts = 1
SPECIFICATION ServicesSpec
SYMMETRY Alike
INVARIANTS
    BulletinHolds
    
    AcceptedWasProved
    
    
    AcceptedOnce
    
    CertifiedPasses
    VerdictIsRight
    
    WalkIsAncestry
    AnswerIsBest
    NoncesGuard
CHECK_DEADLOCK FALSE
