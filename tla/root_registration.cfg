SPECIFICATION Spec
CONSTANTS
    r1 = r1
    r2 = r2
    a1 = a1
    a2 = a2
    d1 = d1
    d2 = d2
    k1 = k1
    k2 = k2
    n1 = n1
    n2 = n2
    Procs = {p1, p2}
    Agents = {a1}
    Documents = {d1, d2}
    Nodes = {r1, r2}
    Domains = {any, k1, k2}
    AnyDomain = any
    Nonces = {n1, n2}
    NoProc = NoProc
    NoDocument = NoDocument
    NoNonce = NoNonce
    Requests <- RegistrationRequests
    Seed <- RegistrarSeed
    UseSqlite = TRUE
    Tearable = {"bulletin"}
    MaxEvents = 5
    MaxFaults = 2
SYMMETRY ProcSymmetry
INVARIANTS
    TypeOK
    NonceAnchorsOnce
    OnlyAuthorizedRegistrarsAnchor
    AnsweredVersionNamesOneDocument
    
PROPERTIES
    ImplementsRegistry
CHECK_DEADLOCK FALSE
