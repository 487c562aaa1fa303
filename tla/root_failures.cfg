SPECIFICATION BatchSpec
CONSTANTS
    r1 = r1
    s1 = s1
    a1 = a1
    a2 = a2
    d1 = d1
    d2 = d2
    k1 = k1
    k2 = k2
    n1 = n1
    Procs = {p1, p2}
    Agents = {a1}
    Documents = {d1, d2}
    Nodes = {r1, s1}
    Domains = {any, k1, k2}
    AnyDomain = any
    Nonces = {n1}
    NoProc = NoProc
    NoDocument = NoDocument
    NoNonce = NoNonce
    Requests <- MixedRequests
    Seed <- RegistrarSeed
    UseSqlite = FALSE
    Tearable = {"nonces", "bulletin", "authorization", "latest", "cdn_queue", "discovery_queue"}
    MaxEvents = 4
    MaxFaults = 2
    Publishers = {w1}
    Notifiers = {w2}
    DomainsOf <- DocumentDomains
    CdnBatch = 50
    NotifyBatch = 100
SYMMETRY ProcSymmetry
INVARIANTS
    AuthorizationFollowsBulletin
    NothingUnanchored
    
PROPERTIES
    BulletinIsAppendOnly
CHECK_DEADLOCK FALSE
