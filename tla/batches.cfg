SPECIFICATION BatchSpec
CONSTANTS
    r1 = r1
    s1 = s1
    a1 = a1
    a2 = a2
    d1 = d1
    d2 = d2
    k1 = k1
    k2 = k2
    n1 = n1
    Procs = {p1}
    Agents = {a1}
    Documents = {d1, d2}
    Nodes = {r1, s1}
    Domains = {any, k1, k2}
    AnyDomain = any
    Nonces = {}
    NoProc = NoProc
    NoDocument = NoDocument
    NoNonce = NoNonce
    Requests <- NotifyRequests
    Seed <- RegistrarSeed
    UseSqlite = TRUE
    Tearable = {}
    MaxEvents = 4
    MaxFaults = 1
    Publishers = {w1}
    Notifiers = {w2}
    DomainsOf <- DocumentDomains
    CdnBatch = 50
    NotifyBatch = 1
INVARIANTS
    AnsweredAgentIsQueuedOrServed
    NoNotificationForgotten
PROPERTIES
    NotificationsFollowBulletin
    
CHECK_DEADLOCK FALSE
