SPECIFICATION Spec
CONSTANTS
    r1 = r1
    r2 = r2
    a1 = a1
    a2 = a2
    d1 = d1
    d2 = d2
    k1 = k1
    k2 = k2
    n1 = n1
    n2 = n2
    Procs = {p1}
    Agents = {a1}
    Documents = {d1, d2}
    Nodes = {r1, r2}
    Domains = {any, k1, k2}
    AnyDomain = any
    Nonces = {n1, n2}
    NoProc = NoProc
    NoDocument = NoDocument
    NoNonce = NoNonce
    Requests <- RevocationRequests
    Seed <- EmptySeed
    UseSqlite = TRUE
    Tearable = {}
    MaxEvents = 4
    MaxFaults = 0
SYMMETRY ProcSymmetry
INVARIANTS
    RevokedRegistrarsDoNotAnchor
CHECK_DEADLOCK FALSE
