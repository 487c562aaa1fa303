SPECIFICATION FairDistributionSpec
CONSTANTS
    a1 = a1
    a2 = a2
    d1 = d1
    d2 = d2
    k1 = k1
    k2 = k2
    Agents = {a1, a2}
    Documents = {d1, d2}
    CdnTasks = {t1}
    NoTask = NoTask
    Absent = Absent
    Torn = Torn
    Altered = {}
    CdnTearable = {"packages", "manifest"}
    MaxFaults = 2
    Discovery = s1
    Domains = {any, k1, k2}
    AnyDomain = any
    DomainsOf <- DocumentDomains
    Registrations <- ThreeRegistrations
    Restrictions <- OneRestriction
    Syncs = {s}
    UseSqlite = TRUE
    IndexTearable = {"capabilities", "history"}
    MaxEvents = 2
PROPERTIES
    AgentIsDiscoverable
CHECK_DEADLOCK FALSE
