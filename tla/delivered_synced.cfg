SPECIFICATION Spec
CONSTANTS
    a1 = a1
    a2 = a2
    a3 = a3
    d1 = d1
    Agents = {a1, a2, a3}
    Discoveries = {d1}
    Serves <- ServesTwo
    Authorized = {d1}
    Workers = {w1}
    Notifiers = {n1}
    Operators = {o1}
    MaxVersion = 2
    MaxRequests = 2
    CdnBatch = 2
    NotifyBatch = 1
    PageLimit = 2
    MaxDisturbances = 1
    NoNode = NoNode
INVARIANTS
    DeliveredIsSynced
CHECK_DEADLOCK FALSE
