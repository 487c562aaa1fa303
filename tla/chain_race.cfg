SPECIFICATION GovernanceSpec
CONSTANTS
    Admins = {a1, a2}
    GovernedNodes = {n, m}
    MaxGovernance = 3
    MaxStops = 1
INVARIANTS
    BulletinVerifies
CHECK_DEADLOCK FALSE
