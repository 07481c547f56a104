SPECIFICATION Spec
CONSTANTS
    Requests = {r1, r2, r3}
    Tenants <- MCTenants
    Keys <- MCKeys
    HandlerStatus = {201, 500}
    ErrorProne = {r1, r2, r3}
    MaxDrops = 1
    MaxCrashes = 1
SYMMETRY Symmetry
INVARIANTS
    TypeOK
    ReplayFaithful
    StoredMeansServedOnce
    OutageKeepsPolicy
