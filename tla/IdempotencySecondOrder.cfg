SPECIFICATION Spec
CONSTANTS
    Requests = {r1, r2}
    Tenants <- MCTenants
    Keys <- MCKeys
    HandlerStatus = {201}
    ErrorProne = {}
    MaxDrops = 0
    MaxCrashes = 0
INVARIANTS
    NoSecondOrder
