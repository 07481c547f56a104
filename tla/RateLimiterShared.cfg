SPECIFICATION Spec
CONSTANTS
    i1 = i1
    i2 = i2
    getInventory = getInventory
    putInventory = putInventory
    getOrder = getOrder
    inventory = inventory
    orderId = orderId
    Requests = {r1, r2, r3, r4}
    Instances = {i1, i2}
    Tenants = {t1}
    Endpoints = {getInventory}
    Paths = {inventory}
    Limit = 2
    Window = 4
    Delay = 1
    Skew = 1
    ErrorProne = {r4}
    MaxTime = 7
    MaxFaults = 0
    Path <- MCPath
    Offset <- MCOffset
SYMMETRY Symmetry
INVARIANTS
    TypeOK
    WindowBound
    RefusalJustified
