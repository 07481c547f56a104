SPECIFICATION FairSpec
CONSTANTS
    i1 = i1
    i2 = i2
    getInventory = getInventory
    putInventory = putInventory
    getOrder = getOrder
    inventory = inventory
    orderId = orderId
    Requests = {r1, r2}
    Instances = {i1}
    Tenants = {t1}
    Endpoints = {getInventory, getOrder}
    Paths = {inventory, orderId}
    Limit = 1
    Window = 3
    Delay = 1
    Skew = 0
    ErrorProne = {r1, r2}
    MaxTime = 6
    MaxFaults = 2
    Path <- MCPath
    Offset <- MCOffset
INVARIANTS
    WindowBound
    MemWindowBound
    RefusalJustified
PROPERTIES EveryRequestAnswered
