SPECIFICATION Spec
CONSTANTS
    r1 = r1
    r2 = r2
    c1 = c1
    Requests = {r1}
    Routes = {"stub"}
    ClientIds = {c1}
    Header <- MCHeader
    NoId = NoId
    OldId = OldId
    LogLevels = {"info", "warn"}
    MaxConns = 1
    EvalGuards = {TRUE}
    MayPanic = {}
INVARIANTS
    EveryDecisionRecorded
