SPECIFICATION FairSpec
CONSTANTS
    r1 = r1
    r2 = r2
    c1 = c1
    Requests = {r1, r2}
    Routes = {"health", "auth", "order", "stub", "keys", "unknown", "redirect"}
    ClientIds = {c1}
    Header <- MCHeader
    NoId = NoId
    OldId = OldId
    LogLevels = {"info", "WARN"}
    MaxConns = 1
    EvalGuards = {TRUE, FALSE}
    MayPanic = {"rule", "handler"}
INVARIANTS
    TypeOK
    CleanExit
    ReleasedAtExit
    GuardedEffect
    TracesAgree
PROPERTIES
    Terminates
