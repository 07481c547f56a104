SPECIFICATION FairSpec
CONSTANTS
    Requests = {r1}
    Regions = {"east", "west"}
    Suppliers = {"s1", "s2"}
    Values = {49999, 50000}
    Inputs <- Everything
    Rules <- DefaultRuleSeq
    Match <- DefaultMatch
    SameTenant <- InTenant
INVARIANTS
    TypeOK
    FailsClosed
    RefusalExplained
    AuditedBeforeEffect
    ReadmePermissions
PROPERTIES
    BoundedEvaluation
    NoGoroutineLeak
