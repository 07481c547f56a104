SPECIFICATION Spec
CONSTANTS
    Clients = {c1, c2}
    Ids = {k1, k2, k3}
    Tenants = {t1, t2}
    Scopes = {s1}
    Deadlines = {d1}
    Never = Never
    None = None
SYMMETRY Symmetry
INVARIANTS
    TypeOK
    OneLiveKey
    ScopeCarried
PROPERTIES
    ImplementsRegistry
    NeverRevived
    AnswersTruthful
