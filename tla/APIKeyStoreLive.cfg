SPECIFICATION FairSpec
CONSTANTS
    Clients = {c1, c2}
    Ids = {k1, k2}
    Tenants = {t1}
    Scopes = {s1}
    Deadlines = {}
    Never = Never
    None = None
PROPERTIES
    EveryCallReturns
