SPECIFICATION Spec
CONSTANTS
    i1 = i1  i2 = i2  s1 = s1  s2 = s2
    Instances <- MCInstances
    Offset <- MCOffset
    Bodies <- MCBodies
    Skew = 1
    Secrets <- MCSecrets
    Tenants = {"acme"}
    Users = {"ann"}
    Scopes = {"none", "ontario"}
    Generated = "uuid"
    Partner = partner
    AccessTTL = 3
    RefreshTTL = 5
    Precision = 2
    MaxTime = 7
    MaxMints = 3
    MaxRestarts = 2
    None = None
SYMMETRY SecretSymmetry
INVARIANTS TypeOK IdentityCarried AccessBounded RefusedOnlyWhenDue SecretRetired
PROPERTY StaysLapsed
