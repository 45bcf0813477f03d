SPECIFICATION PoolFairSpec
CONSTANTS
    w1 = w1
    pr = pr
    o1 = o1
    None = None
    Caller = {w1}
    Provider = {pr}
    Orgs = {o1}
    providerRef <- ProviderRef
    Watched = {pr}
    MaxChanges = 3
CHECK_DEADLOCK FALSE
INVARIANTS
    PoolTypeOK
    FreshUnlessRaced
PROPERTIES
    OrgClientsCatchUp
