CONSTANTS
    Org = {o1, o2}
    Dependent = {"listed"}
    MaxOrgID = 2
    MaxEvents = 2
    o1 = o1
    o2 = o2
SPECIFICATION FairSpec
INVARIANTS SiblingsKeepTheirOrg NothingLeftBehind
PROPERTY DeletionCompletes
CHECK_DEADLOCK FALSE
