CONSTANTS
    Org = {o1, o2}
    Dependent = {"listed", "unlisted"}
    MaxOrgID = 2
    MaxEvents = 1
    o1 = o1
    o2 = o2
SPECIFICATION Spec
PROPERTY OrgScopedResourcesBlock
CHECK_DEADLOCK FALSE
