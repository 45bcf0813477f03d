CONSTANTS
    Profiles <- StripProfiles
    MaxGen = 2
    MaxEvents = 2
SPECIFICATION Spec
INVARIANT ObservedIsBuilt
CHECK_DEADLOCK FALSE
