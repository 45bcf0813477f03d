CONSTANTS
    Profiles <- MCProfiles
    MaxGen = 2
    MaxEvents = 2
SPECIFICATION Spec
INVARIANT ImageIsOwn
CHECK_DEADLOCK FALSE
