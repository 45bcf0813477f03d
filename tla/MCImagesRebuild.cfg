CONSTANTS
    Profiles <- MCProfiles
    MaxGen = 2
    MaxEvents = 2
SPECIFICATION Spec
PROPERTY BuildNowReschedules
CHECK_DEADLOCK FALSE
