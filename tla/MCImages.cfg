CONSTANTS
    Profiles <- MCProfiles
    MaxGen = 2
    MaxEvents = 2
SPECIFICATION FairSpec
INVARIANTS ScheduledOnce RollbackKept
PROPERTY ImagesConverge
CHECK_DEADLOCK FALSE
