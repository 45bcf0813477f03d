SPECIFICATION FairSpec
CONSTANTS
    s1 = s1
    s2 = s2
    Server = {s1}
    Reboot = TRUE
    Action = {1, 2, 3}
    maxRunHistory = 1
    MaxEvents = 2
CHECK_DEADLOCK FALSE
PROPERTIES
    Settles
    RerunServed
