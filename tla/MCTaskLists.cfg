SPECIFICATION Spec
CONSTANTS
    s1 = s1
    s2 = s2
    Server = {s1, s2}
    Reboot = FALSE
    Action = {1, 2, 3}
    maxRunHistory = 2
    MaxEvents = 1
CHECK_DEADLOCK FALSE
INVARIANTS
    SucceededMeansAllSucceeded
