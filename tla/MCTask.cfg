SPECIFICATION Spec
CONSTANTS
    s1 = s1
    s2 = s2
    Server = {s1, s2}
    Reboot = TRUE
    Action = {1, 2, 3, 4}
    maxRunHistory = 1
    MaxEvents = 2
CHECK_DEADLOCK FALSE
INVARIANTS
    TypeOK
    RunsDoNotOverlap
    HistoryMatchesSpec
    DeletionCancels
PROPERTY RerunIsOneShot
