CONSTANTS
    Project = {p1}
    Label = {l1}
    Channel = {c1}
    Filter = {f1}
    MaxCrit = 2
    MaxFilterID = 1
    MaxEvents = 4
    p1 = p1
    p2 = p1
    l1 = l1
    l2 = l1
    c1 = c1
    f1 = f1
SPECIFICATION FairSpec
PROPERTY SkippedBuildsAreRetried
CHECK_DEADLOCK FALSE
