CONSTANTS
    Project = {p1, p2}
    Label = {l1, l2}
    Channel = {c1}
    Filter = {f1}
    MaxCrit = 2
    MaxFilterID = 2
    MaxEvents = 1
    p1 = p1
    p2 = p2
    l1 = l1
    l2 = l2
    c1 = c1
    f1 = f1
SPECIFICATION FairSpec
INVARIANTS FingerprintTruthful FilterChangesAreBuilt DeletionIsComplete
PROPERTY SourcesConverge
CHECK_DEADLOCK FALSE
