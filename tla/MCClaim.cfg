CONSTANTS
    Kinds <- MCKinds
    Contended = {"SoftwareChannel", "SystemGroup"}
    MaxGen = 2
    MaxEvents = 2
    MaxContendedEvents = 1
SPECIFICATION FairSpec
INVARIANTS OthersKeepTheirs NothingLeftBehind
PROPERTIES TriggersServed ClaimsConverge
CHECK_DEADLOCK FALSE
