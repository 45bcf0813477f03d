SPECIFICATION FairSpec
CONSTANTS
    MaxEvents <- Events
INVARIANTS
    TypeOK
    IntentKept
    StatusAgrees
PROPERTIES
    IntentApplied
