SPECIFICATION Spec
CONSTANTS
    MaxEvents <- FewEvents
INVARIANTS
    IntentNeverLost
