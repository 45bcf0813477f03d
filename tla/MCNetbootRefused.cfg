SPECIFICATION FairSpec
CONSTANTS
    MaxEvents <- FewEvents
PROPERTIES
    EveryIntentApplied
