CONSTANTS
    Aspect = {"groups", "details", "formulas"}
    Ref = {"group"}
    MaxSystem = 2
    MaxGen = 3
    MaxEvents = 2
SPECIFICATION FairSpec
INVARIANTS ReconciledMeansConfigured DeletionLeavesNoProfile
PROPERTIES SystemConverges ReinstallIsOneShot
CHECK_DEADLOCK FALSE
