CONSTANTS
    Aspect = {"groups", "details", "formulas"}
    Ref = {"group"}
    MaxSystem = 2
    MaxGen = 3
    MaxEvents = 2
SPECIFICATION Spec
INVARIANT ReinstallFiresOnce
CHECK_DEADLOCK FALSE
