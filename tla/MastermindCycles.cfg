SPECIFICATION Spec
CONSTANTS
    BaseLots = 1
    AddonLots = 1
    AddonEnabled = TRUE
    SequentialEnabled = TRUE
    StochCross = FALSE
    Sides <- LongOnly
    ForcedReasons = {}
    FinalReasons = {"BASE_SL", "TP"}
    Settlements = {"f1"}
    Reported = {"BASE_ENTRY"}
    MaxExecs = 4
    MaxSetups = 2
    MaxAddons = 1
    MaxVersions = 1
    MaxSeq = 0
    Faults = {}
    MaxFaults = 0

PROPERTIES
    
    VerdictMovesRisk

\* The machine stops when the budgets of the run are spent.
CHECK_DEADLOCK FALSE
