SPECIFICATION Spec
CONSTANTS
    BaseLots = 1
    AddonLots = 2
    AddonEnabled = TRUE
    SequentialEnabled = TRUE
    StochCross = TRUE
    Sides <- LongOnly
    ForcedReasons = {"MANUAL"}
    FinalReasons = {"BASE_SL", "MANUAL"}
    Settlements = {}
    Reported = {"BASE_ENTRY"}
    MaxExecs = 3
    MaxSetups = 1
    MaxAddons = 2
    MaxVersions = 1
    MaxSeq = 0
    Faults = {}
    MaxFaults = 0

INVARIANTS
    
    LegsMatchFills
    ExposureProtected
    CloseIsExclusive

\* The machine stops when the budgets of the run are spent.
CHECK_DEADLOCK FALSE
