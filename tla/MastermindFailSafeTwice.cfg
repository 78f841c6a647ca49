SPECIFICATION Spec
CONSTANTS
    BaseLots = 1
    AddonLots = 1
    AddonEnabled = TRUE
    SequentialEnabled = TRUE
    StochCross = FALSE
    Sides <- LongOnly
    ForcedReasons = {}
    FinalReasons = {"BASE_SL", "TP", "MANUAL", "ENGINE_ERROR"}
    Settlements = {}
    Reported = {"BASE_ENTRY"}
    MaxExecs = 2
    MaxSetups = 1
    MaxAddons = 1
    MaxVersions = 1
    MaxSeq = 0
    Faults = {"conflict"}
    MaxFaults = 2
INVARIANTS
    FailSafeAnswers
\* The machine stops when the budgets of the run are spent.
CHECK_DEADLOCK FALSE
