SPECIFICATION Spec
CONSTANTS
    BaseLots = 2
    AddonLots = 1
    AddonEnabled = TRUE
    SequentialEnabled = TRUE
    StochCross = FALSE
    Sides <- LongOnly
    ForcedReasons = {}
    FinalReasons = {"BASE_SL", "TP", "MANUAL", "ENGINE_ERROR"}
    Settlements = {}
    Reported = {"BASE_ENTRY"}
    MaxExecs = 3
    MaxSetups = 1
    MaxAddons = 1
    MaxVersions = 1
    MaxSeq = 0
    Faults = {"late", "unasked"}
    MaxFaults = 2

INVARIANT
    FinalIsQuiet
PROPERTY
    OrdersEndForGood

\* The machine stops when the budgets of the run are spent.
CHECK_DEADLOCK FALSE
