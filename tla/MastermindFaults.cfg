SPECIFICATION Spec
CONSTANTS
    BaseLots = 1
    AddonLots = 1
    AddonEnabled = TRUE
    SequentialEnabled = TRUE
    StochCross = FALSE
    Sides <- ShortOnly
    ForcedReasons = {}
    FinalReasons = {"TP"}
    Settlements = {"f1"}
    Reported = {"BASE_ENTRY"}
    MaxExecs = 2
    MaxSetups = 1
    MaxAddons = 1
    MaxVersions = 1
    MaxSeq = 0
    Faults = {"conflict", "drift", "stale", "missing", "restart"}
    MaxFaults = 1

INVARIANTS
    FailSafeAnswers
    IntendedIsDurable
PROPERTY
    OwedBlocks

\* The machine stops when the budgets of the run are spent.
CHECK_DEADLOCK FALSE
