SPECIFICATION Spec
CONSTANTS
    BaseLots = 1
    AddonLots = 1
    AddonEnabled = TRUE
    SequentialEnabled = TRUE
    StochCross = FALSE
    Sides <- LongOnly
    Prompt = TRUE
    MaxExecs = 5
    MaxSetups = 1
    MaxAddons = 1
    MaxVersions = 1
    MaxForced = 0
    MaxRejects = 0
    MaxCrashes = 0
    MaxFuse = 0

INVARIANT
    CoverageFits

    

CHECK_DEADLOCK FALSE
