SPECIFICATION FairSpec
CONSTANTS
    BaseLots = 1
    AddonLots = 1
    AddonEnabled = FALSE
    SequentialEnabled = TRUE
    StochCross = FALSE
    Sides <- LongOnly
    Prompt = TRUE
    MaxExecs = 4
    MaxSetups = 1
    MaxAddons = 0
    MaxVersions = 2
    MaxForced = 1
    MaxRejects = 0
    MaxCrashes = 1
    MaxFuse = 6

INVARIANTS
    RestartKnows
    ProtectedOnce

    

CHECK_DEADLOCK FALSE
