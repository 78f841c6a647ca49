SPECIFICATION Spec
CONSTANTS
    MaxOpens = 2
    MaxFaults = 2
    MaxSessions = 2
    Answers = "text"

INVARIANTS
    OneExitPerTrade
    OrdersFitPosition

    

CHECK_DEADLOCK FALSE
