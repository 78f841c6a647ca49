SPECIFICATION Spec
CONSTANTS
    MaxOpens = 2
    MaxFaults = 2
    MaxSessions = 2
    Answers = "signal"
PROPERTY
    SignalExecuted
CHECK_DEADLOCK FALSE
