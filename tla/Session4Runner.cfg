SPECIFICATION FairSpec
CONSTANTS
    Runs = {1, 2}
    SymbolOf <- TwoSymbols
    Workers = 2
    Selections <- WholeMatrix
    Orphans = FALSE
    MaxFaults = 2
    MaxLaunches = 2


    
PROPERTIES
    CompleteWhenWhole
    
    LaunchEnds

CHECK_DEADLOCK FALSE
