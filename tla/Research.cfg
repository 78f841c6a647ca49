SPECIFICATION ResearchSpec
CONSTANTS
    Cooldown = 1
    StaleBars = 2
    ArmBars = 2
    BuyEvery = 2
    DayLength = 2
    Offset = 1
    MaxBars = 5
    Cash = 15
    FirstPrice = 5
    LowPrice = 4
    TopPrice = 7
    Kinds = {"pullback", "reversion", "momentum", "buy_and_hold", "dca", "scripted"}
    MaxBarsWF = 5
    MaxGap = 2
    MaxWindow = 3
    DayLengths = {1, 2}
    MaxHours = 5
    EntryPrice = 10
    SetupEquity = 10
    MaxLots = 2
    Marks <- TwoMarks
    PageLimit = 2
    FlushEvery = 2
    MissingShare = 3
    Ratio = 2
    Starts = {0, 2}
    Ends = {2}
    MaxTime = 4
    FundingLimit = 2
    FundingStarts = {1, 2}
    MaxInstant = 7
    H1Bars <- HourBars
    ArmExpiry = 2
    Oversold = 3
    Overbought = 7
    MaxH1Bars = 4

INVARIANTS
    StrategyKnowsPosition
    HaltedAtFirstBreach
    TierOneParity
    SweepAgrees
    HonestCurve
    LiquidationIsCausal
    ResultExplained
    
    
    FundingWhole
    AnswersInTime
    OneOpportunity
PROPERTY
    LiquidatedStaysFlat

CHECK_DEADLOCK FALSE
