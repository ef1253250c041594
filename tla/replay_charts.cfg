SPECIFICATION Spec
CONSTANTS
    Symbols = {"nq", "es"}
    Bars <- MCBars
    Zones = {"NY", "VN"}
    Timeframes = {4, 24}
    DstStart = 247
    DstEnd = 9999
    MaxCandles = 2
    LiveLimit = 3
    TfMax = 4
    Killzones <- MCKillzones
    LevelTimes <- MCLevelTimes
    Keep = 2
    PivotLen = 1
    NavItems <- MCNavItems
    DefaultNav <- MCDefaultNav
    NavTimes = {14}
    SkipChoices <- MCSkipChoices
    MaxEdits = 2
    None = None
INVARIANTS
    CandlesAreTrue
    NothingAhead
    
    ClockLandsRight
    
CHECK_DEADLOCK FALSE
