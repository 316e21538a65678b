SPECIFICATION Spec
CONSTANTS
    Annual = 3
    Window = 2
    Period = 2
    Trailing = 3
    Horizons = {1, 2, 3}
    StrengthHorizons = {2, 3}
    Averages = {2, 3}
    FlatBand = 1
    RealizedVolatility <- MCRealizedVolatility
    DayOf <- MCDayOf
    RecentSplitWindow = 2
    EventSessions = 5
    Never = 99
    Unit = 1000
    SumTolerance = 1
    RoundingTolerance = 20
    NoJudgment = NoJudgment
    Policy <- PolicyV1
    Requested = "jev"
    NoBand = NoBand
    Tickers = {"AAPL", "SPY"}
    BytesOf <- MCBytesOf
    MaxRequestBytes = 1
    RiskPercent = 2
    NotionalPercent = 60
    AggregatePercent = 3
    MaxOpenPositions = 2
    Sessions <- MCSessions
    FirstDay = 4
    LastInstant = 12
    BaseBar <- MCBaseBar
    Surprises <- MCSurprises
    MaxSurprises = 2
    Requests <- MCRequests
    CloseOf <- MCCloseOf
    MaxAnswers = 2
    Replies <- MCReplies
    Contracts <- MCContracts
    Capital <- MCCapital
INVARIANTS SameKnowledgeSameSnapshot NothingElseIsRefused WindowsAreFull
CHECK_DEADLOCK FALSE
