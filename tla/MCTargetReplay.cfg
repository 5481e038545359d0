SPECIFICATION MCSpec
CONSTANTS
    Symbols = {1, 2, 3}
    Lookback = 1
    Trend = 2
    Skip = 0
    TopK = 2
    Cap <- MCCap
    TargetVol <- MCTargetVol
    Warmup = 2
    Scored = 3
    Rows <- MCRows
    VolCases <- MCVolCases
    Families = {"cash", "buy_and_hold", "sleeve", "cross_sectional", "time_series", "trend_filtered", "volatility_managed"}
    Frictions <- MCFrictions
    Clocks = {1, 2}
    SleeveSymbol = 1
    Exposures <- MCExposures
    MonthLength <- MCMonthLength
    Calendars <- MCCalendars
    Months = 1
    RegimeLag = 1
    Breadth = 2
ACTION_CONSTRAINTS
    SummariseSome
    OneLastEstimate
CHECK_DEADLOCK FALSE
INVARIANTS
    ReplayIsSolvent
    AuditAccepts
    NoLookahead
    CapIsFilled
    FormulasAgree
    ReturnsCompound
