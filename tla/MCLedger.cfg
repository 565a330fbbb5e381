CONSTANTS
    Backends = {"memory", "sqlite"}
    ResetDays = {28, 30}
    Moments <- MCMoments
    DayLength = 2
    Amounts = {1, 3}
    Horizon = 30
    None = None
    MaxEvents = 3
SPECIFICATION LedgerSpec
CHECK_DEADLOCK FALSE
INVARIANTS DailyCostsComplete ForecastSound
PROPERTY RefreshRecovers
