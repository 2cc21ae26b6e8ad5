SPECIFICATION ForecastSpec
CONSTANTS
    Lookback = 12
    Horizon = 12
    Width = 2
    Unit = 25
    Buckets = {0, 1, 2, 3, 4, 5, 6, 10, 13}
    MaxLate = 1
    Averages <- Traffic
    Hours = {8, 22}
    Lags = {1}
    None = None
INVARIANTS ForecastTypeOK WorseNowNotBetterLater RisingNotEased
