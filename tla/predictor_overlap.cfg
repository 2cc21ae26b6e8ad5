SPECIFICATION FairSpec
CONSTANTS
    Predictors = {p1, p2}
    Roads = {a, b}
    Scores = {2, 8}
    NoData = NoData
    MaxClock = 1
    MaxShifts = 1
    MaxFaults = 2
INVARIANTS RowLossContained
PROPERTIES PredictionsSettle
