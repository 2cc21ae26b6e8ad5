SPECIFICATION JamSpec
CONSTANTS
    a = a
    b = b
    c = c
    p1 = p1
    r1 = r1
    Predictors = {p1}
    Rerouters = {r1}
    Roads <- ThreeRoads
    Scores = {2, 8}
    NoData = NoData
    Adjacency <- OneWayOut
    One = 10
    Threshold = 5
    MinGain = 1
    MaxClock = 1
    MaxShifts = 1
    MaxFaults = 1
INVARIANTS BothTypeOK AdviceLossContained
PROPERTIES AdviceSettles CongestionRelieved
