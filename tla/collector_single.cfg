SPECIFICATION FairSpec
CONSTANTS
    c1 = c1
    c2 = c2
    s1 = s1
    r1 = r1
    t1 = t1
    t2 = t2
    none = none
    Instances = {c1}
    Sensors = {s1}
    RoadIds = {r1}
    Times = {t1, t2}
    Missing = none
    MaxSent = 3
    MaxCopies = 2
    Payloads <- SinglePayloads
INVARIANTS CountersBalance
PROPERTIES ImplementsLiveFeed RoadsMoveForward HandlerCatchesUp
