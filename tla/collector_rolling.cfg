SPECIFICATION Spec
CONSTANTS
    c1 = c1
    c2 = c2
    s1 = s1
    r1 = r1
    t1 = t1
    t2 = t2
    none = none
    Instances = {c1, c2}
    Sensors = {s1}
    RoadIds = {r1}
    Times = {t1, t2}
    Missing = none
    MaxSent = 2
    MaxCopies = 1
    Payloads <- RollingPayloads
SYMMETRY Symmetry
INVARIANTS StampedStoredOnce
PROPERTIES FirstReadingKept ImplementsLiveFeed
VIEW WithoutCounters
