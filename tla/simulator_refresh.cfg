SPECIFICATION FairSpec
CONSTANTS
    ParisRoads = {a, b}
    Fallback = {sim}
    FirstFallback = sim
    None = None
    Throws = Throws
    MaxConnects = 3
    MaxFetches = 2
    MaxFaults = 2
INVARIANTS OwnReadings OneEdition
PROPERTIES RealDataReturns
