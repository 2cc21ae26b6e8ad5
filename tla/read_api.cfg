SPECIFICATION FairSpec
CONSTANTS
    a = a
    b = b
    Clients = {c1}
    Horizons = {"30"}
    Rows <- TwoCycles
    AnyRoad = AnyRoad
    Asks <- Everything
    DefaultLimit = 1
    MaxLimit = 1
    NoLimit = 3
    NoCursor = NoCursor
    Nothing = Nothing
    MaxWrites = 2
INVARIANTS TypeOK WalkDescends WalkComplete
PROPERTIES CacheCatchesUp
