SPECIFICATION Spec
CONSTANTS
    RingNorth = RingNorth
    RingSouth = RingSouth
    CityCenter = CityCenter
    AirportAxis = AirportAxis
    UniversityLoop = UniversityLoop
    NoRoad = NoRoad
    Roads <- AllRoads
    Adjacency <- RoadNetwork
    One = 10
    Threshold = 5
    MinGain = 1
INVARIANTS LoopAgrees AdviceSound NoCircularAdvice ReliefFound
