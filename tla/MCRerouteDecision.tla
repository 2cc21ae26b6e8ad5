------------------------- MODULE MCRerouteDecision --------------------------
(* The decision on the road network of the code, with scores in tenths. *)
EXTENDS OneDecision

CONSTANTS RingNorth, RingSouth, CityCenter, AirportAxis, UniversityLoop

AllRoads == {RingNorth, RingSouth, CityCenter, AirportAxis, UniversityLoop}

\* adjacencyMap
RoadNetwork ==
    [r \in AllRoads |->
        CASE r = RingNorth      -> <<RingSouth, CityCenter>>
          [] r = RingSouth      -> <<RingNorth, CityCenter>>
          [] r = CityCenter     -> <<RingNorth, RingSouth>>
          [] r = AirportAxis    -> <<RingSouth, UniversityLoop>>
          [] r = UniversityLoop -> <<AirportAxis, CityCenter>>]
=============================================================================
