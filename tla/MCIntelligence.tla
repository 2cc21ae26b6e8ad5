--------------------------- MODULE MCIntelligence ---------------------------
(* Two congested roads with one way out, or two roads that no map names. *)
EXTENDS Intelligence

CONSTANTS a, b, c, p1, r1

ThreeRoads == {a, b, c}
OneWayOut  == [road \in {a, b} |-> <<c>>]

\* A batch may hold two recommendations.
Jam == [road \in ThreeRoads |-> IF road = c THEN 2 ELSE 8]

\* The services start on a jam, with c as free as it may be or silent, or with a
\* silent.  Shift leads from there to the windows the run does not start on.
Starts == {[Jam EXCEPT ![c] = score] : score \in Scores \union {NoData}}
              \union {[Jam EXCEPT ![a] = NoData]}

JamInit == BothInit /\ window \in Starts
JamSpec == JamInit /\ [][BothNext]_bothVars /\ BothFairness

\* The keys of adjacencyMap against the identifiers the simulator publishes
\* (PARIS-..., SIM-...): no road that reports is in the map.
TwoRoads  == {a, b}
NoneKnown == [road \in {} |-> << >>]
=============================================================================
