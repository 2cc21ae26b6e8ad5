------------------------------ MODULE LiveFeed ------------------------------
(***************************************************************************)
(* What the collector promises to everything behind it: readings become    *)
(* durable rows of traffic_raw and are then announced on the Redis channel *)
(* cityflow:live.  An announcement never precedes its row, and what one    *)
(* collector announces follows the order in which the readings were        *)
(* published.  It does not promise that a row is announced, that one is    *)
(* announced once only, or any order between two collectors.               *)
(***************************************************************************)
EXTENDS Naturals, Sequences

CONSTANTS Instances,   \* collector processes that may run at once
          Keys,        \* primary keys of traffic_raw: a time and a sensor
          Positions    \* positions in the stream of published readings

VARIABLES recorded,    \* keys that have a row
          announced    \* entries [by, seq, key] in the order Redis relays them

vars == <<recorded, announced>>

Init == recorded = {} /\ announced = << >>

Record(k) == /\ recorded' = recorded \union {k}
             /\ UNCHANGED announced

\* by is the announcing collector, seq the position of the reading in the
\* stream, k the row it was stored as.
Announce(by, seq, k) ==
    /\ k \in recorded
    /\ \A n \in DOMAIN announced :
          announced[n].by = by => announced[n].seq <= seq
    /\ announced' = Append(announced, [by |-> by, seq |-> seq, key |-> k])
    /\ UNCHANGED recorded

Next == \/ \E k \in Keys : Record(k)
        \/ \E by \in Instances, seq \in Positions, k \in Keys : Announce(by, seq, k)

Spec == Init /\ [][Next]_vars
=============================================================================
