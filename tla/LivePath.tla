------------------------------- MODULE LivePath --------------------------------
(***************************************************************************)
(* From the row to the browser: the live socket (LiveSocket) behind what   *)
(* the collectors promise of cityflow:live (LiveFeed).  Redis Pub/Sub      *)
(* joins them: an announcement is handed to the subscribers of that        *)
(* moment, in one step, and is kept for nobody else.  Message n of         *)
(* LiveSocket is the n-th announcement.                                    *)
(*                                                                         *)
(* Collector implements LiveFeed, so that what holds here holds of the     *)
(* collectors' program in the place of the promise.                        *)
(***************************************************************************)
EXTENDS LiveSocket

CONSTANTS Instances, Keys, Positions   \* of LiveFeed

VARIABLES recorded, announced          \* of LiveFeed
feed == <<recorded, announced>>

Feed == INSTANCE LiveFeed

\* A row becomes durable; no subscriber is told.
Stored == /\ \E k \in Keys : Feed!Record(k)
          /\ UNCHANGED vars

\* PUBLISH: a collector announces a reading, and every subscription receives it,
\* but for those that lose it.
Relayed == \E by \in Instances, seq \in Positions, k \in Keys, lost \in SUBSET Conns :
               Feed!Announce(by, seq, k) /\ Publish(lost)

\* Any step of clients, handlers and their surroundings.
OfTheSocket == Unprompted /\ UNCHANGED feed

PathInit == Init /\ Feed!Init
PathNext == Stored \/ Relayed \/ OfTheSocket
PathSpec == PathInit /\ [][PathNext]_<<vars, feed>>

\* Nothing is asked of the collectors: Fairness is that of the socket.
PathFairSpec == PathSpec /\ Fairness

\* What a dashboard is shown of one collector follows the stream of readings, and
\* nothing is shown without its row, across reconnects, overlapping handlers and
\* lost messages: the view of a road never goes back to an older reading, as long as
\* one collector speaks for it.
ShownInStreamOrder ==
    \A c \in Clients : \A i, j \in DOMAIN got[c] :
        LET a == announced[got[c][i]]
            b == announced[got[c][j]]
        IN  /\ a.key \in recorded
            /\ i < j /\ a.by = b.by => a.seq <= b.seq
=============================================================================
