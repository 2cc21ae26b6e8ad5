---------------------------- MODULE MCCollector -----------------------------
(* Small instances of Collector for TLC. *)
EXTENDS Collector, TLC

CONSTANTS c1, c2, s1, r1, t1, t2, none

\* One sensor that repeats a reading (with and without coordinates) and one
\* message without a time, as two senders of different versions produce them.
Stamped   == [json |-> TRUE, ts |-> t1, sensor |-> s1, road |-> r1, coords |-> FALSE]
Located   == [Stamped EXCEPT !.coords = TRUE]
Unstamped == [Stamped EXCEPT !.ts = none]
\* Messages processMessage rejects.
Garbled   == [Stamped EXCEPT !.json = FALSE]
Anonymous == [Located EXCEPT !.sensor = none]

RollingPayloads == {Located, Unstamped}
SinglePayloads  == {Stamped, Located, Unstamped, Garbled, Anonymous}

\* The counters and the road rows steer nothing: runs whose properties do not
\* read them tell states apart without them.
WithoutCounters == <<topic, clientVars, handlerVars, traffic_raw, live>>

Symmetry == Permutations({c1, c2})
=============================================================================
