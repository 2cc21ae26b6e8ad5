----------------------------- MODULE MCReadApi -------------------------------
(* The first page of two rows under one ts and an older row behind them, of *)
(* all roads or of one, and the other lists beside them.                   *)
EXTENDS ReadApi

CONSTANTS a, b

Row(list, ts, road) == [list |-> list, ts |-> ts, road |-> road]
First(list, road) == [list |-> list, road |-> road, limit |-> 9]

TwoCycles == {Row("30", 2, a), Row("30", 2, b), Row("30", 1, a)}

Everything == [c \in Clients |->
    {First("30", AnyRoad), First("30", b), First("roads", a), First("traffic", a), First("reroutes", b)}]
=============================================================================
