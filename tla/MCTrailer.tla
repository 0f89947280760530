------------------------------ MODULE MCTrailer ------------------------------
(* A small trailer: a turn of eight ticks.  The left side takes offsets of  *)
(* a quarter turn as they are and the right side of half a turn, for the    *)
(* code's 1000 and 4096 of 8192.  The left arm rests at either of two       *)
(* readings on both sides of zero, further apart than its threshold.        *)
EXTENDS Trailer

MCReadings == [s \in Side |-> IF s = "l" THEN {1, 7} ELSE {3}]
MCLimit == [s \in Side |-> IF s = "l" THEN 2 ELSE 4]
MCPrepare == [s \in Side |-> IF s = "l" THEN 1 ELSE -1]
MCCatch == [s \in Side |-> IF s = "l" THEN 1 ELSE -1]
==============================================================================
