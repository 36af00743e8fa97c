--------------------------- MODULE MCAsyncLogging ---------------------------
(* Instances of AsyncLogging for TLC: two lines share a buffer, the long     *)
(* line is cut even by an empty one.                                         *)
EXTENDS AsyncLogging

CONSTANTS a, b, c, d, long, null

MCLines == {a, b, c, d, long}
MCSize == [m \in MCLines |-> IF m = long THEN 4 ELSE IF m = d THEN 2 ELSE 1]
MCShortLines == {a, b, long}
MCShortSize == [m \in MCShortLines |-> IF m = long THEN 4 ELSE 1]
=============================================================================
