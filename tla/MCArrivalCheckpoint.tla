------------------------- MODULE MCArrivalCheckpoint -------------------------
(* Input a is any of nine streams of four events with gaps of zero, one or    *)
(* three ticks; input b is one stream.  A service takes one and a half ticks.  *)
EXTENDS ArrivalCheckpoint

CONSTANTS a, b, s1, s2

Kinds == <<"bid", "trade", "ask", "trade">>
Stream(gaps, cast) ==
  LET time[i \in 1 .. 4] == IF i = 1 THEN 1 ELSE time[i - 1] + gaps[i - 1] IN
  [i \in 1 .. 4 |-> [t |-> time[i], index |-> i, sym |-> cast[i], kind |-> Kinds[i]]]

MCTraces ==
  {[i \in Inputs |-> IF i = a THEN Stream(gaps, cast) ELSE Stream(<<1, 1, 1>>, <<s2, s2, s1, s2>>)] :
     gaps \in {<<x, y, x>> : x, y \in {0, 1, 3}}, cast \in {<<s1, s2, s1, s1>>}}
=============================================================================
