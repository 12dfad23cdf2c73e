--------------------------- MODULE MCTraceRecord ----------------------------
(* Short and long names, and numbers on both sides of the columns. *)
EXTENDS TraceRecord

MCNames == {<<Letter>>, <<Space, Letter>>, [i \in 1..15 |-> Letter]}
MCCalls == {-1, 0, 59, 231}
=============================================================================
