--------------------------- MODULE MCTraceReader ----------------------------
(* Every trace up to MaxText characters. *)
EXTENDS TraceReader
=============================================================================
