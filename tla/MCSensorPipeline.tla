--------------------------- MODULE MCSensorPipeline ---------------------------
(* A small instance of SensorPipeline. *)
EXTENDS SensorPipeline
=============================================================================
