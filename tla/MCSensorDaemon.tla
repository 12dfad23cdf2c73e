--------------------------- MODULE MCSensorDaemon ---------------------------
(* Small instances of SensorDaemon. *)
EXTENDS SensorDaemon, TLC

Symmetry == Permutations(Starts) \cup Permutations(Stops)
=============================================================================
