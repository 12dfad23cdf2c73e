--------------------------- MODULE MCFileStreams ----------------------------
(* Small instances of FileStreams. *)
EXTENDS FileStreams
=============================================================================
