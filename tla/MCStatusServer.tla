--------------------------- MODULE MCStatusServer ---------------------------
(* A small instance of StatusServer. *)
EXTENDS StatusServer
=============================================================================
