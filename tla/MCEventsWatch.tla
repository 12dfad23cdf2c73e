--------------------------- MODULE MCEventsWatch ----------------------------
(* A small instance of EventsWatch. *)
EXTENDS EventsWatch
=============================================================================
