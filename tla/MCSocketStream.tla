--------------------------- MODULE MCSocketStream ---------------------------
(* A small instance of SocketStream: the lengths of the packets leave all  *)
(* three rests, with the highest and the lowest bits of their bytes set.   *)
EXTENDS SocketStream

MCPackets == << <<255, 1, 254, 128>>, <<123, 91>>, <<34, 127, 3>> >>
=============================================================================
