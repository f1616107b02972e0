--------------------------- MODULE MCRequestReader ---------------------------
(* A buffer that recv fills with up to four bytes, a limit that the first   *)
(* piece of a body can reach and pass, headers shorter and longer than the  *)
(* buffer.                                                                  *)
EXTENDS RequestReader

MCHeaderLengths == 1 .. 6
MCContentLengths == -2 .. 7
MCBodyLengths == 0 .. 8
=============================================================================
