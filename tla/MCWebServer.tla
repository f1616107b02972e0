----------------------------- MODULE MCWebServer -----------------------------
(* Instances of the event loop for TLC. *)
EXTENDS WebServerProperties, TLC

Interchangeable == Permutations(Conn)
=============================================================================
