------------------------------ MODULE MCStreams ------------------------------
(* Streams for TLC: two consumers, before and after a reconnection. *)
EXTENDS Streams
=============================================================================
