------------------------------ MODULE MCSockets ------------------------------
(* Sockets for TLC: three attempts, so that one that timed out meets the next two. *)
EXTENDS Sockets
=============================================================================
