--------------------------- MODULE MCFrameAssembly ---------------------------
(* FrameAssembly for TLC: frames of 8 bytes (a heartbeat), 12 bytes and 9 bytes. *)
EXTENDS FrameAssembly

Boundaries == <<1, 9, 21, 30, 38>>
=============================================================================
