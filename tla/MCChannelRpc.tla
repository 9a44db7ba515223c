---------------------------- MODULE MCChannelRpc ----------------------------
(***************************************************************************)
(* ChannelRpc for TLC.  Calls, objects and numbers are interchangeable; a  *)
(* third object can take a number that two others have lost.               *)
(***************************************************************************)
EXTENDS ChannelRpc, TLC

Interchangeable == Permutations(Call) \cup Permutations(Chan) \cup Permutations(Number)
=============================================================================
