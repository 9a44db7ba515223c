---------------------------- MODULE MCConsumeOne -----------------------------
(* ConsumeOne for TLC: a queue of three messages. *)
EXTENDS ConsumeOne
=============================================================================
