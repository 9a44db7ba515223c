------------------------------ MODULE MCSession ------------------------------
(* Session for TLC.  No symmetry: the run checks a liveness property too. *)
EXTENDS Session
=============================================================================
