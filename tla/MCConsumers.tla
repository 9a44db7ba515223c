----------------------------- MODULE MCConsumers -----------------------------
(* Consumers for TLC: consumers and messages are interchangeable. *)
EXTENDS Consumers, TLC

Interchangeable == Permutations(Consumer) \cup Permutations(Message)
=============================================================================
