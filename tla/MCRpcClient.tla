----------------------------- MODULE MCRpcClient -----------------------------
(* RpcClient for TLC: calls are interchangeable. *)
EXTENDS RpcClient, TLC

Interchangeable == Permutations(Call)
=============================================================================
