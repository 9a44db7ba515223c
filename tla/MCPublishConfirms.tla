-------------------------- MODULE MCPublishConfirms --------------------------
(* PublishConfirms for TLC: publishes and buffers are interchangeable. *)
EXTENDS PublishConfirms, TLC

Interchangeable == Permutations(Publish) \cup Permutations(Buffer)
=============================================================================
