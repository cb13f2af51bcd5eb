----------------------------- MODULE MCRxPool -----------------------------
(* The receive pool with a few chunks and buffers. *)
EXTENDS RxPool, TLC

Symmetry == Permutations(Chunk) \cup Permutations(Skb)
============================================================================
