------------------------------ MODULE MCTxRing ------------------------------
(* The descriptor ring with two or three descriptors and a small wrap. *)
EXTENDS TxRing, TLC

Symmetry == Permutations(Skb)
=============================================================================
