----------------------------- MODULE MCTxSched -----------------------------
(* The transmit scheduler on a ring of a few descriptors. *)
EXTENDS TxSched, TLC

Symmetry == Permutations(Skb \ (Mgmt \cup Ping)) \cup Permutations(Txq)
=============================================================================
