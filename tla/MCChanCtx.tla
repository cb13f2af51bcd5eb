---------------------------- MODULE MCChanCtx ----------------------------
(* The channel contexts with a few interfaces.  Frequencies that need radar *)
(* detection are interchangeable, and those that do not.                    *)
EXTENDS ChanCtx, TLC

Symmetry ==
  Permutations(Ap) \cup Permutations(Ctx)
    \cup Permutations(Radar) \cup Permutations(Freq \ Radar)
============================================================================
