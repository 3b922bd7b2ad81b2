--------------------------- MODULE MCLiveEvents ---------------------------
(* A small instance of LiveEvents for TLC.                                  *)
EXTENDS LiveEvents, TLC

ItemSymmetry == Permutations(Items)
=============================================================================
