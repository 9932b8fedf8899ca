-------------------------- MODULE ShareManagerMC --------------------------
(* Small instances of ShareManager for TLC. *)
EXTENDS ShareManager, TLC

CONSTANTS s1, s2, v1, v2, v3

ViewerSymmetry == Permutations(ViewerIds)
=============================================================================
