---------------------------- MODULE ConfigStoreMC ---------------------------
(* Small instances of ConfigStore for TLC. *)
EXTENDS ConfigStore, TLC

CONSTANTS c1, c2, k1, k2, p1, p2

ConfigSymmetry == Permutations(Callers) \cup Permutations(Secrets) \cup Permutations(GoodPaths)
=============================================================================
