---------------------------- MODULE MediaPlaneMC ----------------------------
(* Small instances of MediaPlane for TLC. *)
EXTENDS MediaPlane, TLC

CONSTANTS w1, w2, v1

WorkerSymmetry == Permutations(Workers)

\* A viewer or a player at a time.  Neither writes what the other reads, and no property is
\* about both, so that a behaviour with both shows nothing that those with one do not.
OneWatches == hpc = "idle" \/ \A v \in Viewers : vpc[v] = "idle"
=============================================================================
