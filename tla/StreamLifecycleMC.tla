------------------------ MODULE StreamLifecycleMC ------------------------
(* Small instances of StreamLifecycle for TLC. *)
EXTENDS StreamLifecycle, TLC

CONSTANTS w1, w2, w3, v1

TwoWorkers == {w1, w2}
ThreeWorkers == {w1, w2, w3}
WorkerSymmetry == Permutations(Workers)

\* main returns 2 s after StopAll: what workers and calls do until then is followed while no viewer
\* is there; the theorems have the rest.
QuietShutdown == down => \A v \in Viewers : vpc[v] = "idle"

\* The server has an empty configuration and has booted before the first call.
BootFirst == booted \/ booted'
EmptyStart == Init /\ conf = {} /\ [][Next /\ BootFirst]_vars
=============================================================================
