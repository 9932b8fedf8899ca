---------------------------- MODULE RecorderMC ----------------------------
(* Small instances of Recorder for TLC. *)
EXTENDS Recorder, TLC

CONSTANTS r1, r2, r3, c1, c2

RecorderSymmetry == Permutations(Recordings)

\* Time passes only while a recording waits for its codecs or writes packets: nothing hangs.
Prompt == \A r \in Recordings : rpc[r] \in {"unborn", "codecs", "loop", "done"}
SlowCodecs == Init /\ [][Next /\ (waited' # waited => Prompt \/ cpc' # cpc)]_vars
===========================================================================
