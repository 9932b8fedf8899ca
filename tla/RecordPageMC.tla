--------------------------- MODULE RecordPageMC ---------------------------
(* Small instances of RecordPage for TLC. *)
EXTENDS RecordPage, TLC

CONSTANTS r1, r2, c1, c2, p1, p2

SameChannel == [p \in Pages |-> "a:0"]
===========================================================================
