---------------------------- MODULE DetectorMC ----------------------------
(* Small instances of Detector for TLC. *)
EXTENDS Detector

\* What the form of detection.tmpl saves by default (with a cooldown of a second), and an entry line with a direction
Plain == [frames |-> 2, cooldown |-> 1, minMove |-> 0, direction |-> "any", line |-> NoLine]
Gate == [frames |-> 1, cooldown |-> 1, minMove |-> 1, direction |-> "up", line |-> 1]

MCConfigs == {Plain, Gate}

\* Nothing, one vehicle outside or inside, two of them
MCFrames == {<<>>, <<0>>, <<1>>, <<1, 0>>, <<2, 1>>}
===========================================================================
