---------------------------- MODULE MuxerLLMC ----------------------------
(* Small instances of MuxerLL for TLC. *)
EXTENDS MuxerLL, TLC

CONSTANT q1
==========================================================================
