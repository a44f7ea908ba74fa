---------------------------- MODULE MCLogReplay ----------------------------
(* Instance of LogReplay for TLC.                                          *)
EXTENDS LogReplay
=============================================================================
