--------------------------- MODULE MCNotifyWorker ---------------------------
(* Instances of NotifyWorker for TLC.                                      *)
EXTENDS NotifyWorker
=============================================================================
