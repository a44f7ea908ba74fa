------------------------- MODULE MCCheckpointStore -------------------------
(* Instance of CheckpointStore for TLC.                                    *)
EXTENDS CheckpointStore
=============================================================================
