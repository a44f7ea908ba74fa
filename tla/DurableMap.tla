----------------------------- MODULE DurableMap -----------------------------
(***************************************************************************)
(* What the checkpoint store promises its callers: a map that is read and  *)
(* written in memory, whose whole contents reach the disk in one atomic    *)
(* step, and that falls back to the disk's contents when the process dies. *)
(* CheckpointStore is shown to implement it; LogReplay is built on it.     *)
(***************************************************************************)

CONSTANTS Names,     \* logical container names
          Values,    \* checkpoints that pass validation
          None       \* no checkpoint under this name

VARIABLES mem,       \* what Load answers
          disk       \* what a process started now would read

Init ==
  /\ disk \in [Names -> Values \cup {None}]
  /\ mem = disk

\* Save: memory moves at once, the disk either later or together with it.
Put(n, v) ==
  /\ mem' = [mem EXCEPT ![n] = v]
  /\ disk' \in {disk, mem'}

\* Flush, the timed flush and Close: the disk catches up with memory.
Sync ==
  /\ disk' = mem
  /\ UNCHANGED mem

\* The process ends and another one opens the same database.
Reopen ==
  /\ mem' = disk
  /\ UNCHANGED disk

Next ==
  \/ \E n \in Names, v \in Values : Put(n, v)
  \/ Sync
  \/ Reopen

Spec == Init /\ [][Next]_<<mem, disk>>
=============================================================================
