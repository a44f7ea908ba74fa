---------------------------- MODULE ReplayGate ----------------------------
(***************************************************************************)
(* internal/checkpoint/replay.go: the filter between the log channel and   *)
(* the processor after a (re)connection.  A line and a checkpoint are      *)
(* records with the fields id (container ID), ts (timestamp), text (stream *)
(* and raw content) and pos, the line's place in its container's log; pos  *)
(* is not in the program and nothing below looks at it.                    *)
(***************************************************************************)
EXTENDS Integers, Sequences

(* EventHash: a digest of exactly these properties.                        *)
EventHash(line) == <<line.id, line.ts, line.text>>

ReplayStart(cp, overlap) == cp.ts - overlap

(* A checkpoint that Save accepted has all three fields NewReplayGate asks *)
(* for, so a gate built from a stored checkpoint always starts looking.    *)
NewReplayGate(cp) == [checkpoint |-> cp, looking |-> TRUE, buffered |-> <<>>]

Opened(g) == [g EXCEPT !.looking = FALSE, !.buffered = <<>>]

IsMarker(g, line) ==
  line.ts = g.checkpoint.ts /\ EventHash(line) = EventHash(g.checkpoint)

(* Accept: what the gate becomes, and the lines it lets through.           *)
AcceptGate(g, line) ==
  IF ~g.looking THEN g
  ELSE IF \/ line.id # g.checkpoint.id
          \/ IsMarker(g, line)
          \/ line.ts > g.checkpoint.ts THEN Opened(g)
  ELSE [g EXCEPT !.buffered = Append(@, line)]

(* Definitions named Bad... are faulty variants used to test properties.   *)
BadAcceptLinesRelease(g, line) ==
  IF ~g.looking \/ line.id # g.checkpoint.id THEN <<line>> ELSE <<>>

AcceptLines(g, line) ==
  IF ~g.looking \/ line.id # g.checkpoint.id THEN <<line>>
  ELSE IF ~IsMarker(g, line) /\ line.ts > g.checkpoint.ts THEN Append(g.buffered, line)
  ELSE <<>>
=============================================================================
