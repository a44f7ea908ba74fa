----------------------------- MODULE LogReplay -----------------------------
(***************************************************************************)
(* From a container's log to the checkpoint: Docker, the source's stream   *)
(* manager (runContainer, stream, emit), the bounded channel, the          *)
(* runtime's replay bookkeeping (ContainerAttached, replayStart, filter),  *)
(* the consumer (processRaw) and the checkpoint store, for one logical     *)
(* container name.  The store is its abstraction DurableMap.  Names share  *)
(* nothing but the channel and the store's batch, whose timing is free     *)
(* here.                                                                   *)
(***************************************************************************)
EXTENDS ReplayGate, FiniteSets

CONSTANTS
  Name,            \* the logical container name
  None,            \* absent checkpoint, gate or start time
  Texts,           \* line contents
  Pieces,          \* what a stream that ends inside a line may have read of its content
  Ties,            \* whether lines of a container may share a timestamp
  Window,          \* checkpoint.initial_replay_window
  Overlap,         \* checkpoint.replay_overlap
  ChannelSize,     \* runtime.log_channel_size
  MaxTime,         \* bound on the clock
  MaxLines,        \* bound on the lines containers write
  MaxContainers,   \* bound on container recreations, plus one
  MaxReconnects,   \* bound on stream ends and lifecycle wake-ups
  MaxCuts,         \* bound on lines of which the watcher has a piece
  MaxCrashes,      \* bound on crashes of the watcher
  MaxRotations     \* bound on lines Docker rotates away

ASSUME BoundsAssumption ==
  /\ Window \in Nat /\ Overlap \in Nat /\ Ties \in BOOLEAN
  /\ ChannelSize \in Nat \ {0} /\ MaxContainers \in Nat \ {0} /\ MaxTime \in Nat \ {0}
  /\ None \notin Int

VARIABLES
  now,            \* the clock
  log,            \* Docker: the lines each container wrote, in order
  cur,            \* Docker: the container that has the name now
  first,          \* Docker: the oldest line of each container it holds
  src,            \* stream manager: step, container, loaded checkpoint, next line
  logs,           \* the channel
  gate,           \* runtimeObserver.gates[Name]
  initialStart,   \* runtimeObserver.initialStarts[Name]
  batch,          \* processRaw: lines filter returned and not yet saved
  acked,          \* processRaw: the first of them has been processed
  mem, disk,      \* the checkpoint store
  reconnects, crashes,
  processed,      \* history: lines the processor has consumed
  lastStart       \* history: the latest replay start chosen without checkpoint

dockerVars == <<now, log, cur, first>>
consVars == <<batch, acked>>
storeVars == <<mem, disk>>
history == <<processed, lastStart>>
vars == <<dockerVars, src, logs, gate, initialStart, consVars, storeVars,
          reconnects, crashes, history>>

Store == INSTANCE DurableMap
           WITH Names <- {Name},
                Values <- [id : Nat, ts : Nat, text : Texts \cup Pieces, pos : Nat]

Containers == 1 .. MaxContainers

Line(c, i) == [id |-> c, ts |-> log[c][i].ts, text |-> log[c][i].text, pos |-> i]

Lines(c) == { Line(c, i) : i \in 1 .. Len(log[c]) }

Elements(s) == { s[i] : i \in 1 .. Len(s) }

(* The lines emit makes of a line whose end was not read: parseTimestamp   *)
(* finds its timestamp, and the content may lack only the line feed, or it *)
(* was cut inside the timestamp and the line has none.                     *)
PiecesOf(l) ==
  { [l EXCEPT !.text = text] : text \in Pieces }
    \cup { [l EXCEPT !.ts = 0, !.text = text] : text \in Pieces \ Texts }

LineType(l) ==
  /\ l.id \in Containers
  /\ l.pos \in 1 .. Len(log[l.id])
  /\ l \in {Line(l.id, l.pos)} \cup PiecesOf(Line(l.id, l.pos))

TypeOK ==
  /\ now \in 1 .. MaxTime
  /\ cur \in Containers /\ first \in [Containers -> Nat \ {0}]
  /\ \A c \in Containers : \A i \in 1 .. Len(log[c]) :
       log[c][i].ts \in 1 .. now /\ log[c][i].text \in Texts
  /\ src.pc \in {"discover", "load", "gate", "start", "stream"}
  /\ src.id \in Containers /\ src.pos \in Nat
  /\ Len(logs) <= ChannelSize
  /\ \A l \in Elements(logs) \cup Elements(batch) \cup processed : LineType(l)
  /\ gate # None => /\ LineType(gate.checkpoint)
                    /\ \A l \in Elements(gate.buffered) : LineType(l)
  /\ \A cp \in {mem[Name], disk[Name], src.cp} \ {None} : LineType(cp)
  /\ acked \in BOOLEAN /\ (acked => batch # <<>>)
  /\ {initialStart, lastStart} \subseteq Int \cup {None}

-----------------------------------------------------------------------------
NewSource == [pc |-> "discover", id |-> 1, cp |-> None, pos |-> 0]

Init ==
  /\ now = 1
  /\ log = [c \in Containers |-> <<>>]
  /\ cur = 1
  /\ first = [c \in Containers |-> 1]
  /\ src = NewSource
  /\ logs = <<>>
  /\ gate = None
  /\ initialStart = None
  /\ batch = <<>>
  /\ acked = FALSE
  /\ mem = [n \in {Name} |-> None]
  /\ disk = mem
  /\ reconnects = 0
  /\ crashes = 0
  /\ processed = {}
  /\ lastStart = None

(* Docker (environment): containers write lines stamped with the clock, so *)
(* timestamps never decrease within a container; a recreated container     *)
(* takes over the name with an empty log; old lines may be rotated away.   *)
WriteLine(text) ==
  /\ Cardinality(UNION { Lines(c) : c \in Containers }) < MaxLines
  /\ Ties \/ \A l \in Lines(cur) : l.ts < now
  /\ log' = [log EXCEPT ![cur] = Append(@, [ts |-> now, text |-> text])]
  /\ UNCHANGED <<now, cur, first, src, logs, gate, initialStart, consVars, storeVars,
                 reconnects, crashes, history>>

Tick ==
  /\ now < MaxTime
  /\ now' = now + 1
  /\ UNCHANGED <<log, cur, first, src, logs, gate, initialStart, consVars, storeVars,
                 reconnects, crashes, history>>

Recreate ==
  /\ cur < MaxContainers
  /\ cur' = cur + 1
  /\ UNCHANGED <<now, log, first, src, logs, gate, initialStart, consVars, storeVars,
                 reconnects, crashes, history>>

RotatedAway == UNION { {c} \X (1 .. first[c] - 1) : c \in Containers }

Rotate ==
  /\ Cardinality(RotatedAway) < MaxRotations
  /\ first[cur] <= Len(log[cur])
  /\ first' = [first EXCEPT ![cur] = @ + 1]
  /\ UNCHANGED <<now, log, cur, src, logs, gate, initialStart, consVars, storeVars,
                 reconnects, crashes, history>>

-----------------------------------------------------------------------------
(* The stream manager.                                                     *)

(* discover found the container running: observeAttached(name, id, true).  *)
Discover ==
  /\ src.pc = "discover"
  /\ src' = [src EXCEPT !.pc = "load", !.id = cur]
  /\ UNCHANGED <<dockerVars, logs, gate, initialStart, consVars, storeVars,
                 reconnects, crashes, history>>

(* ContainerAttached: Load, outside the observer's lock; on an error it    *)
(* returns and leaves the previous gate in place.                          *)
AttachLoad ==
  /\ src.pc = "load"
  /\ \/ src' = [src EXCEPT !.pc = "gate", !.cp = mem[Name]]
     \/ src' = [src EXCEPT !.pc = "start"]
  /\ UNCHANGED <<dockerVars, logs, gate, initialStart, consVars, storeVars,
                 reconnects, crashes, history>>

(* ContainerAttached: install or delete the gate under the lock.           *)
AttachGate ==
  /\ src.pc = "gate"
  /\ gate' = IF src.cp # None THEN NewReplayGate(src.cp) ELSE None
  /\ src' = [src EXCEPT !.pc = "start", !.cp = None]
  /\ UNCHANGED <<dockerVars, logs, initialStart, consVars, storeVars,
                 reconnects, crashes, history>>

(* The first line Docker sends for a start time: it still holds it and it  *)
(* is not older.                                                           *)
FirstSince(start) ==
  CHOOSE i \in first[cur] .. Len(log[cur]) + 1 :
    /\ \A j \in first[cur] .. i - 1 : log[cur][j].ts < start
    /\ i <= Len(log[cur]) => log[cur][i].ts >= start

(* stream: replayStart with its own Load, then Logs.  Logs of a container  *)
(* that was replaced meanwhile fails and ends the stream.                  *)
OpenAt(start) ==
  IF src.id = cur
  THEN src' = [src EXCEPT !.pc = "stream", !.pos = FirstSince(start)]
  ELSE src' = [src EXCEPT !.pc = "discover"]

(* Definitions named Bad... are faulty variants used to test properties.   *)
BadStreamFromCheckpoint ==
  /\ src.pc = "start"
  /\ mem[Name] # None
  /\ initialStart' = None
  /\ OpenAt(now)
  /\ UNCHANGED <<dockerVars, logs, gate, consVars, storeVars, reconnects, crashes, history>>

StreamFromCheckpoint ==
  /\ src.pc = "start"
  /\ mem[Name] # None
  /\ initialStart' = None
  /\ OpenAt(ReplayStart(mem[Name], Overlap))
  /\ UNCHANGED <<dockerVars, logs, gate, consVars, storeVars, reconnects, crashes, history>>

StreamInitially ==
  LET start == IF initialStart # None THEN initialStart ELSE now - Window
  IN /\ src.pc = "start"
     /\ mem[Name] = None
     /\ initialStart' = start
     /\ OpenAt(start)
     /\ lastStart' = start
     /\ UNCHANGED <<dockerVars, logs, gate, consVars, storeVars, reconnects, crashes, processed>>

(* replayStart could not read the store: the zero time, the whole log.     *)
StreamWithoutStore ==
  /\ src.pc = "start"
  /\ OpenAt(0)
  /\ UNCHANGED <<dockerVars, logs, gate, initialStart, consVars, storeVars,
                 reconnects, crashes, history>>

(* The next line of the stream goes into the channel when there is room.   *)
NextLine == IF src.pos < first[src.id] THEN first[src.id] ELSE src.pos

Emit ==
  /\ src.pc = "stream"
  /\ NextLine <= Len(log[src.id])
  /\ Len(logs) < ChannelSize
  /\ logs' = Append(logs, Line(src.id, NextLine))
  /\ src' = [src EXCEPT !.pos = NextLine + 1]
  /\ UNCHANGED <<dockerVars, gate, initialStart, consVars, storeVars,
                 reconnects, crashes, history>>

InFlight == Elements(logs) \cup Elements(batch)
              \cup (IF gate = None THEN {} ELSE Elements(gate.buffered))

CutLines == { l \in InFlight \cup processed : l \notin Lines(l.id) }

BadDisconnect ==
  /\ src.pc = "stream"
  /\ reconnects < MaxReconnects \/ src.id # cur
  /\ src' = [src EXCEPT !.pc = "discover"]
  /\ logs' = <<>>
  /\ reconnects' = IF src.id # cur THEN reconnects ELSE reconnects + 1
  /\ UNCHANGED <<dockerVars, gate, initialStart, consVars, storeVars, crashes, history>>

(* The stream ends, or a lifecycle event cancels it: lines in the channel  *)
(* stay, and the line under way is dropped, or what was read of it is sent *)
(* as a line.  On a TTY that is so for every end, otherwise for one between*)
(* two frames.                                                             *)
Disconnect ==
  /\ src.pc = "stream"
  /\ reconnects < MaxReconnects \/ src.id # cur
  /\ src' = [src EXCEPT !.pc = "discover"]
  /\ reconnects' = IF src.id # cur THEN reconnects ELSE reconnects + 1
  /\ \/ UNCHANGED logs
     \/ /\ NextLine <= Len(log[src.id])
        /\ Len(logs) < ChannelSize
        /\ Cardinality(CutLines) < MaxCuts
        /\ \E piece \in PiecesOf(Line(src.id, NextLine)) : logs' = Append(logs, piece)
  /\ UNCHANGED <<dockerVars, gate, initialStart, consVars, storeVars, crashes, history>>

-----------------------------------------------------------------------------
(* The consumer.                                                           *)

(* Receive from the channel and filter, under the observer's lock.         *)
Receive ==
  /\ batch = <<>>
  /\ logs # <<>>
  /\ logs' = Tail(logs)
  /\ IF gate = None
     THEN batch' = <<Head(logs)>> /\ UNCHANGED gate
     ELSE batch' = AcceptLines(gate, Head(logs)) /\ gate' = AcceptGate(gate, Head(logs))
  /\ UNCHANGED <<dockerVars, src, initialStart, acked, storeVars, reconnects, crashes, history>>

Process ==
  /\ batch # <<>>
  /\ ~acked
  /\ processed' = processed \cup {Head(batch)}
  /\ acked' = TRUE
  /\ UNCHANGED <<dockerVars, src, logs, gate, initialStart, batch, storeVars,
                 reconnects, crashes, lastStart>>

BadSaveCheckpoint ==
  /\ batch # <<>> /\ ~acked
  /\ Store!Put(Name, Head(batch))
  /\ acked' = TRUE
  /\ UNCHANGED <<dockerVars, src, logs, gate, initialStart, batch, reconnects, crashes, history>>

(* Save refuses a line without timestamp, and processRaw goes on.          *)
SaveCheckpoint ==
  /\ acked
  /\ IF Head(batch).ts = 0 THEN UNCHANGED storeVars ELSE Store!Put(Name, Head(batch))
  /\ batch' = Tail(batch)
  /\ acked' = FALSE
  /\ UNCHANGED <<dockerVars, src, logs, gate, initialStart, reconnects, crashes, history>>

(* The store's flush loop.                                                 *)
Flush ==
  /\ disk # mem
  /\ Store!Sync
  /\ UNCHANGED <<dockerVars, src, logs, gate, initialStart, consVars, reconnects, crashes, history>>

(* The watcher dies and is started again: only the database survives.      *)
Crash ==
  /\ crashes < MaxCrashes
  /\ crashes' = crashes + 1
  /\ Store!Reopen
  /\ src' = NewSource
  /\ logs' = <<>>
  /\ gate' = None
  /\ initialStart' = None
  /\ batch' = <<>>
  /\ acked' = FALSE
  /\ UNCHANGED <<dockerVars, reconnects, history>>

Source ==
  \/ Discover \/ AttachLoad \/ AttachGate
  \/ StreamFromCheckpoint \/ StreamInitially \/ StreamWithoutStore
  \/ Emit

Consumer == Receive \/ Process \/ SaveCheckpoint

Next ==
  \/ \E text \in Texts : WriteLine(text)
  \/ Tick \/ Recreate \/ Rotate
  \/ Source \/ Disconnect
  \/ Consumer
  \/ Flush
  \/ Crash

(* Go schedules both goroutines and Docker delivers what it holds; a       *)
(* stream of a replaced container ends.  Nothing forces crashes, new       *)
(* lines, further disconnections or flushes.                               *)
Fairness ==
  /\ WF_vars(Source)
  /\ WF_vars(Consumer)
  /\ WF_vars(Disconnect /\ src.id # cur)

Spec == Init /\ [][Next]_vars /\ Fairness

-----------------------------------------------------------------------------
(* Properties                                                              *)

(* Lines with the same EventHash (same container, nanosecond and content)  *)
(* are one event to the program.                                           *)
Handled(l) == \E p \in processed : EventHash(p) = EventHash(l)

(* The processor has had the line, or the beginning of it with the line's  *)
(* timestamp, from a stream that ended inside it.  The gate takes the line *)
(* itself for an older one then and may drop it.                           *)
Consumed(l) == Handled(l) \/ \E p \in processed \cap PiecesOf(l) : p.ts = l.ts

(* The stream will still send the line: it has not come to it, or it is    *)
(* about to be opened.                                                     *)
ToBeSent(l) == l.id = cur /\ (src.id # cur \/ src.pc # "stream" \/ src.pos <= l.pos)

(* The initial replay window covers the line.                              *)
Covered(l) == lastStart # None /\ l.ts >= lastStart

OwedLines(c) == { l \in Lines(c) : l.pos >= first[c] /\ Covered(l) }

\* A checkpoint never covers a line that was not processed: whatever processRaw,
\* a reconnection's replay or a crash did, every line up to the stored
\* position that Docker still holds and the initial window covers was consumed.
NoGap ==
  \A cp \in {mem[Name], disk[Name]} \ {None} :
    \A l \in OwedLines(cp.id) : l.pos <= cp.pos => Consumed(l)

\* No line of the current container slips between the gate, the channel and the
\* streams: it was processed, it is on its way, or the stream is still to send it.
NothingLost ==
  \A l \in OwedLines(cur) :
    Consumed(l) \/ l \in InFlight \/ ToBeSent(l)

\* The watcher catches up again and again: once containers stop writing, crashing
\* and disconnecting, every line the current one still owes gets processed without
\* a further line having to be written.
EventuallyProcessed == []<>(\A l \in OwedLines(cur) : Consumed(l))

\* The README's "drains accepted logs", tasks.md's "must not lose logs for good":
\* an unprocessed line that entered the channel is not dropped by filter when its
\* container is replaced, nor by any other step of a running watcher.
AcceptedSurvivesRecreation ==
  [][crashes' = crashes =>
       \A l \in InFlight :
         l \in Lines(l.id) /\ l.id # cur /\ Covered(l) => l \in InFlight' \/ Consumed(l)']_vars
=============================================================================
