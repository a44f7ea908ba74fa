-------------------------- MODULE CheckpointStore --------------------------
(***************************************************************************)
(* internal/checkpoint/store.go and the goroutines of the runtime that use *)
(* it: the consumer (processRaw, then the end of Run), the store's own     *)
(* flush loop, and the Docker source (Load).  Every critical section of    *)
(* Store.mu or Health.mu is one action; what happens between two of them   *)
(* may interleave with the other goroutines.                               *)
(***************************************************************************)
EXTENDS Naturals

CONSTANTS Names,       \* logical container names
          Checkpoints, \* checkpoints that pass validate
          Invalid,     \* a checkpoint with a zero timestamp
          None,        \* no checkpoint stored under a name
          Limit,       \* Config.FlushEvents
          MaxDirty     \* bound on the unsaved saves while the disk is down

ASSUME LimitAssumption == Limit \in Nat \ {0}
ASSUME MaxDirtyAssumption == MaxDirty \in Nat
ASSUME NoneAssumption == None \notin Checkpoints /\ Invalid \notin Checkpoints

VARIABLES
  db,            \* the bbolt bucket
  diskUp,        \* whether bbolt can commit and read (environment)
  pending,       \* Store.pending
  dirty,         \* Store.dirty
  lastErr,       \* Store.lastErr # nil
  closing,       \* Store.closing
  closed,        \* Store.closed
  loop,          \* flushLoop: where it stands
  loopErr,       \* flushLoop: the status it is about to report
  cons,          \* the goroutine of Run: where it stands
  consErr,       \* the goroutine of Run: the status it is about to report
  src,           \* the source goroutine: "idle" or about to report
  checkpointErr  \* Health.checkpointErr

storeVars == <<db, pending, dirty, lastErr>>
vars == <<db, diskUp, pending, dirty, lastErr, closing, closed,
          loop, loopErr, cons, consErr, src, checkpointErr>>

NoPending == [n \in Names |-> None]

TypeOK ==
  /\ db \in [Names -> Checkpoints \cup {None}]
  /\ pending \in [Names -> Checkpoints \cup {None}]
  /\ dirty \in Nat
  /\ diskUp \in BOOLEAN
  /\ lastErr \in BOOLEAN
  /\ closing \in BOOLEAN
  /\ closed \in BOOLEAN
  /\ loop \in {"select", "readErr", "report", "exited"}
  /\ loopErr \in BOOLEAN
  /\ cons \in {"idle", "readErr", "report", "flushed", "drained", "closing", "returned"}
  /\ consErr \in BOOLEAN
  /\ src \in {"idle", "report"}
  /\ checkpointErr \in BOOLEAN

-----------------------------------------------------------------------------
(* Open: the first process, on whatever the bucket holds.                  *)
Init ==
  /\ db \in [Names -> Checkpoints \cup {None}]
  /\ diskUp = TRUE
  /\ pending = NoPending
  /\ dirty = 0
  /\ lastErr = FALSE
  /\ closing = FALSE
  /\ closed = FALSE
  /\ loop = "select"
  /\ loopErr = FALSE
  /\ cons = "idle"
  /\ consErr = FALSE
  /\ src = "idle"
  /\ checkpointErr = FALSE

validate(cp) == cp # Invalid

(* Definitions named Bad... are faulty variants used to test properties.   *)
BadLoad(n) == IF db[n] # None THEN db[n] ELSE pending[n]

(* Load answers the pending value of a name, else the bucket's.            *)
Load(n) == IF pending[n] # None THEN pending[n] ELSE db[n]

(* The bucket after one transaction has put every pending checkpoint.      *)
Merge(p) == [n \in Names |-> IF p[n] # None THEN p[n] ELSE db[n]]

(* flushLocked with p pending after d saves.  A failed transaction leaves  *)
(* the bucket as it was and keeps the batch for the next attempt.          *)
FlushFails(p) == p # NoPending /\ ~diskUp

BadFlushLocked(p, d) ==
  IF p = NoPending \/ ~diskUp
  THEN /\ pending' = p
       /\ dirty' = d
       /\ lastErr' = (lastErr \/ FlushFails(p))
       /\ UNCHANGED db
  ELSE /\ db' = Merge(p)
       /\ pending' = NoPending
       /\ dirty' = 0
       /\ UNCHANGED lastErr

flushLocked(p, d) ==
  IF p = NoPending \/ ~diskUp
  THEN /\ pending' = p
       /\ dirty' = d
       /\ lastErr' = (lastErr \/ FlushFails(p))
       /\ UNCHANGED db
  ELSE /\ db' = Merge(p)
       /\ pending' = NoPending
       /\ dirty' = 0
       /\ lastErr' = FALSE

-----------------------------------------------------------------------------
(* The consumer: processRaw's Save, Err and CheckpointOK.                  *)

(* Save of a checkpoint that validate rejects, or after Close has begun.   *)
SaveRejected(cp) ==
  /\ cons = "idle"
  /\ ~validate(cp) \/ closing \/ closed
  /\ cons' = "report"
  /\ consErr' = TRUE
  /\ UNCHANGED <<storeVars, diskUp, closing, closed, loop, loopErr, src, checkpointErr>>

BadSave(n, cp) ==
  LET p == [pending EXCEPT ![n] = cp]
      d == dirty + 1
      fails == d > Limit /\ ~diskUp
  IN /\ cons = "idle"
     /\ validate(cp) /\ ~closing /\ ~closed
     /\ d <= MaxDirty
     /\ \/ d > Limit /\ flushLocked(p, d)
        \/ d <= Limit /\ pending' = p /\ dirty' = d /\ UNCHANGED <<db, lastErr>>
     /\ cons' = IF fails THEN "report" ELSE "readErr"
     /\ consErr' = fails
     /\ UNCHANGED <<diskUp, closing, closed, loop, loopErr, src, checkpointErr>>

(* Save: the batch is written when it reaches Limit saves; an error of     *)
(* that flush is Save's error, and Err is not consulted.                   *)
Save(n, cp) ==
  LET p == [pending EXCEPT ![n] = cp]
      d == dirty + 1
      fails == d >= Limit /\ ~diskUp
  IN /\ cons = "idle"
     /\ validate(cp) /\ ~closing /\ ~closed
     /\ d <= MaxDirty
     /\ \/ d >= Limit /\ flushLocked(p, d)
        \/ d < Limit /\ pending' = p /\ dirty' = d /\ UNCHANGED <<db, lastErr>>
     /\ cons' = IF fails THEN "report" ELSE "readErr"
     /\ consErr' = fails
     /\ UNCHANGED <<diskUp, closing, closed, loop, loopErr, src, checkpointErr>>

(* store.Err() after a Save that returned nil.                             *)
ConsumerErr ==
  /\ cons = "readErr"
  /\ consErr' = lastErr
  /\ cons' = "report"
  /\ UNCHANGED <<storeVars, diskUp, closing, closed, loop, loopErr, src, checkpointErr>>

(* health.CheckpointOK at the end of processRaw's iteration.               *)
ConsumerReport ==
  /\ cons = "report"
  /\ checkpointErr' = consErr
  /\ cons' = "idle"
  /\ UNCHANGED <<storeVars, diskUp, closing, closed, loop, loopErr, consErr, src>>

-----------------------------------------------------------------------------
(* The flush loop: ticker, Flush, Err, OnFlushStatus.                      *)

TimedFlush ==
  /\ loop = "select"
  /\ ~closed
  /\ flushLocked(pending, dirty)
  /\ loop' = IF FlushFails(pending) THEN "report" ELSE "readErr"
  /\ loopErr' = FlushFails(pending)
  /\ UNCHANGED <<diskUp, closing, closed, cons, consErr, src, checkpointErr>>

LoopErr ==
  /\ loop = "readErr"
  /\ loopErr' = lastErr
  /\ loop' = "report"
  /\ UNCHANGED <<storeVars, diskUp, closing, closed, cons, consErr, src, checkpointErr>>

BadOnFlushStatusSticky ==
  /\ loop = "report"
  /\ checkpointErr' = (checkpointErr \/ loopErr)
  /\ loop' = "select"
  /\ UNCHANGED <<storeVars, diskUp, closing, closed, loopErr, cons, consErr, src>>

OnFlushStatus ==
  /\ loop = "report"
  /\ checkpointErr' = loopErr
  /\ loop' = "select"
  /\ UNCHANGED <<storeVars, diskUp, closing, closed, loopErr, cons, consErr, src>>

BadLoopStop ==
  /\ loop = "select"
  /\ closed
  /\ loop' = "exited"
  /\ UNCHANGED <<storeVars, diskUp, closing, closed, loopErr, cons, consErr, src, checkpointErr>>

(* <-s.stop: the loop returns and closes done.                             *)
LoopStop ==
  /\ loop = "select"
  /\ closing
  /\ loop' = "exited"
  /\ UNCHANGED <<storeVars, diskUp, closing, closed, loopErr, cons, consErr, src, checkpointErr>>

-----------------------------------------------------------------------------
(* The end of Run: Flush, then Close in two critical sections.             *)

ShutdownFlush ==
  /\ cons = "idle"
  /\ ~closed
  /\ flushLocked(pending, dirty)
  /\ consErr' = FlushFails(pending)
  /\ cons' = "flushed"
  /\ UNCHANGED <<diskUp, closing, closed, loop, loopErr, src, checkpointErr>>

ShutdownReport ==
  /\ cons = "flushed"
  /\ checkpointErr' = (checkpointErr \/ consErr)
  /\ cons' = "drained"
  /\ UNCHANGED <<storeVars, diskUp, closing, closed, loop, loopErr, consErr, src>>

CloseBegin ==
  /\ cons = "drained"
  /\ ~closed /\ ~closing
  /\ closing' = TRUE
  /\ cons' = "closing"
  /\ UNCHANGED <<storeVars, diskUp, closed, loop, loopErr, consErr, src, checkpointErr>>

BadCloseEnd ==
  /\ cons = "closing"
  /\ flushLocked(pending, dirty)
  /\ closed' = TRUE
  /\ consErr' = FlushFails(pending)
  /\ cons' = "returned"
  /\ UNCHANGED <<diskUp, closing, loop, loopErr, src, checkpointErr>>

(* <-s.done, the forced flush and db.Close; consErr is what Close returns. *)
CloseEnd ==
  /\ cons = "closing"
  /\ loop = "exited"
  /\ flushLocked(pending, dirty)
  /\ closed' = TRUE
  /\ consErr' = FlushFails(pending)
  /\ cons' = "returned"
  /\ UNCHANGED <<diskUp, closing, loop, loopErr, src, checkpointErr>>

-----------------------------------------------------------------------------
(* The source goroutine: a failed Load in ContainerAttached or replayStart *)
(* is reported to Health; a successful one changes nothing here.           *)
LoadFails(n) ==
  /\ src = "idle"
  /\ closed \/ (pending[n] = None /\ ~diskUp)
  /\ src' = "report"
  /\ UNCHANGED <<storeVars, diskUp, closing, closed, loop, loopErr, cons, consErr, checkpointErr>>

LoadReport ==
  /\ src = "report"
  /\ checkpointErr' = TRUE
  /\ src' = "idle"
  /\ UNCHANGED <<storeVars, diskUp, closing, closed, loop, loopErr, cons, consErr>>

(* The environment: the disk fails and recovers; the process dies or exits *)
(* at any point and a new one opens the database.                          *)
DiskFlips ==
  /\ diskUp' = ~diskUp
  /\ UNCHANGED <<storeVars, closing, closed, loop, loopErr, cons, consErr, src, checkpointErr>>

Restart ==
  /\ diskUp
  /\ pending' = NoPending
  /\ dirty' = 0
  /\ lastErr' = FALSE
  /\ closing' = FALSE
  /\ closed' = FALSE
  /\ loop' = "select"
  /\ loopErr' = FALSE
  /\ cons' = "idle"
  /\ consErr' = FALSE
  /\ src' = "idle"
  /\ checkpointErr' = FALSE
  /\ UNCHANGED <<db, diskUp>>

Next ==
  \/ \E cp \in Checkpoints \cup {Invalid} : SaveRejected(cp)
  \/ \E n \in Names, cp \in Checkpoints \cup {Invalid} : Save(n, cp)
  \/ ConsumerErr \/ ConsumerReport
  \/ TimedFlush \/ LoopErr \/ OnFlushStatus \/ LoopStop
  \/ ShutdownFlush \/ ShutdownReport \/ CloseBegin \/ CloseEnd
  \/ \E n \in Names : LoadFails(n)
  \/ LoadReport
  \/ DiskFlips
  \/ Restart

(* Goroutines keep running and the ticker keeps firing.  LoopStop is       *)
(* strong: Go's select picks among ready cases at random, so a stop that   *)
(* stays ready is taken although ticks are ready too.                      *)
Fairness ==
  /\ WF_vars(ConsumerErr) /\ WF_vars(ConsumerReport)
  /\ WF_vars(TimedFlush) /\ WF_vars(LoopErr) /\ WF_vars(OnFlushStatus)
  /\ SF_vars(LoopStop)
  /\ WF_vars(ShutdownReport) /\ WF_vars(CloseBegin) /\ WF_vars(CloseEnd)
  /\ WF_vars(LoadReport)

Spec == Init /\ [][Next]_vars /\ Fairness

-----------------------------------------------------------------------------
(* Properties                                                              *)

\* Saves that a crash would lose never reach Limit unless the last attempt to
\* write them failed, and the counter that triggers the write counts exactly
\* while something is pending (Save's dirty++ against flushLocked's reset).
BatchBounded ==
  /\ dirty >= Limit => lastErr
  /\ dirty = 0 <=> pending = NoPending

\* Err reports a failure only while the data of that failure is still held for
\* another attempt: no error outlives the flush that repaired it.
FailureHoldsData == lastErr => pending # NoPending

\* Once Close has closed bbolt the flush loop is gone, so nothing uses the
\* database afterwards, and a Close that returned nil left nothing unwritten.
CleanClose ==
  closed => /\ loop = "exited"
            /\ ~consErr => pending = NoPending

\* The store as its callers see it is a DurableMap: Load answers the last
\* accepted Save, a flush is all or nothing, and a crash falls back to exactly
\* the last flush.
Abstract == INSTANCE DurableMap
              WITH Values <- Checkpoints,
                   mem <- [n \in Names |-> Load(n)],
                   disk <- db

ImplementsDurableMap == Abstract!Spec

\* Shutdown ends: Close waits for the flush loop, and the loop does leave its
\* select although ticks keep arriving.
CloseReturns == (cons = "drained") ~> (cons \in {"returned", "idle"})

\* The health verdict settles on the truth.  A failure that lasts is reported: stale
\* "ok" verdicts of the consumer and of the flush loop may be written after it, but
\* not forever.  A repaired disk is reported too: rejected saves and failed loads
\* turn the verdict bad, the next tick of the flush loop turns it good again.
VerdictSettles ==
  /\ <>[](lastErr /\ ~closing) => <>[]checkpointErr
  /\ <>[](diskUp /\ ~closing) => []<>(~checkpointErr)

\* "A checkpoint persistence failure must make the health state unhealthy"
\* (tasks.md): with no verdict in flight, a failed flush shows in Health.
FailureIsUnhealthy ==
  lastErr /\ cons = "idle" /\ loop = "select" /\ src = "idle" => checkpointErr
=============================================================================
