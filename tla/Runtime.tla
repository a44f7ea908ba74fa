------------------------------- MODULE Runtime -------------------------------
(***************************************************************************)
(* cmd/graph-log-watcher and internal/runtime Run: loading, construction   *)
(* of the components, the running loop, and the shutdown with its single   *)
(* deadline, composed with what Run needs of the components: the source    *)
(* emits and stops, captures of after-context complete, the store flushes, *)
(* the worker drains, the server fails.  How each of them works inside is  *)
(* the matter of its own module.  Lines are numbered in the order of the   *)
(* log channel and raise at most one alert each; they are the ones the     *)
(* replay gate lets through (LogReplay), with the timestamp Docker gives   *)
(* them, so that Save does not reject them.                                *)
(***************************************************************************)
EXTENDS Config, FiniteSets

CONSTANTS
  Configs,       \* what the YAML decoder may leave
  ChannelSize,   \* runtime.log_channel_size
  QueueSize,     \* notifier.queue_size
  MaxLines       \* bound on the lines the source emits

ASSUME SizesAssumption == ChannelSize \in Nat \ {0} /\ QueueSize \in Nat \ {0}
ASSUME BoundsAssumption == MaxLines \in Nat

VARIABLES
  pc,          \* where runService and Run stand
  cfg,         \* the configuration; nothing once the components are built
  dry,         \* --dry-run
  recordable,  \* Record accepts events of every compiled rule
  refusedBy,   \* history: what ended a start that failed
  ctxDone,     \* SIGINT or SIGTERM
  expired,     \* shutdownCtx
  runErr,      \* an error will be returned
  store, worker, processor, server, api,   \* the components
  httpErr,     \* the error of the server, in its channel
  source,      \* the goroutine of source.Run
  cancelled,   \* sourceCtx
  logsOpen, sourceRunning,   \* of the drain loop
  timedOut,    \* history: the drain loop ended by its deadline
  sent, taken, \* lines put into and taken from the log channel
  line,        \* what processRaw has done with the last one taken
  processed,   \* history: the lines Process has accepted
  saved, durable,   \* last line checkpointed: in memory, on disk
  alert        \* what has become of the alert of each line

start == <<cfg, dry, recordable, refusedBy>>
pipeline == <<sent, taken, line, processed, saved, durable, alert>>
parts == <<store, worker, processor, server, api, httpErr, source>>
drain == <<cancelled, logsOpen, sourceRunning, timedOut>>
vars == <<pc, start, ctxDone, expired, runErr, parts, drain, pipeline>>

Lines == 1 .. MaxLines
Forgotten == <<>>

Starting == {"load", "open", "parts", "notifier", "server", "docker", "source"}
Stopping == {"draining", "captures", "flush", "closeWorker", "drainWorker", "stopWorker",
             "closeServer", "closeStore", "deferred"}

AlertStates == {"none", "waiting", "queued", "sending", "settled",
                "full", "late", "cut", "discarded"}

FlagsOK ==
  /\ dry \in BOOLEAN /\ recordable \in BOOLEAN
  /\ ctxDone \in BOOLEAN /\ expired \in BOOLEAN /\ runErr \in BOOLEAN /\ httpErr \in BOOLEAN
  /\ cancelled \in BOOLEAN /\ timedOut \in BOOLEAN
  /\ logsOpen \in BOOLEAN /\ sourceRunning \in BOOLEAN

PlacesOK ==
  /\ pc \in Starting \cup Stopping \cup {"refused", "running", "awaitWorker", "returned"}
  /\ refusedBy \in {"nobody", "environment", "store", "parts", "notifier", "client",
                   "source"}
  /\ store \in {"none", "open", "closed"} /\ processor \in {"none", "open", "closed"}
  /\ api \in {"none", "open", "closed"} /\ server \in {"none", "serving", "down"}
  /\ worker \in {"none", "running", "closing", "stopping", "exited"}
  /\ source \in {"none", "running", "returned", "closed"}

PipelineOK ==
  /\ sent \in 0 .. MaxLines /\ taken \in 0 .. sent
  /\ line \in {"idle", "taken", "processed"}
  /\ processed \in SUBSET Lines
  /\ saved \in 0 .. MaxLines /\ durable \in 0 .. MaxLines
  /\ alert \in [Lines -> AlertStates]

TypeOK == FlagsOK /\ PlacesOK /\ PipelineOK

Init ==
  /\ pc = "load"
  /\ cfg \in Configs
  /\ dry \in BOOLEAN
  /\ recordable = TRUE /\ refusedBy = "nobody"
  /\ ctxDone = FALSE /\ expired = FALSE /\ runErr = FALSE
  /\ store = "none" /\ worker = "none" /\ processor = "none" /\ server = "none"
  /\ api = "none" /\ httpErr = FALSE /\ source = "none"
  /\ cancelled = FALSE /\ logsOpen = TRUE /\ sourceRunning = TRUE /\ timedOut = FALSE
  /\ sent = 0 /\ taken = 0 /\ line = "idle" /\ processed = {}
  /\ saved = 0 /\ durable = 0
  /\ alert = [l \in Lines |-> "none"]

-----------------------------------------------------------------------------
(* runService: config.Load and configureLogger, before Run is called.      *)
Load ==
  LET c == applyRuleDefaults(cfg)
  IN /\ pc = "load"
     /\ IF Validate(c) /\ LoggerAccepts(c)
        THEN pc' = "open" /\ cfg' = c
        ELSE pc' = "refused" /\ UNCHANGED cfg
     /\ UNCHANGED <<dry, recordable, refusedBy, ctxDone, expired, runErr, parts, drain, pipeline>>

StartFails(who, next) ==
  /\ refusedBy' = who
  /\ runErr' = TRUE
  /\ pc' = next

(* checkpoint.Open may also fail on the file.                              *)
OpenStore ==
  /\ pc = "open"
  /\ OpenAccepts(cfg)
  /\ store' = "open"
  /\ pc' = "parts"
  /\ UNCHANGED <<start, ctxDone, expired, runErr, worker, processor, server, api, httpErr,
                 source, drain, pipeline>>

OpenFails ==
  /\ pc = "open"
  /\ StartFails(IF OpenAccepts(cfg) THEN "environment" ELSE "store", "returned")
  /\ UNCHANGED <<cfg, dry, recordable, ctxDone, expired, parts, drain, pipeline>>

(* buildPipelineParts; what Record will say of the rules is settled here.  *)
BuildPipelineParts ==
  /\ pc = "parts"
  /\ IF PartsAccept(cfg)
     THEN /\ recordable' = \A i \in DOMAIN cfg.rules : RecordAccepts(cfg.rules[i])
          /\ pc' = "notifier"
          /\ UNCHANGED <<refusedBy, runErr>>
     ELSE StartFails("parts", "deferred") /\ UNCHANGED recordable
  /\ UNCHANGED <<cfg, dry, ctxDone, expired, parts, drain, pipeline>>

BuildNotifier ==
  /\ pc = "notifier"
  /\ IF dry \/ NotifierAccepts(cfg)
     THEN /\ worker' = IF dry THEN "none" ELSE "running"
          /\ pc' = "server"
          /\ UNCHANGED <<refusedBy, runErr>>
     ELSE StartFails("notifier", "deferred") /\ UNCHANGED worker
  /\ UNCHANGED <<cfg, dry, recordable, ctxDone, expired, store, processor, server, api,
                 httpErr, source, drain, pipeline>>

(* processor.New has all it needs; then the server's goroutine.            *)
StartServer ==
  /\ pc = "server"
  /\ processor' = "open"
  /\ server' = "serving"
  /\ pc' = "docker"
  /\ UNCHANGED <<start, ctxDone, expired, runErr, store, worker, api, httpErr, source,
                 drain, pipeline>>

(* srv.Shutdown, p.Close and worker.Close, which waits for the worker.     *)
StopStarted ==
  /\ server' = "down"
  /\ processor' = "closed"
  /\ worker' = IF worker = "running" THEN "closing" ELSE worker

NewSDKClient ==
  /\ pc = "docker"
  /\ ClientAccepts(cfg)
  /\ api' = "open"
  /\ pc' = "source"
  /\ UNCHANGED <<start, ctxDone, expired, runErr, store, worker, processor, server,
                 httpErr, source, drain, pipeline>>

(* Definitions named Bad... are faulty variants used to test properties.   *)
BadNewSDKClientFails ==
  /\ pc = "docker"
  /\ ~ClientAccepts(cfg)
  /\ StartFails("client", "deferred")
  /\ UNCHANGED <<cfg, dry, recordable, ctxDone, expired, parts, drain, pipeline>>

NewSDKClientFails ==
  /\ pc = "docker"
  /\ ~ClientAccepts(cfg)
  /\ StartFails("client", "awaitWorker")
  /\ StopStarted
  /\ UNCHANGED <<cfg, dry, recordable, ctxDone, expired, store, api, httpErr, source,
                 drain, pipeline>>

(* docker.New, and the source's goroutine.                                 *)
NewSource ==
  /\ pc = "source"
  /\ IF SourceAccepts(cfg)
     THEN /\ source' = "running"
          /\ pc' = "running"
          /\ cfg' = Forgotten
          /\ UNCHANGED <<refusedBy, runErr, server, processor, worker>>
     ELSE /\ StartFails("source", "awaitWorker")
          /\ StopStarted
          /\ UNCHANGED <<cfg, source>>
  /\ UNCHANGED <<dry, recordable, ctxDone, expired, store, api, httpErr, drain, pipeline>>

AwaitWorker ==
  /\ pc = "awaitWorker"
  /\ worker \in {"none", "exited"}
  /\ pc' = "deferred"
  /\ UNCHANGED <<start, ctxDone, expired, runErr, parts, drain, pipeline>>

-----------------------------------------------------------------------------
(* The loops of Run: a select in the running loop and one in the drain     *)
(* loop.  A closed log channel or a sourceDone already read is not a step. *)

DrainOpen == logsOpen \/ sourceRunning

Selecting(loop) == pc = loop /\ line = "idle" /\ (loop = "draining" => DrainOpen)

frameOfLoops == <<start, ctxDone, expired, parts>>

TakeLine ==
  /\ Selecting("running") \/ Selecting("draining")
  /\ taken < sent
  /\ taken' = taken + 1
  /\ line' = "taken"
  /\ UNCHANGED <<pc, frameOfLoops, runErr, drain, sent, processed, saved, durable, alert>>

Queued == { l \in Lines : alert[l] = "queued" }

(* Sink.Alert: the dry-run sink prints; Submit queues or drops.            *)
Submitted ==
  IF dry THEN "settled"
  ELSE IF worker # "running" THEN "late"
  ELSE IF Cardinality(Queued) >= QueueSize THEN "full"
  ELSE "queued"

BeginShutdown ==
  /\ cancelled' = TRUE
  /\ pc' = "draining"

(* processRaw: Process, then Save.  An error of Process leaves the line    *)
(* unsaved and ends the running loop; the drain loop goes on.              *)
Process(outcome) ==
  /\ line = "taken"
  /\ IF outcome # "none" /\ ~recordable
     THEN /\ runErr' = TRUE
          /\ line' = "idle"
          /\ IF pc = "running" THEN BeginShutdown ELSE UNCHANGED <<pc, cancelled>>
          /\ UNCHANGED <<processed, alert>>
     ELSE /\ processed' = processed \cup {taken}
          /\ alert' = [alert EXCEPT ![taken] = IF outcome = "raise" THEN Submitted ELSE outcome]
          /\ line' = "processed"
          /\ UNCHANGED <<pc, cancelled, runErr>>
  /\ UNCHANGED <<frameOfLoops, logsOpen, sourceRunning, timedOut, sent, taken, saved, durable>>

Save ==
  /\ line = "processed"
  /\ saved' = taken
  /\ line' = "idle"
  /\ UNCHANGED <<pc, frameOfLoops, runErr, drain, sent, taken, processed, durable, alert>>

Signalled ==
  /\ Selecting("running")
  /\ ctxDone
  /\ BeginShutdown
  /\ UNCHANGED <<frameOfLoops, runErr, logsOpen, sourceRunning, timedOut, pipeline>>

ServerErred ==
  /\ Selecting("running")
  /\ httpErr
  /\ httpErr' = FALSE
  /\ runErr' = TRUE
  /\ BeginShutdown
  /\ UNCHANGED <<start, ctxDone, expired, store, worker, processor, server, api, source,
                 logsOpen, sourceRunning, timedOut, pipeline>>

LogsClosed ==
  /\ Selecting("draining")
  /\ source = "closed" /\ taken = sent /\ logsOpen
  /\ logsOpen' = FALSE
  /\ UNCHANGED <<pc, frameOfLoops, runErr, cancelled, sourceRunning, timedOut, pipeline>>

(* source.Run returns its context's error, which the loop ignores.         *)
SourceDone ==
  /\ Selecting("draining")
  /\ source \in {"returned", "closed"} /\ sourceRunning
  /\ sourceRunning' = FALSE
  /\ UNCHANGED <<pc, frameOfLoops, runErr, cancelled, logsOpen, timedOut, pipeline>>

BadDrainExpires == FALSE /\ UNCHANGED vars

DrainExpires ==
  /\ Selecting("draining")
  /\ expired
  /\ runErr' = TRUE
  /\ logsOpen' = FALSE /\ sourceRunning' = FALSE
  /\ timedOut' = TRUE
  /\ UNCHANGED <<pc, frameOfLoops, cancelled, pipeline>>

-----------------------------------------------------------------------------
(* The rest of Run, in the order of its calls.                             *)

frameOfTail == <<start, ctxDone, expired, api, httpErr, source, drain>>

(* p.Close cancels the captures and waits until each has been handed over. *)
CloseProcessor ==
  /\ pc = "draining" /\ line = "idle" /\ ~DrainOpen
  /\ processor' = "closed"
  /\ pc' = "captures"
  /\ UNCHANGED <<frameOfTail, runErr, store, worker, server, pipeline>>

BadProcessorClosed ==
  /\ pc = "captures"
  /\ pc' = "flush"
  /\ UNCHANGED <<frameOfTail, runErr, store, worker, processor, server, pipeline>>

ProcessorClosed ==
  /\ pc = "captures"
  /\ \A l \in Lines : alert[l] # "waiting"
  /\ pc' = "flush"
  /\ UNCHANGED <<frameOfTail, runErr, store, worker, processor, server, pipeline>>

BadWritten ==
  /\ durable' = saved \/ UNCHANGED durable
  /\ UNCHANGED runErr

(* Flush and Close write what is pending, or fail and say so.              *)
Written ==
  \/ durable' = saved /\ UNCHANGED runErr
  \/ runErr' = TRUE /\ UNCHANGED durable

frameOfStore == <<frameOfTail, worker, processor, server,
                  sent, taken, line, processed, saved, alert>>

FlushStore ==
  /\ pc = "flush"
  /\ Written
  /\ pc' = IF dry THEN "closeServer" ELSE "closeWorker"
  /\ UNCHANGED <<frameOfStore, store>>

(* worker.Close: close the queue, wait; stop the worker at the deadline.   *)
CloseWorker ==
  /\ pc = "closeWorker"
  /\ worker' = "closing"
  /\ pc' = "drainWorker"
  /\ UNCHANGED <<frameOfTail, runErr, store, processor, server, pipeline>>

WorkerExpires ==
  /\ pc = "drainWorker"
  /\ expired
  /\ worker' = IF worker = "exited" THEN worker ELSE "stopping"
  /\ runErr' = TRUE
  /\ pc' = "stopWorker"
  /\ UNCHANGED <<frameOfTail, store, processor, server, pipeline>>

WorkerClosed ==
  /\ pc \in {"drainWorker", "stopWorker"}
  /\ worker = "exited"
  /\ pc' = "closeServer"
  /\ UNCHANGED <<frameOfTail, runErr, store, worker, processor, server, pipeline>>

(* srv.Shutdown gives up on open connections at the deadline.              *)
CloseServer ==
  /\ pc = "closeServer"
  /\ server' = "down"
  /\ \/ runErr' = TRUE /\ expired
     \/ UNCHANGED runErr
  /\ pc' = "closeStore"
  /\ UNCHANGED <<frameOfTail, store, worker, processor, pipeline>>

CloseStore ==
  /\ pc = "closeStore"
  /\ store' = "closed"
  /\ Written
  /\ pc' = "deferred"
  /\ UNCHANGED frameOfStore

(* The deferred calls: api.Close, and store.Close if the start failed.     *)
Deferred ==
  /\ pc = "deferred"
  /\ store' = "closed"
  /\ api' = IF api = "open" THEN "closed" ELSE api
  /\ pc' = "returned"
  /\ UNCHANGED <<start, ctxDone, expired, runErr, worker, processor, server, httpErr, source,
                 drain, pipeline>>

-----------------------------------------------------------------------------
(* The other goroutines.  The process ends when Run returns.               *)

Alive == pc \notin {"load", "refused", "returned"}

frameOfOthers == <<pc, start, runErr, drain, taken, line, processed, saved>>

Signal ==
  /\ Alive /\ ~ctxDone
  /\ ctxDone' = TRUE
  /\ UNCHANGED <<frameOfOthers, expired, parts, sent, durable, alert>>

(* shutdown.timeout, from the end of the running loop.                     *)
Deadline ==
  /\ pc \in Stopping /\ source # "none" /\ ~expired
  /\ expired' = TRUE
  /\ UNCHANGED <<frameOfOthers, ctxDone, parts, sent, durable, alert>>

(* The source sends while there is room.  Cancelled, it may still send     *)
(* what it has; once it has stopped its goroutine closes the channel.      *)
Emit ==
  /\ Alive /\ source = "running"
  /\ sent < MaxLines /\ sent - taken < ChannelSize
  /\ sent' = sent + 1
  /\ UNCHANGED <<frameOfOthers, ctxDone, expired, parts, durable, alert>>

SourceStops ==
  /\ Alive
  /\ \/ source = "running" /\ cancelled /\ source' = "returned"
     \/ source = "returned" /\ source' = "closed"
  /\ UNCHANGED <<frameOfOthers, ctxDone, expired, store, worker, processor, server, api,
                 httpErr, sent, durable, alert>>

(* A recreated container takes its captures with it (RemoveContainer).     *)
RemoveContainer ==
  /\ Alive /\ source = "running"
  /\ \E l \in Lines : alert[l] = "waiting"
  /\ alert' = [l \in Lines |-> IF alert[l] = "waiting" THEN "discarded" ELSE alert[l]]
  /\ UNCHANGED <<frameOfOthers, ctxDone, expired, parts, sent, durable>>

(* awaitContext: the lines, the timer or Close complete a capture.         *)
AwaitContext(l) ==
  /\ Alive /\ alert[l] = "waiting"
  /\ alert' = [alert EXCEPT ![l] = Submitted]
  /\ UNCHANGED <<frameOfOthers, ctxDone, expired, parts, sent, durable>>

(* The flush loop and the flushes of Save.                                 *)
FlushLoop ==
  /\ Alive /\ store = "open" /\ durable # saved
  /\ durable' = saved
  /\ UNCHANGED <<frameOfOthers, ctxDone, expired, parts, sent, alert>>

(* The worker sends one alert at a time; stopped, it drops the others.     *)
WorkerTakes(l) ==
  /\ Alive /\ alert[l] = "queued"
  /\ \A k \in Lines : alert[k] # "sending"
  /\ alert' = [alert EXCEPT ![l] = IF worker = "stopping" THEN "cut" ELSE "sending"]
  /\ UNCHANGED <<frameOfOthers, ctxDone, expired, parts, sent, durable>>

WorkerSettles(l) ==
  /\ Alive /\ alert[l] = "sending"
  /\ alert' = [alert EXCEPT ![l] = "settled"]
  /\ UNCHANGED <<frameOfOthers, ctxDone, expired, parts, sent, durable>>

WorkerExits ==
  /\ Alive /\ worker \in {"closing", "stopping"}
  /\ \A l \in Lines : alert[l] \notin {"queued", "sending"}
  /\ worker' = "exited"
  /\ UNCHANGED <<frameOfOthers, ctxDone, expired, store, processor, server, api, httpErr,
                 source, sent, durable, alert>>

ServerFails ==
  /\ Alive /\ server = "serving"
  /\ server' = "down"
  /\ httpErr' = TRUE
  /\ UNCHANGED <<frameOfOthers, ctxDone, expired, store, worker, processor, api, source,
                 sent, durable, alert>>

-----------------------------------------------------------------------------
Startup ==
  \/ Load \/ OpenStore \/ OpenFails \/ BuildPipelineParts \/ BuildNotifier \/ StartServer
  \/ NewSDKClient \/ NewSDKClientFails \/ NewSource \/ AwaitWorker

Loops ==
  \/ TakeLine \/ (\E outcome \in {"none", "raise", "waiting"} : Process(outcome)) \/ Save
  \/ Signalled \/ ServerErred \/ LogsClosed \/ SourceDone \/ DrainExpires

Shutdown ==
  \/ CloseProcessor \/ ProcessorClosed \/ FlushStore \/ CloseWorker \/ WorkerExpires
  \/ WorkerClosed \/ CloseServer \/ CloseStore \/ Deferred

Run == Startup \/ Loops \/ Shutdown

Worker == (\E l \in Lines : WorkerTakes(l) \/ WorkerSettles(l)) \/ WorkerExits

Next ==
  \/ Run \/ Worker
  \/ Signal \/ Deadline \/ Emit \/ SourceStops \/ RemoveContainer \/ FlushLoop \/ ServerFails
  \/ \E l \in Lines : AwaitContext(l)

(* Run, the worker and the captures' goroutines are scheduled, deliveries  *)
(* end and the deadline passes.  Of Docker nothing is assumed: the source  *)
(* may hang in a call and never stop.                                      *)
Fairness ==
  /\ WF_vars(Run) /\ WF_vars(Worker)
  /\ WF_vars(\E l \in Lines : AwaitContext(l))
  /\ WF_vars(Deadline)

Spec == Init /\ [][Next]_vars /\ Fairness

-----------------------------------------------------------------------------
(* Properties                                                              *)

\* README.md: a signal drains accepted logs, flushes checkpoints and drains the
\* queue.  When Run returns no error, every line the source ever sent was processed
\* and checkpointed on disk, and no alert is left: each was settled by the worker,
\* dropped by a full queue or discarded with its container.
CleanReturn ==
  pc = "returned" /\ ~runErr =>
    /\ \A l \in 1 .. sent : l \in processed
    /\ durable = sent
    /\ \A l \in Lines : alert[l] \in {"none", "settled", "full", "discarded"}

\* tasks.md: a failed start closes what was started, in reverse, and leaves no
\* goroutine and no lock behind.  However Run returns, store, server, Docker client,
\* worker and captures are released; the source's goroutine may outlive it only if
\* the drain timed out, and then Run returns an error.
ReleasedOnReturn ==
  pc = "returned" =>
    /\ store # "open" /\ server # "serving" /\ api # "open" /\ processor # "open"
    /\ worker \in {"none", "exited"}
    /\ \A l \in Lines : alert[l] \notin {"waiting", "queued", "sending"}
    /\ source \in {"none", "closed"} \/ (timedOut /\ runErr)

\* The order of the shutdown: no alert, in particular none completed by p.Close, finds
\* the worker's queue closed.
NothingLate == \A l \in Lines : alert[l] # "late"

\* A checkpoint vouches for all the lines before it: no line is passed over because
\* Process refused it.  It never does, since what Record refuses in a rule Validate has
\* refused before.
CheckpointCovers == \A l \in 1 .. saved : l \in processed

\* check-config and run share Validate, so that a configuration it accepts should start:
\* no constructor finds a fault in it.  Two do find one that Validate does not look for:
\* NewSDKClient in a docker.socket that is not blank and yet no host (one without a
\* scheme), docker.New in container names that clash or vanish without their leading slash.
ValidatedBuilds ==
  /\ refusedBy \in {"nobody", "environment", "client", "source"}
  /\ refusedBy = "client" => ~Blank(cfg.socket) /\ cfg.socket \notin Hosts
  /\ refusedBy = "source" =>
       ~IsInjective([i \in DOMAIN cfg.containers |-> normalizeName(cfg.containers[i])])
         \/ \E i \in DOMAIN cfg.containers : normalizeName(cfg.containers[i]) = ""

\* Once stopping has begun, by a signal or a failed server, Run returns, also if Docker
\* never lets the source stop.
RunReturns == (pc = "draining") ~> (pc = "returned")
=============================================================================
