---------------------------- MODULE RuntimeProofs ----------------------------
(***************************************************************************)
(* Proofs about Config and Runtime, for every configuration, channel and   *)
(* queue size and number of lines.                                         *)
(***************************************************************************)
EXTENDS Runtime, TLAPS

Started == {"running", "draining", "captures", "flush", "closeWorker", "drainWorker",
            "stopWorker", "closeServer", "closeStore"}
Drained == {"captures", "flush", "closeWorker", "drainWorker", "stopWorker", "closeServer",
            "closeStore"}

(* A start that has not come to the source, or failed before it.           *)
StartInv ==
  /\ recordable
  /\ pc = "load" => cfg \in Configs
  /\ pc \in Starting \ {"load"} => Validate(cfg)
  /\ refusedBy \in {"nobody", "environment", "client", "source"}
  /\ pc \in Starting => refusedBy = "nobody"
  /\ refusedBy = "client" => Validate(cfg) /\ ~ClientAccepts(cfg) /\ source = "none"
  /\ refusedBy = "source" => Validate(cfg) /\ ~SourceAccepts(cfg) /\ source = "none"
  /\ pc \in Started => source # "none"
  /\ pc \in Starting \cup {"refused", "awaitWorker"} => source = "none"
  /\ pc \in {"awaitWorker", "deferred", "returned"} /\ source = "none" => runErr
  /\ source = "none" => /\ sent = 0 /\ taken = 0 /\ line = "idle"
                        /\ saved = 0 /\ durable = 0 /\ processed = {}
                        /\ alert = [l \in Lines |-> "none"]

(* Which components are up at each place of Run.                           *)
ComponentsInv ==
  /\ dry => worker = "none"
  /\ pc \in {"load", "open"} => store = "none"
  /\ pc \in {"load", "open", "parts", "notifier", "server"} =>
       server = "none" /\ processor = "none"
  /\ pc \in {"load", "open", "parts", "notifier"} => worker = "none"
  /\ pc \in Starting \ {"source"} => api = "none"
  /\ pc \in {"server", "docker", "source", "running", "draining", "captures", "flush",
              "closeWorker"} =>
       worker = IF dry THEN "none" ELSE "running"
  /\ pc \in {"closeWorker", "drainWorker", "stopWorker"} => ~dry
  /\ pc \in {"closeServer", "closeStore", "deferred", "returned"} =>
       worker \in {"none", "exited"}
  /\ pc \in {"awaitWorker", "closeStore", "deferred", "returned"} => server # "serving"
  /\ pc \in Drained \cup {"awaitWorker", "deferred", "returned"} => processor # "open"
  /\ pc = "returned" => store # "open" /\ api # "open"

(* What has been processed, saved and written.                             *)
LinesInv ==
  /\ line # "idle" => pc \in {"running", "draining"} /\ taken > 0
  /\ processed = IF line = "taken" THEN 1 .. taken - 1 ELSE 1 .. taken
  /\ saved = IF line = "idle" THEN taken ELSE taken - 1
  /\ timedOut => runErr
  /\ ~logsOpen => timedOut \/ (source = "closed" /\ taken = sent)
  /\ ~sourceRunning => timedOut \/ source \in {"returned", "closed"}
  /\ pc \in Drained \/ (pc \in {"deferred", "returned"} /\ source # "none") =>
       ~logsOpen /\ ~sourceRunning
  /\ pc \in Drained \cup {"deferred", "returned"} => pc \in {"captures", "flush"} \/ runErr \/ durable = saved

(* Where alerts can be.                                                    *)
AlertsInv ==
  \A l \in Lines :
    /\ alert[l] # "late"
    /\ alert[l] = "waiting" => pc \in {"running", "draining", "captures"}
    /\ alert[l] \in {"queued", "sending"} => worker \in {"running", "closing", "stopping"}
    /\ alert[l] = "cut" => runErr

StoppingInv == worker = "stopping" => runErr

IInv == TypeOK /\ StartInv /\ ComponentsInv /\ LinesInv /\ AlertsInv /\ StoppingInv

\* What Validate accepts the constructors accept: checkpoint.Open, redact.New, Compile,
\* NewFromNames, NewStore, aggregate.New, NewDingTalkNotifier and NewWorker repeat no
\* check that can fail then, and Record takes every event of a rule.  Not among them are
\* NewSDKClient and docker.New, which may refuse what Validate accepts.
THEOREM ValidateAccepts ==
  ASSUME NEW c, Validate(c)
  PROVE  /\ OpenAccepts(c) /\ PartsAccept(c) /\ NotifierAccepts(c)
         /\ \A i \in DOMAIN c.rules : RecordAccepts(c.rules[i])
<1>1. \A s : ~Blank(s) => s # ""
  BY StringsAssumption, Zenon DEF Blank
<1>2. OpenAccepts(c) /\ NotifierAccepts(c)
  BY <1>1, Zenon DEF Validate, validateChannels, OpenAccepts, NotifierAccepts
<1>3. \A patterns : validateRegexRules(patterns) => PatternsCompile(patterns)
  BY <1>1, Zenon DEF validateRegexRules, PatternsCompile
<1>4. ASSUME NEW i \in DOMAIN c.rules PROVE Compiles(c.rules[i]) /\ RecordAccepts(c.rules[i])
  BY <1>3, Zenon DEF Validate, validateRules, validateLevels, validatePattern, validateDedup,
     validateNames, validateLimits, Compiles, RecordAccepts
<1>5. PartsAccept(c)
  BY <1>3, <1>4 DEF Validate, validateLevels, PartsAccept, RouterAccepts
<1> QED
  BY <1>2, <1>4, <1>5

\* Before runService has read its configuration nothing exists.
LEMMA InitIInv == Init => IInv
<1> SUFFICES ASSUME Init PROVE IInv
  OBVIOUS
<1> USE BoundsAssumption DEF Init
<1>1. FlagsOK
  BY Zenon DEF FlagsOK
<1>2. PlacesOK
  BY DEF PlacesOK, Starting
<1>3. PipelineOK
  BY DEF PipelineOK, AlertStates
<1>4. StartInv /\ ComponentsInv
  BY DEF StartInv, ComponentsInv, Starting, Started, Drained
<1>5. LinesInv /\ AlertsInv /\ StoppingInv
  BY DEF LinesInv, AlertsInv, StoppingInv, Drained
<1> QED
  BY <1>1, <1>2, <1>3, <1>4, <1>5 DEF IInv, TypeOK

\* The start, and the returns of a start that fails.
LEMMA StartupKeeps == IInv /\ Startup => IInv'
<1> SUFFICES ASSUME IInv, Startup PROVE IInv'
  OBVIOUS
<1> SUFFICES ASSUME FlagsOK, PlacesOK, PipelineOK, StartInv, ComponentsInv, LinesInv,
                    AlertsInv, StoppingInv
             PROVE  IInv'
  BY DEF IInv, TypeOK
<1> USE BoundsAssumption
<1>1. CASE Load
  <2> USE DEF Load, start, parts, drain, pipeline
  <2>1. (cfg' = cfg \/ Validate(cfg')) /\ ((pc' = "open" /\ Validate(cfg')) \/ pc' = "refused")
    BY <1>1
  <2>2. FlagsOK' /\ PlacesOK' /\ PipelineOK'
    BY <1>1, <2>1 DEF FlagsOK, PlacesOK, PipelineOK, Starting, Stopping
  <2>3. StartInv'
    BY <1>1, <2>1 DEF StartInv, Starting, Started
  <2>4. ComponentsInv' /\ LinesInv' /\ AlertsInv' /\ StoppingInv'
    BY <1>1, <2>1 DEF ComponentsInv, LinesInv, AlertsInv, StoppingInv, Starting, Drained
  <2> QED
    BY <2>2, <2>3, <2>4 DEF IInv, TypeOK
<1>2. CASE OpenStore
  <2> USE DEF OpenStore, start, pipeline, parts, drain
  <2>1. FlagsOK'
    BY <1>2, Zenon DEF FlagsOK
  <2>2. PlacesOK' /\ PipelineOK' /\ StoppingInv'
    BY <1>2 DEF PlacesOK, Starting, Stopping, PipelineOK, LinesInv, StoppingInv, FlagsOK
  <2>3. StartInv' /\ ComponentsInv'
    BY <1>2 DEF StartInv, PipelineOK, Starting, Started, ComponentsInv, FlagsOK, Drained
  <2>4. LinesInv' /\ AlertsInv'
    BY <1>2 DEF LinesInv, StartInv, Started, Starting, PipelineOK, Drained, AlertsInv,
       ComponentsInv
  <2> QED
    BY <2>1, <2>2, <2>3, <2>4, Zenon DEF IInv, TypeOK
<1>3. CASE OpenFails
  <2> USE DEF OpenFails, StartFails, pipeline, parts, drain
  <2>1. FlagsOK'
    BY <1>3, Zenon DEF FlagsOK
  <2>2. PlacesOK' /\ PipelineOK' /\ StoppingInv'
    BY <1>3, ValidateAccepts DEF PlacesOK, Starting, Stopping, PipelineOK, LinesInv,
       StoppingInv, FlagsOK
  <2>3. StartInv' /\ ComponentsInv'
    BY <1>3, ValidateAccepts DEF StartInv, PipelineOK, Starting, Started, ComponentsInv,
       FlagsOK, Drained
  <2>4. LinesInv' /\ AlertsInv'
    BY <1>3 DEF LinesInv, StartInv, Started, Starting, PipelineOK, Drained, AlertsInv,
       ComponentsInv
  <2> QED
    BY <2>1, <2>2, <2>3, <2>4, Zenon DEF IInv, TypeOK
<1>4. CASE BuildPipelineParts
  <2>0. /\ pc = "parts" /\ pc' = "notifier" /\ recordable' /\ Validate(cfg)
        /\ UNCHANGED <<cfg, dry, refusedBy, runErr, ctxDone, expired, parts, drain, pipeline>>
    <3>1. pc = "parts" /\ Validate(cfg)
      BY <1>4 DEF BuildPipelineParts, StartInv, Starting
    <3>2. PartsAccept(cfg) /\ \A i \in DOMAIN cfg.rules : RecordAccepts(cfg.rules[i])
      BY <3>1, ValidateAccepts, Zenon
    <3> QED
      BY <1>4, <3>1, <3>2, Zenon DEF BuildPipelineParts
  <2> USE DEF pipeline, parts, drain
  <2>1. FlagsOK'
    BY <2>0 DEF FlagsOK
  <2>2. PlacesOK'
    BY <2>0 DEF PlacesOK, Starting
  <2>3. PipelineOK'
    BY <2>0 DEF PipelineOK
  <2>4. StartInv'
    BY <2>0 DEF StartInv, PipelineOK, Starting, Started
  <2>5. ComponentsInv'
    BY <2>0 DEF ComponentsInv, Starting, Drained
  <2>6. LinesInv'
    BY <2>0 DEF LinesInv, PipelineOK, Drained
  <2>7. AlertsInv'
    BY <2>0 DEF AlertsInv, PipelineOK
  <2>8. StoppingInv'
    BY <2>0, Zenon DEF StoppingInv
  <2> QED
    BY <2>1, <2>2, <2>3, <2>4, <2>5, <2>6, <2>7, <2>8, Zenon
       DEF IInv, TypeOK
<1>5. CASE BuildNotifier
  <2> USE DEF BuildNotifier, StartFails, pipeline, drain
  <2>1. FlagsOK'
    BY <1>5, Zenon DEF FlagsOK
  <2>2. PlacesOK' /\ PipelineOK' /\ StoppingInv'
    BY <1>5, ValidateAccepts DEF PlacesOK, Starting, Stopping, PipelineOK, LinesInv,
       StoppingInv, FlagsOK
  <2>3. StartInv' /\ ComponentsInv'
    BY <1>5, ValidateAccepts DEF StartInv, PipelineOK, Starting, Started, ComponentsInv,
       Drained
  <2>4. LinesInv' /\ AlertsInv'
    BY <1>5 DEF LinesInv, StartInv, Started, Starting, PipelineOK, Drained, AlertsInv,
       ComponentsInv
  <2> QED
    BY <2>1, <2>2, <2>3, <2>4, Zenon DEF IInv, TypeOK
<1>6. CASE StartServer
  <2> USE DEF StartServer, start, pipeline, drain
  <2>1. FlagsOK'
    BY <1>6, Zenon DEF FlagsOK
  <2>2. PlacesOK' /\ PipelineOK' /\ StoppingInv'
    BY <1>6 DEF PlacesOK, Starting, Stopping, PipelineOK, LinesInv, StoppingInv, FlagsOK
  <2>3. StartInv' /\ ComponentsInv'
    BY <1>6 DEF StartInv, PipelineOK, Starting, Started, ComponentsInv, FlagsOK, Drained
  <2>4. LinesInv' /\ AlertsInv'
    BY <1>6 DEF LinesInv, StartInv, Started, Starting, PipelineOK, Drained, AlertsInv,
       ComponentsInv
  <2> QED
    BY <2>1, <2>2, <2>3, <2>4, Zenon DEF IInv, TypeOK
<1>7. CASE NewSDKClient
  <2> USE DEF NewSDKClient, start, pipeline, drain
  <2>1. FlagsOK'
    BY <1>7, Zenon DEF FlagsOK
  <2>2. PlacesOK' /\ PipelineOK' /\ StoppingInv'
    BY <1>7 DEF PlacesOK, Starting, Stopping, PipelineOK, LinesInv, StoppingInv, FlagsOK
  <2>3. StartInv' /\ ComponentsInv'
    BY <1>7 DEF StartInv, PipelineOK, Starting, Started, ComponentsInv, FlagsOK, Drained
  <2>4. LinesInv' /\ AlertsInv'
    BY <1>7 DEF LinesInv, StartInv, Started, Starting, PipelineOK, Drained, AlertsInv,
       ComponentsInv
  <2> QED
    BY <2>1, <2>2, <2>3, <2>4, Zenon DEF IInv, TypeOK
<1>8. CASE NewSDKClientFails
  <2> USE DEF NewSDKClientFails, StartFails, StopStarted, pipeline, drain
  <2>1. FlagsOK'
    BY <1>8, Zenon DEF FlagsOK
  <2>2. PlacesOK' /\ PipelineOK' /\ StoppingInv'
    BY <1>8 DEF PlacesOK, Starting, Stopping, PipelineOK, LinesInv, StoppingInv, FlagsOK
  <2>3. StartInv' /\ ComponentsInv'
    BY <1>8 DEF StartInv, PipelineOK, Starting, Started, ComponentsInv, FlagsOK, Drained
  <2>4. LinesInv' /\ AlertsInv'
    BY <1>8 DEF LinesInv, StartInv, Started, Starting, PipelineOK, Drained, AlertsInv,
       ComponentsInv
  <2> QED
    BY <2>1, <2>2, <2>3, <2>4, Zenon DEF IInv, TypeOK
<1>9. CASE NewSource
  <2> USE DEF NewSource, StartFails, StopStarted, Forgotten, pipeline, drain
  <2>1. FlagsOK'
    BY <1>9, Zenon DEF FlagsOK
  <2>2. PlacesOK' /\ PipelineOK' /\ StoppingInv'
    BY <1>9, ValidateAccepts DEF PlacesOK, Starting, Stopping, PipelineOK, LinesInv,
       StoppingInv, FlagsOK
  <2>3. StartInv' /\ ComponentsInv'
    BY <1>9, ValidateAccepts DEF StartInv, PipelineOK, Starting, Started, ComponentsInv,
       FlagsOK, Drained
  <2>4. LinesInv' /\ AlertsInv'
    BY <1>9 DEF LinesInv, StartInv, Started, Starting, PipelineOK, Drained, AlertsInv,
       ComponentsInv
  <2> QED
    BY <2>1, <2>2, <2>3, <2>4, Zenon DEF IInv, TypeOK
<1>10. CASE AwaitWorker
  <2> USE DEF AwaitWorker, start, pipeline, parts, drain
  <2>1. FlagsOK'
    BY <1>10, Zenon DEF FlagsOK
  <2>2. PlacesOK' /\ PipelineOK' /\ StoppingInv'
    BY <1>10 DEF PlacesOK, Starting, Stopping, PipelineOK, LinesInv, StoppingInv,
       FlagsOK
  <2>3. StartInv' /\ ComponentsInv'
    BY <1>10 DEF StartInv, PipelineOK, Starting, Started, ComponentsInv, FlagsOK,
       Drained
  <2>4. LinesInv' /\ AlertsInv'
    BY <1>10 DEF LinesInv, StartInv, Started, Starting, PipelineOK, Drained, AlertsInv,
       ComponentsInv
  <2> QED
    BY <2>1, <2>2, <2>3, <2>4, Zenon DEF IInv, TypeOK
<1> QED
  BY <1>1, <1>2, <1>3, <1>4, <1>5, <1>6, <1>7, <1>8, <1>9, <1>10, Zenon DEF Startup

\* The running loop and the drain loop.
LEMMA LoopsKeep == IInv /\ Loops => IInv'
<1> SUFFICES ASSUME IInv, Loops PROVE IInv'
  OBVIOUS
<1> SUFFICES ASSUME FlagsOK, PlacesOK, PipelineOK, StartInv, ComponentsInv, LinesInv,
                    AlertsInv, StoppingInv
             PROVE  IInv'
  BY DEF IInv, TypeOK
<1> USE BoundsAssumption
<1>1. CASE TakeLine
  <2> USE DEF TakeLine, Selecting, DrainOpen, drain, frameOfLoops, start, parts
  <2>1. FlagsOK'
    BY <1>1, Zenon DEF FlagsOK
  <2>2. PlacesOK' /\ PipelineOK' /\ StoppingInv'
    BY <1>1 DEF PlacesOK, Starting, Stopping, PipelineOK, LinesInv, StoppingInv, FlagsOK
  <2>3. StartInv' /\ ComponentsInv'
    BY <1>1 DEF StartInv, PipelineOK, Starting, Started, ComponentsInv, FlagsOK, Drained
  <2>4. LinesInv' /\ AlertsInv'
    BY <1>1 DEF LinesInv, StartInv, Started, Starting, PipelineOK, Drained, AlertsInv,
       ComponentsInv
  <2> QED
    BY <2>1, <2>2, <2>3, <2>4, Zenon DEF IInv, TypeOK
<1>2. ASSUME NEW outcome \in {"none", "raise", "waiting"}, Process(outcome) PROVE IInv'
  <2>1. /\ processed' = processed \cup {taken} /\ line' = "processed"
        /\ alert' = [alert EXCEPT ![taken] = IF outcome = "raise" THEN Submitted ELSE outcome]
        /\ line = "taken"
        /\ UNCHANGED <<pc, start, ctxDone, expired, runErr, parts, drain, sent, taken, saved,
                       durable>>
    BY <1>2, Zenon DEF Process, StartInv, frameOfLoops, drain
  <2>2. taken \in Lines /\ pc \in {"running", "draining"}
    BY <2>1 DEF PipelineOK, LinesInv, Lines
  <2>3. Submitted \in {"settled", "full", "queued"} /\ (Submitted = "queued" => worker = "running")
    BY <2>2 DEF Submitted, ComponentsInv, FlagsOK
  <2>4. FlagsOK' /\ PlacesOK'
    BY <2>1 DEF FlagsOK, PlacesOK, start, parts, drain
  <2>5. PipelineOK'
    BY <2>1, <2>2, <2>3 DEF PipelineOK, AlertStates
  <2>6. StartInv' /\ ComponentsInv' /\ StoppingInv'
    BY <2>1, <2>2 DEF StartInv, ComponentsInv, StoppingInv, start, parts, drain, Started, Starting, Drained
  <2>7. LinesInv'
    BY <2>1, <2>2 DEF LinesInv, PipelineOK, start, parts, drain, Drained
  <2>8. AlertsInv'
    BY <2>1, <2>2, <2>3 DEF AlertsInv, PipelineOK, start, parts, drain
  <2> QED
    BY <2>4, <2>5, <2>6, <2>7, <2>8, Zenon
       DEF IInv, TypeOK
<1>3. CASE Save
  <2> USE DEF Save, drain, frameOfLoops, start, parts
  <2>1. FlagsOK'
    BY <1>3, Zenon DEF FlagsOK
  <2>2. PlacesOK' /\ PipelineOK' /\ StoppingInv'
    BY <1>3 DEF PlacesOK, Starting, Stopping, PipelineOK, LinesInv, StoppingInv, FlagsOK
  <2>3. StartInv' /\ ComponentsInv'
    BY <1>3 DEF StartInv, PipelineOK, Starting, Started, ComponentsInv, Drained
  <2>4. LinesInv' /\ AlertsInv'
    BY <1>3 DEF LinesInv, PipelineOK, Drained, AlertsInv, ComponentsInv
  <2> QED
    BY <2>1, <2>2, <2>3, <2>4, Zenon DEF IInv, TypeOK
<1>4. CASE Signalled
  <2> USE DEF Signalled, Selecting, BeginShutdown, pipeline, frameOfLoops, start, parts
  <2>1. FlagsOK'
    BY <1>4, Zenon DEF FlagsOK
  <2>2. PlacesOK' /\ PipelineOK' /\ StoppingInv'
    BY <1>4 DEF PlacesOK, Starting, Stopping, PipelineOK, LinesInv, StoppingInv, FlagsOK
  <2>3. StartInv' /\ ComponentsInv'
    BY <1>4 DEF StartInv, PipelineOK, Starting, Started, ComponentsInv, FlagsOK, Drained
  <2>4. LinesInv' /\ AlertsInv'
    BY <1>4 DEF LinesInv, StartInv, Started, Starting, PipelineOK, Drained, AlertsInv,
       ComponentsInv
  <2> QED
    BY <2>1, <2>2, <2>3, <2>4, Zenon DEF IInv, TypeOK
<1>5. CASE ServerErred
  <2> USE DEF ServerErred, Selecting, BeginShutdown, start, pipeline
  <2>1. FlagsOK'
    BY <1>5, Zenon DEF FlagsOK
  <2>2. PlacesOK' /\ PipelineOK' /\ StoppingInv'
    BY <1>5 DEF PlacesOK, Starting, Stopping, PipelineOK, LinesInv, StoppingInv, FlagsOK
  <2>3. StartInv' /\ ComponentsInv'
    BY <1>5 DEF StartInv, PipelineOK, Starting, Started, ComponentsInv, Drained
  <2>4. LinesInv' /\ AlertsInv'
    BY <1>5 DEF LinesInv, PipelineOK, Drained, AlertsInv, ComponentsInv
  <2> QED
    BY <2>1, <2>2, <2>3, <2>4, Zenon DEF IInv, TypeOK
<1>6. CASE LogsClosed
  <2> USE DEF LogsClosed, Selecting, DrainOpen, pipeline, frameOfLoops, start, parts
  <2>1. FlagsOK'
    BY <1>6, Zenon DEF FlagsOK
  <2>2. PlacesOK' /\ PipelineOK' /\ StoppingInv'
    BY <1>6 DEF PlacesOK, Starting, Stopping, PipelineOK, LinesInv, StoppingInv, FlagsOK
  <2>3. StartInv' /\ ComponentsInv'
    BY <1>6 DEF StartInv, PipelineOK, Starting, Started, ComponentsInv, Drained
  <2>4. LinesInv' /\ AlertsInv'
    BY <1>6 DEF LinesInv, PipelineOK, Drained, AlertsInv, ComponentsInv
  <2> QED
    BY <2>1, <2>2, <2>3, <2>4, Zenon DEF IInv, TypeOK
<1>7. CASE SourceDone
  <2> USE DEF SourceDone, Selecting, DrainOpen, pipeline, frameOfLoops, start, parts
  <2>1. FlagsOK'
    BY <1>7, Zenon DEF FlagsOK
  <2>2. PlacesOK' /\ PipelineOK' /\ StoppingInv'
    BY <1>7 DEF PlacesOK, Starting, Stopping, PipelineOK, LinesInv, StoppingInv, FlagsOK
  <2>3. StartInv' /\ ComponentsInv'
    BY <1>7 DEF StartInv, PipelineOK, Starting, Started, ComponentsInv, Drained
  <2>4. LinesInv' /\ AlertsInv'
    BY <1>7 DEF LinesInv, PipelineOK, Drained, AlertsInv, ComponentsInv
  <2> QED
    BY <2>1, <2>2, <2>3, <2>4, Zenon DEF IInv, TypeOK
<1>8. CASE DrainExpires
  <2> USE DEF DrainExpires, Selecting, DrainOpen, pipeline, frameOfLoops, start, parts
  <2>1. FlagsOK'
    BY <1>8, Zenon DEF FlagsOK
  <2>2. PlacesOK' /\ PipelineOK' /\ StoppingInv'
    BY <1>8 DEF PlacesOK, Starting, Stopping, PipelineOK, LinesInv, StoppingInv, FlagsOK
  <2>3. StartInv' /\ ComponentsInv'
    BY <1>8 DEF StartInv, PipelineOK, Starting, Started, ComponentsInv, Drained
  <2>4. LinesInv' /\ AlertsInv'
    BY <1>8 DEF LinesInv, PipelineOK, Drained, AlertsInv, ComponentsInv
  <2> QED
    BY <2>1, <2>2, <2>3, <2>4, Zenon DEF IInv, TypeOK
<1> QED
  BY <1>1, <1>2, <1>3, <1>4, <1>5, <1>6, <1>7, <1>8, Zenon DEF Loops

\* The calls after the drain.
LEMMA ShutdownKeeps == IInv /\ Shutdown => IInv'
<1> SUFFICES ASSUME IInv, Shutdown PROVE IInv'
  OBVIOUS
<1> SUFFICES ASSUME FlagsOK, PlacesOK, PipelineOK, StartInv, ComponentsInv, LinesInv,
                    AlertsInv, StoppingInv
             PROVE  IInv'
  BY DEF IInv, TypeOK
<1> USE BoundsAssumption
<1>1. CASE CloseProcessor
  <2> USE DEF CloseProcessor, DrainOpen, pipeline, frameOfTail, start, drain
  <2>1. FlagsOK'
    BY <1>1, ZenonT(30) DEF FlagsOK
  <2>2. PlacesOK' /\ PipelineOK' /\ StoppingInv'
    BY <1>1, SMTT(30) DEF PlacesOK, Starting, Stopping, PipelineOK, LinesInv, StoppingInv, FlagsOK
  <2>3. StartInv' /\ ComponentsInv'
    BY <1>1, SMTT(30) DEF StartInv, PipelineOK, Starting, Started, ComponentsInv, FlagsOK, Drained
  <2>4. LinesInv' /\ AlertsInv'
    BY <1>1, SMTT(30) DEF LinesInv, StartInv, Started, Starting, PipelineOK, Drained, AlertsInv,
       ComponentsInv
  <2> QED
    BY <2>1, <2>2, <2>3, <2>4, Zenon DEF IInv, TypeOK
<1>2. CASE ProcessorClosed
  <2> USE DEF ProcessorClosed, pipeline, frameOfTail, start, drain
  <2>1. FlagsOK'
    BY <1>2, ZenonT(30) DEF FlagsOK
  <2>2. PlacesOK' /\ PipelineOK' /\ StoppingInv'
    BY <1>2, SMTT(30) DEF PlacesOK, Starting, Stopping, PipelineOK, LinesInv, StoppingInv, FlagsOK
  <2>3. StartInv' /\ ComponentsInv'
    BY <1>2, SMTT(30) DEF StartInv, PipelineOK, Starting, Started, ComponentsInv, FlagsOK, Drained
  <2>4. LinesInv' /\ AlertsInv'
    BY <1>2, SMTT(30) DEF LinesInv, StartInv, Started, Starting, PipelineOK, Drained, AlertsInv,
       ComponentsInv
  <2> QED
    BY <2>1, <2>2, <2>3, <2>4, Zenon DEF IInv, TypeOK
<1>3. CASE FlushStore
  <2> USE DEF FlushStore, Written, frameOfStore, frameOfTail, start, drain
  <2>1. FlagsOK'
    BY <1>3, ZenonT(30) DEF FlagsOK
  <2>2. PlacesOK' /\ PipelineOK' /\ StoppingInv'
    BY <1>3, SMTT(30) DEF PlacesOK, Starting, Stopping, PipelineOK, LinesInv, StoppingInv, FlagsOK
  <2>3. StartInv' /\ ComponentsInv'
    BY <1>3, SMTT(30) DEF StartInv, PipelineOK, Starting, Started, ComponentsInv, Drained
  <2>4. LinesInv' /\ AlertsInv'
    BY <1>3, SMTT(30) DEF LinesInv, PipelineOK, Drained, AlertsInv, ComponentsInv
  <2> QED
    BY <2>1, <2>2, <2>3, <2>4, Zenon DEF IInv, TypeOK
<1>4. CASE CloseWorker
  <2> USE DEF CloseWorker, pipeline, frameOfTail, start, drain
  <2>1. FlagsOK'
    BY <1>4, ZenonT(30) DEF FlagsOK
  <2>2. PlacesOK' /\ PipelineOK' /\ StoppingInv'
    BY <1>4, SMTT(30) DEF PlacesOK, Starting, Stopping, PipelineOK, LinesInv, StoppingInv, FlagsOK
  <2>3. StartInv' /\ ComponentsInv'
    BY <1>4, SMTT(30) DEF StartInv, PipelineOK, Starting, Started, ComponentsInv, FlagsOK, Drained
  <2>4. LinesInv' /\ AlertsInv'
    BY <1>4, SMTT(30) DEF LinesInv, PipelineOK, Drained, AlertsInv, ComponentsInv
  <2> QED
    BY <2>1, <2>2, <2>3, <2>4, Zenon DEF IInv, TypeOK
<1>5. CASE WorkerExpires
  <2> USE DEF WorkerExpires, pipeline, frameOfTail, start, drain
  <2>1. FlagsOK'
    BY <1>5, ZenonT(30) DEF FlagsOK
  <2>2. PlacesOK' /\ PipelineOK' /\ StoppingInv'
    BY <1>5, SMTT(30) DEF PlacesOK, Starting, Stopping, PipelineOK, LinesInv, StoppingInv, FlagsOK
  <2>3. StartInv' /\ ComponentsInv'
    BY <1>5, SMTT(30) DEF StartInv, PipelineOK, Starting, Started, ComponentsInv, FlagsOK, Drained
  <2>4. LinesInv' /\ AlertsInv'
    BY <1>5, SMTT(30) DEF LinesInv, StartInv, Started, Starting, PipelineOK, Drained, AlertsInv,
       ComponentsInv
  <2> QED
    BY <2>1, <2>2, <2>3, <2>4, Zenon DEF IInv, TypeOK
<1>6. CASE WorkerClosed
  <2> USE DEF WorkerClosed, pipeline, frameOfTail, start, drain
  <2>1. FlagsOK'
    BY <1>6, ZenonT(30) DEF FlagsOK
  <2>2. PlacesOK' /\ PipelineOK' /\ StoppingInv'
    BY <1>6, SMTT(30) DEF PlacesOK, Starting, Stopping, PipelineOK, LinesInv, StoppingInv, FlagsOK
  <2>3. StartInv' /\ ComponentsInv'
    BY <1>6, SMTT(30) DEF StartInv, PipelineOK, Starting, Started, ComponentsInv, FlagsOK, Drained
  <2>4. LinesInv' /\ AlertsInv'
    BY <1>6, SMTT(30) DEF LinesInv, StartInv, Started, Starting, PipelineOK, Drained, AlertsInv,
       ComponentsInv
  <2> QED
    BY <2>1, <2>2, <2>3, <2>4, Zenon DEF IInv, TypeOK
<1>7. CASE CloseServer
  <2> USE DEF CloseServer, pipeline, frameOfTail, start, drain
  <2>1. FlagsOK'
    BY <1>7, ZenonT(30) DEF FlagsOK
  <2>2. PlacesOK' /\ PipelineOK' /\ StoppingInv'
    BY <1>7, SMTT(30) DEF PlacesOK, Starting, Stopping, PipelineOK, LinesInv, StoppingInv, FlagsOK
  <2>3. StartInv' /\ ComponentsInv'
    BY <1>7, SMTT(30) DEF StartInv, PipelineOK, Starting, Started, ComponentsInv, Drained
  <2>4. LinesInv' /\ AlertsInv'
    BY <1>7, SMTT(30) DEF LinesInv, PipelineOK, Drained, AlertsInv, ComponentsInv
  <2> QED
    BY <2>1, <2>2, <2>3, <2>4, Zenon DEF IInv, TypeOK
<1>8. CASE CloseStore
  <2> USE DEF CloseStore, Written, frameOfStore, frameOfTail, start, drain
  <2>1. FlagsOK'
    BY <1>8, ZenonT(30) DEF FlagsOK
  <2>2. PlacesOK' /\ PipelineOK' /\ StoppingInv'
    BY <1>8, SMTT(30) DEF PlacesOK, Starting, Stopping, PipelineOK, LinesInv, StoppingInv, FlagsOK
  <2>3. StartInv' /\ ComponentsInv'
    BY <1>8, SMTT(30) DEF StartInv, PipelineOK, Starting, Started, ComponentsInv, Drained
  <2>4. LinesInv' /\ AlertsInv'
    BY <1>8, SMTT(30) DEF LinesInv, PipelineOK, Drained, AlertsInv, ComponentsInv
  <2> QED
    BY <2>1, <2>2, <2>3, <2>4, Zenon DEF IInv, TypeOK
<1>9. CASE Deferred
  <2> USE DEF Deferred, start, pipeline, drain
  <2>1. FlagsOK'
    BY <1>9, ZenonT(30) DEF FlagsOK
  <2>2. PlacesOK' /\ PipelineOK' /\ StoppingInv'
    BY <1>9, SMTT(30) DEF PlacesOK, Starting, Stopping, PipelineOK, LinesInv, StoppingInv, FlagsOK
  <2>3. StartInv' /\ ComponentsInv'
    BY <1>9, SMTT(30) DEF StartInv, PipelineOK, Starting, Started, ComponentsInv, FlagsOK, Drained
  <2>4. LinesInv' /\ AlertsInv'
    BY <1>9, SMTT(30) DEF LinesInv, StartInv, Started, Starting, PipelineOK, Drained, AlertsInv,
       ComponentsInv
  <2> QED
    BY <2>1, <2>2, <2>3, <2>4, Zenon DEF IInv, TypeOK
<1> QED
  BY <1>1, <1>2, <1>3, <1>4, <1>5, <1>6, <1>7, <1>8, <1>9, Zenon DEF Shutdown

\* The signal, the deadline, the source, the server, and the worker's exit.
LEMMA OthersKeep == IInv /\ (Signal \/ Deadline \/ Emit \/ SourceStops \/ ServerFails \/ FlushLoop \/ WorkerExits) => IInv'
<1> SUFFICES ASSUME IInv, Signal \/ Deadline \/ Emit \/ SourceStops \/ ServerFails \/ FlushLoop \/ WorkerExits PROVE IInv'
  OBVIOUS
<1> SUFFICES ASSUME FlagsOK, PlacesOK, PipelineOK, StartInv, ComponentsInv, LinesInv,
                    AlertsInv, StoppingInv
             PROVE  IInv'
  BY DEF IInv, TypeOK
<1> USE BoundsAssumption
<1>1. CASE Signal
  <2> USE DEF Signal, parts, frameOfOthers, Alive, start, drain
  <2>1. FlagsOK'
    BY <1>1, ZenonT(30) DEF FlagsOK
  <2>2. PlacesOK' /\ PipelineOK' /\ StoppingInv'
    BY <1>1, SMTT(30) DEF PlacesOK, Starting, Stopping, PipelineOK, StoppingInv, FlagsOK
  <2>3. StartInv' /\ ComponentsInv'
    BY <1>1, SMTT(30) DEF StartInv, Starting, Started, ComponentsInv
  <2>4. LinesInv' /\ AlertsInv'
    BY <1>1, SMTT(30) DEF LinesInv, PipelineOK, Drained, AlertsInv, ComponentsInv
  <2> QED
    BY <2>1, <2>2, <2>3, <2>4, Zenon DEF IInv, TypeOK
<1>2. CASE Deadline
  <2> USE DEF Deadline, parts, frameOfOthers, Alive, start, drain
  <2>1. FlagsOK'
    BY <1>2, ZenonT(30) DEF FlagsOK
  <2>2. PlacesOK' /\ PipelineOK' /\ StoppingInv'
    BY <1>2, SMTT(30) DEF PlacesOK, Starting, Stopping, PipelineOK, StoppingInv, FlagsOK
  <2>3. StartInv' /\ ComponentsInv'
    BY <1>2, SMTT(30) DEF StartInv, Starting, Started, ComponentsInv
  <2>4. LinesInv' /\ AlertsInv'
    BY <1>2, SMTT(30) DEF LinesInv, PipelineOK, Drained, AlertsInv, ComponentsInv
  <2> QED
    BY <2>1, <2>2, <2>3, <2>4, Zenon DEF IInv, TypeOK
<1>3. CASE Emit
  <2> USE DEF Emit, parts, frameOfOthers, Alive, start, drain
  <2>1. FlagsOK'
    BY <1>3, ZenonT(30) DEF FlagsOK
  <2>2. PlacesOK' /\ PipelineOK' /\ StoppingInv'
    BY <1>3, SMTT(30) DEF PlacesOK, Starting, Stopping, PipelineOK, StoppingInv, FlagsOK
  <2>3. StartInv' /\ ComponentsInv'
    BY <1>3, SMTT(30) DEF StartInv, Starting, Started, ComponentsInv
  <2>4. LinesInv' /\ AlertsInv'
    BY <1>3, SMTT(30) DEF LinesInv, PipelineOK, Drained, AlertsInv, ComponentsInv
  <2> QED
    BY <2>1, <2>2, <2>3, <2>4, Zenon DEF IInv, TypeOK
<1>4. CASE SourceStops
  <2> USE DEF SourceStops, parts, frameOfOthers, Alive, start, drain
  <2>1. FlagsOK'
    BY <1>4, ZenonT(30) DEF FlagsOK
  <2>2. PlacesOK' /\ PipelineOK' /\ StoppingInv'
    BY <1>4, SMTT(30) DEF PlacesOK, Starting, Stopping, PipelineOK, StoppingInv, FlagsOK
  <2>3. StartInv' /\ ComponentsInv'
    BY <1>4, SMTT(30) DEF StartInv, Starting, Started, ComponentsInv
  <2>4. LinesInv' /\ AlertsInv'
    BY <1>4, SMTT(30) DEF LinesInv, PipelineOK, Drained, AlertsInv, ComponentsInv
  <2> QED
    BY <2>1, <2>2, <2>3, <2>4, Zenon DEF IInv, TypeOK
<1>5. CASE ServerFails
  <2> USE DEF ServerFails, parts, frameOfOthers, Alive, start, drain
  <2>1. FlagsOK'
    BY <1>5, ZenonT(30) DEF FlagsOK
  <2>2. PlacesOK' /\ PipelineOK' /\ StoppingInv'
    BY <1>5, SMTT(30) DEF PlacesOK, Starting, Stopping, PipelineOK, StoppingInv, FlagsOK
  <2>3. StartInv' /\ ComponentsInv'
    BY <1>5, SMTT(30) DEF StartInv, Starting, Started, ComponentsInv
  <2>4. LinesInv'
    BY <1>5, SMTT(30) DEF LinesInv, PipelineOK, Drained
  <2>5. AlertsInv'
    BY <1>5, SMTT(30) DEF AlertsInv
  <2> QED
    BY <2>1, <2>2, <2>3, <2>4, <2>5, Zenon DEF IInv, TypeOK
<1>6. CASE FlushLoop
  <2> USE DEF FlushLoop, parts, frameOfOthers, Alive, start, drain
  <2>1. FlagsOK'
    BY <1>6, ZenonT(30) DEF FlagsOK
  <2>2. PlacesOK' /\ PipelineOK' /\ StoppingInv'
    BY <1>6, SMTT(30) DEF PlacesOK, Starting, Stopping, PipelineOK, StoppingInv, FlagsOK
  <2>3. StartInv' /\ ComponentsInv'
    BY <1>6, SMTT(30) DEF StartInv, Starting, Started, ComponentsInv
  <2>4. LinesInv' /\ AlertsInv'
    BY <1>6, SMTT(30) DEF LinesInv, PipelineOK, Drained, AlertsInv, ComponentsInv
  <2> QED
    BY <2>1, <2>2, <2>3, <2>4, Zenon DEF IInv, TypeOK
<1>7. CASE WorkerExits
  <2> USE DEF WorkerExits, parts, frameOfOthers, Alive, start, drain
  <2>1. FlagsOK'
    BY <1>7, ZenonT(30) DEF FlagsOK
  <2>2. PlacesOK' /\ StoppingInv'
    BY <1>7, SMTT(30) DEF PlacesOK, Starting, Stopping, StoppingInv, FlagsOK
  <2>3. PipelineOK'
    BY <1>7, SMTT(30) DEF PipelineOK
  <2>4. StartInv' /\ ComponentsInv'
    BY <1>7, SMTT(30) DEF StartInv, Starting, Started, ComponentsInv
  <2>5. LinesInv' /\ AlertsInv'
    BY <1>7, SMTT(30) DEF LinesInv, PipelineOK, Drained, AlertsInv, ComponentsInv
  <2> QED
    BY <2>1, <2>2, <2>3, <2>4, <2>5, Zenon DEF IInv, TypeOK
<1> QED
  BY <1>1, <1>2, <1>3, <1>4, <1>5, <1>6, <1>7, Zenon

(* Steps that only move an alert.                                          *)
OnlyAlert == UNCHANGED <<pc, start, ctxDone, expired, runErr, parts, drain, sent, taken, line,
                         processed, saved, durable>>

\* Where the alert goes is all there is to show of such a step.
LEMMA AlertMoves ==
  ASSUME IInv, OnlyAlert, NEW l \in Lines, alert[l] # "none",
         alert' \in [Lines -> AlertStates],
         AlertsInv'
  PROVE  IInv'
<1>0. FlagsOK /\ PlacesOK /\ PipelineOK /\ StartInv /\ ComponentsInv /\ LinesInv /\ StoppingInv
  BY Zenon DEF IInv, TypeOK
<1> USE DEF OnlyAlert, start, parts, drain
<1>1. FlagsOK' /\ PlacesOK' /\ PipelineOK'
  BY <1>0 DEF FlagsOK, PlacesOK, PipelineOK
<1>2. source # "none"
  BY <1>0 DEF StartInv
<1>3. StartInv' /\ ComponentsInv'
  BY <1>0, <1>2, ZenonT(40) DEF StartInv, ComponentsInv
<1>4. LinesInv' /\ StoppingInv'
  BY <1>0 DEF LinesInv, StoppingInv
<1> QED
  BY <1>1, <1>3, <1>4 DEF IInv, TypeOK

\* The worker takes and settles alerts; captures complete or are discarded.
LEMMA AlertsKeep ==
  ASSUME IInv,
         \/ \E l \in Lines : WorkerTakes(l) \/ WorkerSettles(l) \/ AwaitContext(l)
         \/ RemoveContainer
  PROVE  IInv'
<1>0. /\ alert \in [Lines -> AlertStates] /\ AlertsInv /\ StoppingInv /\ FlagsOK
      /\ ComponentsInv
  BY Zenon DEF IInv, TypeOK, PipelineOK
<1> USE DEF AlertsInv, OnlyAlert, frameOfOthers, start, parts, drain
<1>1. ASSUME NEW l \in Lines, WorkerTakes(l) \/ WorkerSettles(l) PROVE IInv'
  <2>1. OnlyAlert /\ alert[l] # "none"
    BY <1>1, Zenon DEF WorkerTakes, WorkerSettles
  <2>2. AlertsInv' /\ alert' \in [Lines -> AlertStates]
    BY <1>0, <1>1, Zenon DEF WorkerTakes, WorkerSettles, StoppingInv, AlertStates
  <2> QED
    BY <2>1, <2>2, AlertMoves, Zenon
<1>2. ASSUME NEW l \in Lines, AwaitContext(l) PROVE IInv'
  <2>1. OnlyAlert /\ alert[l] = "waiting"
    BY <1>2, Zenon DEF AwaitContext
  <2>2. Submitted \in {"settled", "full", "queued"} /\ (Submitted = "queued" => worker = "running")
    BY <1>0, <2>1 DEF Submitted, ComponentsInv, FlagsOK
  <2>3. AlertsInv' /\ alert' \in [Lines -> AlertStates]
    BY <1>0, <1>2, <2>2 DEF AwaitContext, AlertStates
  <2> QED
    BY <2>1, <2>3, AlertMoves, Zenon
<1>3. CASE RemoveContainer
  <2>1. PICK l \in Lines : alert[l] = "waiting"
    BY <1>3, Zenon DEF RemoveContainer
  <2>2. OnlyAlert
    BY <1>3, Zenon DEF RemoveContainer
  <2>3. AlertsInv' /\ alert' \in [Lines -> AlertStates]
    BY <1>0, <1>3 DEF RemoveContainer, AlertStates
  <2> QED
    BY <2>1, <2>2, <2>3, AlertMoves, Zenon
<1> QED
  BY <1>1, <1>2, <1>3, Zenon

\* Every step of Run and of the goroutines beside it keeps the invariant.
LEMMA NextIInv == IInv /\ [Next]_vars => IInv'
<1> SUFFICES ASSUME IInv, [Next]_vars PROVE IInv'
  OBVIOUS
<1>1. CASE UNCHANGED vars
  <2> USE DEF vars, start, parts, drain, pipeline
  <2>0. /\ FlagsOK /\ PlacesOK /\ PipelineOK /\ StartInv /\ ComponentsInv /\ LinesInv
        /\ AlertsInv /\ StoppingInv
    BY Zenon DEF IInv, TypeOK
  <2>1. FlagsOK'
    BY <1>1, <2>0, Zenon DEF FlagsOK
  <2>2. PlacesOK'
    BY <1>1, <2>0 DEF PlacesOK
  <2>3. PipelineOK'
    BY <1>1, <2>0 DEF PipelineOK
  <2>4. StartInv'
    BY <1>1, <2>0 DEF StartInv
  <2>5. ComponentsInv'
    BY <1>1, <2>0, Zenon DEF ComponentsInv
  <2>6. LinesInv'
    BY <1>1, <2>0, Zenon DEF LinesInv
  <2>7. AlertsInv'
    BY <1>1, <2>0, Zenon DEF AlertsInv
  <2>8. StoppingInv'
    BY <1>1, <2>0, Zenon DEF StoppingInv
  <2> QED
    BY <2>1, <2>2, <2>3, <2>4, <2>5, <2>6, <2>7, <2>8, Zenon DEF IInv, TypeOK
<1> QED
  BY <1>1, StartupKeeps, LoopsKeep, ShutdownKeeps, OthersKeep, AlertsKeep, Zenon
     DEF Next, Run, Worker

\* The invariant that the theorems below rest on.
LEMMA Invariance == Spec => []IInv
  BY InitIInv, NextIInv, PTL DEF Spec

\* The types of the state of runService and Run.
THEOREM TypeCorrect == Spec => []TypeOK
<1>1. IInv => TypeOK
  BY DEF IInv
<1> QED
  BY <1>1, Invariance, PTL

\* A return of Run without an error has processed, saved and written every line and
\* settled every alert.
THEOREM ReturnIsClean == Spec => []CleanReturn
<1>1. IInv => CleanReturn
  <2> SUFFICES ASSUME IInv, pc = "returned", ~runErr
               PROVE  /\ \A l \in 1 .. sent : l \in processed
                      /\ durable = sent
                      /\ \A l \in Lines : alert[l] \in {"none", "settled", "full", "discarded"}
    BY DEF CleanReturn
  <2>1. source # "none" /\ line = "idle" /\ ~logsOpen /\ ~timedOut /\ durable = saved
    BY DEF IInv, StartInv, LinesInv
  <2>2. taken = sent /\ saved = taken /\ processed = 1 .. taken
    BY <2>1 DEF IInv, LinesInv
  <2>3. ASSUME NEW l \in Lines PROVE alert[l] \in {"none", "settled", "full", "discarded"}
    BY DEF IInv, AlertsInv, ComponentsInv, TypeOK, PipelineOK, AlertStates
  <2> QED
    BY <2>1, <2>2, <2>3
<1> QED
  BY <1>1, Invariance, PTL

\* Every return of Run, after a failed start too, releases what was started.
THEOREM ReturnReleases == Spec => []ReleasedOnReturn
<1>1. IInv => ReleasedOnReturn
  <2> SUFFICES ASSUME IInv, pc = "returned" PROVE ReleasedOnReturn
    BY DEF ReleasedOnReturn
  <2>1. /\ store # "open" /\ server # "serving" /\ api # "open" /\ processor # "open"
        /\ worker \in {"none", "exited"}
    BY DEF IInv, ComponentsInv
  <2>2. \A l \in Lines : alert[l] \notin {"waiting", "queued", "sending"}
    BY <2>1 DEF IInv, AlertsInv
  <2>3. source \in {"none", "closed"} \/ (timedOut /\ runErr)
    BY DEF IInv, LinesInv
  <2> QED
    BY <2>1, <2>2, <2>3 DEF ReleasedOnReturn
<1> QED
  BY <1>1, Invariance, PTL

\* No alert is handed to a worker that has been closed.
THEOREM NeverLate == Spec => []NothingLate
<1>1. IInv => NothingLate
  BY DEF IInv, AlertsInv, NothingLate
<1> QED
  BY <1>1, Invariance, PTL

\* A checkpoint is saved only behind lines that were all processed.
THEOREM CheckpointsCover == Spec => []CheckpointCovers
<1>1. IInv => CheckpointCovers
  BY DEF IInv, TypeOK, PipelineOK, LinesInv, CheckpointCovers
<1> QED
  BY <1>1, Invariance, PTL

\* A validated configuration is refused by two constructors only: by NewSDKClient for a
\* docker.socket that is not blank but no host, and by docker.New for names that clash
\* or vanish when their leading slash is cut off.
THEOREM ValidConfigsBuild == Spec => []ValidatedBuilds
<1>1. IInv => ValidatedBuilds
  BY Zenon DEF IInv, StartInv, ValidatedBuilds, ClientAccepts, SourceAccepts, Validate,
     validateNames
<1> QED
  BY <1>1, Invariance, PTL
=============================================================================
