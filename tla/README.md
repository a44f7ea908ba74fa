# TLA+ models of graph-log-watcher

The watcher follows the logs of configured Docker containers, matches rules,
aggregates matches into incidents, attaches context lines and sends alerts. It
stores a checkpoint per container so that a restart continues where it stopped.
This directory holds TLA+ models of its stateful parts and of the algorithms
between them, the TLC configurations that check them, and TLAPS proofs.
`PROJECT.json` lists every run, the source lines behind every definition, the
hazards, the findings and the theorems.

## The system

| Part | State | Operations | Module |
|---|---|---|---|
| Service (`cmd`, `runtime/runtime.go`) | place in `Run`, which components are up, the drain loop, one deadline | `runService`, `Run`, `processRaw` | `Runtime` |
| Configuration (`config`) and what the constructors refuse | none | `DefaultConfig`, `Validate`, `New...`, `Compile`, `Open` | `Config` |
| Docker source (`source/docker/source.go`) | manager per name, one stream at a time, wake tokens, backoff | `runContainer`, `discover`, `stream`, `emit`, `watchEvents`, `wake`, `Run` | `DockerSource` |
| Log decoders (same file) | bytes after the last line feed, per stream | `decodeMultiplexed`, `decodePlain`, `readLines` | `LogDecoder` |
| Replay (`runtime/runtime.go`, `checkpoint/replay.go`) | gate, initial start, lines being processed | `ContainerAttached`, `replayStart`, `filter`, `Accept`, `processRaw` | `LogReplay`, `ReplayGate` |
| Checkpoint store (`checkpoint/store.go`) | pending batch, counter, last error, bucket | `Save`, `Load`, `Flush`, `Err`, `Close`, flush loop | `CheckpointStore`, abstract `DurableMap` |
| Router and rules (`router`, `rule`) | matches not yet recorded | `Route`, `Match`, `Normalize`, `Fingerprint` | `Detection` |
| Aggregator (`aggregate/aggregate.go`) | groups with window, cooldown, samples | `Record`, `Len`, `State` | `Aggregator` |
| Processor and context (`processor`, `context`) | pending alerts, collectors, ring buffers | `Process`, `awaitContext`, `RemoveContainer`, `Close`, timers, `Capture.Lines` | `Processor`, `ContextBuffer`, `Capture` |
| Notification worker (`notify/notifier.go`) | queue, rate limit, deliveries under way | `Submit`, `run`, `allow`, `NotifyWithRetries`, `sendStorm`, `Close` | `NotifyWorker` |
| Health (`metrics/metrics.go`) | last Docker answer, attachment per name | `DockerOK`, `Attached`, `CheckpointOK`, `ServeHTTP` | `Health`; the checkpoint verdict is in `CheckpointStore` |

The source goroutines put lines into a bounded channel. One consumer takes them
out, filters them through the replay gate, hands them to the processor and then
saves the checkpoint. The processor asks the rules and the aggregator whether to
alert and gives finished alerts to the notification worker, which never blocks it.

What is hard here: the source changes gates and contexts while the consumer
still holds lines of the previous stream; a crash may fall between processing,
saving and flushing; timers, new lines, container removal and shutdown all
complete the same alert; one deadline bounds a shutdown in which every component
waits for another; Docker loses events and cuts byte streams anywhere.

## How the models are written

One critical section of a Go mutex, one channel operation, one external call or
one sleep is one action. What lies between two of them may interleave with other
goroutines. Times are integers; `0`, `None` or `Zero` is Go's zero time where the
code distinguishes it. Docker, the disk, the clock and the notification channels
are environment and act at any time. Operators named `Bad...` are faulty variants
of the definition after them; they show that a property can fail, and no
specification uses them.

- `Config` and `Runtime`: a configuration is a record of the settings that
  validation or a constructor looks at. `Validate` and each constructor's checks
  are predicates on it, written from their own code. `Runtime` loads one, builds
  the components in `Run`'s order with every early return, runs the loop and the
  drain, and shuts down. Of each component it keeps what `Run` can see of it.
- `CheckpointStore`: the consumer, the flush loop and the source share the store
  and write verdicts to Health. The disk fails and recovers; a process may end
  anywhere. It implements `DurableMap`.
- `LogReplay`: one container name from Docker's log to the checkpoint, on top of
  `DurableMap`. Lines carry their position, which only the properties use. A stream
  that ends inside a line may send a piece of it (`PiecesOf`): on a TTY whenever
  it ends, otherwise only between two frames. A piece that holds the whole
  timestamp is a line like any other to the gate, the processor and the store. One
  without it has no time, so that `Save` refuses it.
- `Detection` extends `Aggregator`: `Process` routes a line, matches the rules in
  order and records each match under its fingerprint. Bytes are numbers, a regular
  expression is the set of messages it matches, a replacement a function, and
  sha256 a function without collisions on what is hashed (`IdentityAssumption`,
  which also says what `Validate` ensures, that rule IDs differ).
- `Aggregator`: `Record` is one action, because it holds the mutex throughout.
- `NotifyWorker`: each channel call, retry sleep and count is a step. `send`'s own
  retry loop is left out: the program always uses a `MultiNotifier`.
- `Processor`: which rules alert for a line is an input. An alert carries its
  collector and the position of its goroutine. What it sends is cut by
  `Capture`, whose lines are sequences of bytes with continuation bytes marked.
- `DockerSource`: whether the SDK closes its message channel after an error is
  not decided by this repository, so after a broken subscription the watcher
  either resubscribes or is deaf from then on.
- `Health`: calls of the Docker API take no time and the probe is punctual.
- `LogDecoder`: bytes are text, line feed and carriage return. `LinesExact` counts an
  unfinished line that a failing TTY stream sends as one of the stream's lines.

Loops over a slice (`Match`, `Normalize`, the bytes a fingerprint hashes, the sort of
its fields, `allow`'s filter, the cutting of lines) are recursive functions of the
number of turns, so that TLC can run them and TLAPS can reason about each turn.

## Runs

| Run | Shows | Bounds |
|---|---|---|
| `runtime` | a validated configuration builds, with two exceptions named below; every return, from a failed start too, releases what was started; a return without error has processed, checkpointed and settled everything; no alert meets a closed worker; no checkpoint passes a refused line; Run returns whatever Docker does | one valid configuration and 68 that differ from it in one setting, 3 lines, channel and queue of 1 |
| `checkpoint_store` | bounded batch, failures keep their data, clean close, refinement of `DurableMap`; Close returns, lasting failures and repairs reach Health | 2 names, 2 checkpoints, limit 2 with one save beyond it |
| `log_replay` | no checkpoint covers an unprocessed line, no line vanishes, accepted lines survive a recreation, the watcher catches up | 2 containers, 2 lines with distinct timestamps, channel of 2, 1 reconnection, 1 crash, 1 rotated line, 1 cut line |
| `detection` | rules count exactly the lines they should, incidents are never merged or split; exact windows, full windows alerted, current alerts, cooldown, bounded groups | 4 rules, 5 lines, two event times around three clock values, 3 events per group, 2 groups |
| `notify_worker` | every alert counted once, no channel called again, rate limit, storm cooldown, Close returns with nothing left | 4 alerts, queue of 2, limit 2, 2 channels, 1 retry |
| `processor` | emitted once, no leak, exact context, text cut exactly to the byte budget, Close returns with every alert emitted or discarded | 4 lines in a ring of 2, 2 container IDs, an immediate and a waiting rule |
| `docker_source` | order of lines, truthful attachment, backoff; Run returns after cancellation, a container that stays up is followed | 1 name, 2 starts, 1 outage, channel of 1, backoff 1, 2, 4, 5 |
| `source_side` | verdicts on Docker and containers; the decoders give the right lines while reading, at the end and after a failure | 2 names, one written `/b`, 7 instants; 6 bytes in chunks of up to 3 |

`source_side` holds two models that share no state; in each of its behaviours one
of them moves. The bounds let each interesting case occur at least once: the
batch, queue, ring and channel fill up and wrap, a counter passes its limit by one,
a container is replaced while its lines are queued, a crash falls on each step, and
the deadline on each step of the shutdown. In `log_replay` a piece may have the same text as its line, when only the line
feed was missing, or another one. Two lines in all are enough for a predecessor
and its successor, in one container or across a recreation, and keep the run short;
the theorems cover any number. `log_replay` sets
`initial_replay_window` to 0, which the configuration allows, so that with two
instants some lines lie before the window. In `detection` the fields of two lines
are the same bytes in a row, so that a fingerprint without lengths merges them.
Deadlock is checked for the checkpoint store, which never stops because it
restarts. The other models end when their bounds are used up or Run returns.

Runs that show a disagreement (`findings` in `PROJECT.json` quotes the text):

- `checkpoint_health_race`: a stale "ok" overwrites a reported flush failure.
- `log_replay_ties_reconnect`: a second reconnection replaces a gate that holds
  lines, and the checkpoint passes them.
- `log_replay_rotated`: with the marker gone, a line with the checkpoint's timestamp
  waits until something newer is logged, since nobody calls `Finish`.
- `processor_recreate`: queued lines of a replaced container enter its successor's
  context.

The two replay findings need lines with equal timestamps; with distinct ones
`log_replay` shows, and `LogReplayProofs` proves, that nothing is lost.

More places where parts of the code, or the code and `tasks.md`, do not agree were
met while modelling. No violation run covers them:

- `Accept` drops buffered lines of a replaced container that share the checkpoint's
  timestamp (`replay.go:54`). `AcceptedSurvivesRecreation` fails when `Ties` is `TRUE`,
  with 2 texts and 2 containers.
- A crash before the first flush computes the initial window anew, over lines the
  first start owed (`runtime.go:326`). `NoGap` counts from the latest start.
- At `max_groups` the least recently updated group goes, not the one with the oldest
  `LastSeen` (`aggregate.go:208`).
- A successful discovery resets the backoff, so ended streams are retried without a
  growing delay (`source.go:190`).
- `validateNames` trims spaces only (`validate.go:113`), while `docker.New` also cuts
  a leading slash. The container names `a` and `/a` together, or `/`, pass
  `check-config` and fail at the start.
- `Validate` asks of `docker.socket` only that it is not blank (`validate.go:43`), while
  the SDK behind `NewSDKClient` wants a host address with a scheme. The plain path
  `/var/run/docker.sock` passes `check-config` and fails at the start. `ValidatedBuilds`
  states this and the previous exception, and that no other constructor refuses a
  validated configuration. Which addresses the SDK takes is the constant `Hosts`.
- `readLines` sends the beginning of a line when a TTY stream breaks inside it
  (`source.go:376`), with the timestamp of the whole line. Once processed it is the
  checkpoint; the whole line, read again, has the same timestamp and another text, so
  that the gate buffers it, and when the gate is replaced before a newer line arrives
  the rest of that line is never processed. `NoGap`, `NothingLost`,
  `AcceptedSurvivesRecreation` and `EventuallyProcessed` therefore count a line as
  consumed once a piece of it with its timestamp was processed (`Consumed`).
- Severities and a rule's containers are validated trimmed, but `Compile` only
  lower-cases a severity and the matcher compares containers as written.

## Fairness

Weak fairness stands for "a goroutine that can run does", "a timer fires" and "a
call returns". Of the alerts of the processor and the deliveries of the worker
only some one has to move, which is weaker than fairness of each goroutine and
enough, because each of them ends after a few steps. In `Runtime`, Run, the worker,
the captures and the deadline are weakly fair; the source is not, so `RunReturns`
holds when Docker hangs. Strong fairness is used
twice. The flush loop's stop case gets it because Go's select chooses at random
among ready cases, so a stop that stays ready is not passed over for ever.
`FollowsCurrent` has a premise, `Consumed`: the consumer reads, and the end of a
stream is strongly fair because the log of a stopped container is finite.
`RunReturnsAfterCancel` does without it, so it holds when nobody reads. It covers
the managers and streams of `source.go`, not the goroutine of `SDKClient.Events`
(`client.go:62`), which `Run` does not wait for. Nothing is
assumed of new lines, crashes, disk repairs, the Docker daemon or the expiry of
Close's context.

## Proofs

For all values of the constants that satisfy the named assumptions (positive
limits, windows and capacities, which the constructors enforce, and absent values
that differ from present ones):

- `LogReplayProofs`: `TypeOK`, and `ReplayUsesStore`: the replay touches the
  checkpoints only in steps of `DurableMap`, which the store implements. Then, under
  the further assumptions `~Ties` (no two lines of a container share a timestamp) and
  `Pieces = {}` (no stream sends a piece of a line), `NoGap`, `NothingLost` and the
  action property `AcceptedSurvivesRecreation`. The runs above show that the first is
  needed; with pieces these properties are checked by TLC only. The invariant calls a line safe when it was processed or
  is not owed any more (rotated away, or before the last initial start), and says:
  every checkpoint, in memory, on disk, loaded by the source or held by a gate, has
  only safe lines up to its position; what a gate buffers is not past its
  checkpoint; before each line of the channel, its predecessors are safe, ahead of it
  in the channel, or in the batch; and the same holds of the place of the open
  stream. Safety is stated over the logs, the rotation, the processed lines and
  the last start as parameters, and it survives their growth (`GrewKeeps`), which
  covers Docker's steps and the processor's. The rest is one lemma per hand-over:
  stream to channel, channel through the gate to the batch, batch to checkpoint.
  `AcceptedSurvivesRecreation` also speaks of lines that Docker has rotated away while
  they were in flight, which this invariant forgets. `JInv` states the same facts with
  no line rotated away and with `Past` for the processed lines: those, and what was
  rotated away and is not in flight. A line let go by the gate or the batch is then in
  `Past` and was in flight, so it was processed.
- `RuntimeProofs`: `TypeOK`, `CleanReturn`, `ReleasedOnReturn`, `NothingLate`,
  `CheckpointCovers`, `ValidatedBuilds`, and `ValidateAccepts`, which compares
  `Validate` with the constructors one by one. The invariant says which components
  are up at each place of `Run`, what of the lines is processed, saved and written,
  and where alerts can be.
- `ProcessorProofs`: `TypeOK`, `EmittedOnce`, `NoLeak`, `ContextExact`, `RenderedExact`.
  The invariant relates the ring buffer's indices to the kept lines since the last
  removal, and each alert's before and after lines to a window of them.
  `RenderedExact` follows the loops of `Capture.Lines`: the length of the joined lines
  at every turn, the first turn that does not fit, and the cut of a trigger that is too
  long by itself. It needs that the names are finitely many and `max_bytes` is positive.
- `DockerSourceProofs`: `TypeOK`, `OutputInOrder`, `AttachedMeansFollowing`,
  `RetriesBackOff`. The invariant bounds the identifiers in the channel by the
  manager's, the manager's by Docker's, and the backoff from below by what the
  failures so far require.
- `NotifyWorkerProofs`: `TypeOK`, `Accounted`, `AcceptedOnce`, `RateLimited`. The
  invariant ties the counters to the queue, the alert in hand and the storm alerts
  under way. For the rate limit it says that what `allow` remembers are the last
  admissions, and at least all of the last minute, so that the admission `Limit`
  places back is remembered or more than a minute old.
- `DetectionProofs`, the aggregator alone: `TypeOK`, `GroupsBounded`,
  `FullWindowAlerted`, `AlertIsCurrent`, `WindowExact` and the action property
  `CooldownRespected`. The invariant adds, for each group, that the window is sorted
  and holds nothing before the cutoff, which needs lemmas on the two binary searches.
  `GroupsBounded` needs that eviction finds an oldest group. `WindowExact` needs that
  each time occurs in the window as often as events of it were recorded, which
  inserting and discarding preserve.
- `DetectionProofs`, the path that feeds it: `DetectionUsesAggregator` (every step is
  one of the aggregator, so the theorems above carry over, `DetectionAggregates`),
  `CountedByRules` and `OneIncidentPerGroup`. The first follows the loop of `Match`.
  The second needs that the written parts can be read back: each starts with its
  length, so two lists of parts with the same bytes are the same list; that sorting
  the fields keeps them; and, in the invariant, that the members of a group have its
  fingerprint.
- `CheckpointStoreProofs`: `TypeOK`, `BatchBounded`, `FailureHoldsData`,
  `CleanClose`, and that the store implements `DurableMap`. The invariant adds
  `Lifecycle`, which ties the flush loop and the closing flags to where Run
  stands; without it `CleanClose` does not survive a step. The refinement shows
  that a flush is `Sync` or a stutter and a save is `Put`.
- `SourceSideProofs`, health: `TypeOK`, `DockerVerdict`, `ContainersVerdict`, for every
  interval and set of names. The invariant says that nothing moves the last good answer
  while the API is away and that a probe has moved it since the API came back, and it
  ties the recorded detachments to the real ones.
- `SourceSideProofs`, the decoders: `LinesExact`, for chunks of any length and content.
  The invariant says that a buffer holds what follows the last line feed of the bytes
  delivered. The lemmas say how one more byte changes the complete lines and the rest,
  and that the decoder's loop makes the same change at every turn.

A statement about every turn of a loop is proved by its least counterexample: the set
of turns for which it fails has a least element (`LeastNatural`), and the turn before
it refutes that one. That the loop has values at all is `LoopHasValues`.

The bounds named `Max...` are arbitrary in the proofs. Checked by TLC only is
liveness, which these proofs do not reach: `EventuallyProcessed`, `RunReturns`,
`CloseReturns`, `RunReturnsAfterCancel`, `FollowsCurrent`, `VerdictSettles`.

## Not modelled

- Parser, redaction, DingTalk formatting, `parseTimestamp`, YAML decoding, environment
  expansion and the syntax of durations turn one text into another and keep no state.
- Metrics are written and never read; the dry-run sink only writes. `Runtime` has the
  dry run, in which there is no worker.
- The Docker SDK client, but for the addresses it refuses, passes calls on; its behaviour is the environment of
  `DockerSource` and `LogReplay`.
- `check-config` and `healthcheck` print a verdict and end.
- `Finish` of the replay gate and the package `service` have no caller.
