---------------------------- MODULE DockerSource ----------------------------
(***************************************************************************)
(* internal/source/docker/source.go: one manager goroutine per container   *)
(* name (runContainer) with one stream goroutine at a time (stream), the   *)
(* event watcher (watchEvents) and the health probe.  The Docker daemon is *)
(* external: containers start, stop and are recreated, the API goes away   *)
(* and comes back, and events are lost while nobody is subscribed.         *)
(* A duration is its multiple of InitialBackoff; waits end at any time.    *)
(* The probe's and discover's DockerAvailable callbacks and the reconnect  *)
(* counter only feed metrics and Health, and are left out.                 *)
(***************************************************************************)
EXTENDS Integers, Sequences

CONSTANTS
  Names,        \* logical container names
  MaxBackoff,   \* Config.MaxBackoff
  ChannelSize,  \* capacity of Output
  MaxStarts,    \* bound on the container starts
  MaxOutages    \* bound on the times the API goes away

ASSUME SourceAssumption ==
  /\ MaxBackoff \in Nat \ {0} /\ ChannelSize \in Nat \ {0}
  /\ MaxStarts \in Nat /\ MaxOutages \in Nat

VARIABLES
  up,         \* Docker: the API answers
  running,    \* Docker: ID of the running container of each name, 0 if none
  lastID,     \* Docker: ID of the latest container of each name
  starts, outages,
  events,     \* Docker: lifecycle events on their way to the watcher
  wakes,      \* LogSource.wakes: each channel holds at most one token
  mgr,        \* runContainer: step, container and backoff
  streams,    \* the stream goroutines that have not ended
  watch,      \* watchEvents: its step
  probe,      \* probeDocker: its step
  cancelled,  \* ctx.Err() # nil
  returned,   \* Run has returned
  logs,       \* Output
  attached,   \* what observeAttached last said, 0 for detached
  taken,      \* history: container of the last line the consumer took
  owed        \* history: the wait that the failed discoveries in a row call for,
              \* 0 after a successful one

docker == <<up, running, lastID, starts, outages>>
history == <<taken, owed>>
vars == <<docker, events, wakes, mgr, streams, watch, probe, cancelled,
          returned, logs, attached, history>>

InitialBackoff == 1

Managers == {"list", "inspect", "wait", "follow", "rewake", "stop", "exited"}

TypeOK ==
  /\ up \in BOOLEAN /\ cancelled \in BOOLEAN /\ returned \in BOOLEAN
  /\ \A n \in Names :
       /\ running[n] \in {0, lastID[n]}
       /\ mgr[n].pc \in Managers
       /\ mgr[n].id \in 0 .. lastID[n]
       /\ mgr[n].backoff \in InitialBackoff .. MaxBackoff
       /\ wakes[n] \in BOOLEAN
  /\ watch \in {"subscribe", "listen", "deaf", "wait", "exited"}
  /\ probe \in {"run", "exited"}
  /\ Len(logs) <= ChannelSize

Init ==
  /\ up = TRUE
  /\ running = [n \in Names |-> 0]
  /\ lastID = [n \in Names |-> 0]
  /\ starts = 0 /\ outages = 0
  /\ events = <<>>
  /\ wakes = [n \in Names |-> FALSE]
  /\ mgr = [n \in Names |-> [pc |-> "list", id |-> 0, backoff |-> InitialBackoff]]
  /\ streams = {}
  /\ watch = "subscribe" /\ probe = "run"
  /\ cancelled = FALSE /\ returned = FALSE
  /\ logs = <<>>
  /\ attached = [n \in Names |-> 0]
  /\ taken = [n \in Names |-> 0]
  /\ owed = [n \in Names |-> 0]

-----------------------------------------------------------------------------
(* The Docker daemon                                                       *)

source == <<wakes, mgr, streams, watch, probe, cancelled, returned, logs,
            attached, history>>

Publish(n) == events' = IF watch = "listen" /\ up THEN Append(events, n) ELSE events

(* The latest container starts again, or a new one takes the name.         *)
Start(n, id) ==
  /\ running[n] = 0 /\ starts < MaxStarts
  /\ id > 0
  /\ running' = [running EXCEPT ![n] = id]
  /\ lastID' = [lastID EXCEPT ![n] = id]
  /\ starts' = starts + 1
  /\ Publish(n)
  /\ UNCHANGED <<up, outages, source>>

Stop(n) ==
  /\ running[n] # 0
  /\ running' = [running EXCEPT ![n] = 0]
  /\ Publish(n)
  /\ UNCHANGED <<up, lastID, starts, outages, source>>

Outage ==
  /\ up /\ outages < MaxOutages
  /\ up' = FALSE /\ outages' = outages + 1
  /\ UNCHANGED <<running, lastID, starts, events, source>>

Recover ==
  /\ ~up
  /\ up' = TRUE
  /\ UNCHANGED <<running, lastID, starts, outages, events, source>>

-----------------------------------------------------------------------------
(* The manager of a name                                                   *)

quiet == <<docker, events, watch, probe, cancelled, returned, logs, taken>>

nextBackoff(current) ==
  IF current >= MaxBackoff \div 2 THEN MaxBackoff ELSE current * 2

(* One failure more: InitialBackoff, twice that, four times, ... MaxBackoff.*)
OneMore(wait) ==
  LET next == IF wait = 0 THEN InitialBackoff ELSE 2 * wait
  IN IF next < MaxBackoff THEN next ELSE MaxBackoff

Goto(n, pc) == mgr' = [mgr EXCEPT ![n].pc = pc]

(* discover: List finds the name.                                          *)
List(n) ==
  /\ mgr[n].pc = "list"
  /\ ~cancelled /\ up /\ running[n] # 0
  /\ mgr' = [mgr EXCEPT ![n].pc = "inspect", ![n].id = running[n]]
  /\ UNCHANGED <<quiet, wakes, streams, attached, owed>>

(* discover: Inspect finds it running, runContainer starts a stream.       *)
Attach(n) ==
  /\ mgr[n].pc = "inspect"
  /\ ~cancelled /\ up /\ running[n] = mgr[n].id
  /\ mgr' = [mgr EXCEPT ![n].pc = "follow", ![n].backoff = InitialBackoff]
  /\ attached' = [attached EXCEPT ![n] = mgr[n].id]
  /\ streams' = streams \cup {[name |-> n, id |-> mgr[n].id, open |-> FALSE, stop |-> FALSE]}
  /\ owed' = [owed EXCEPT ![n] = 0]
  /\ UNCHANGED <<quiet, wakes>>

(* discover returned an error.                                             *)
DiscoverFails(n) ==
  /\ \/ mgr[n].pc = "list" /\ ~cancelled /\ (~up \/ running[n] = 0)
     \/ mgr[n].pc = "inspect" /\ (cancelled \/ ~up \/ running[n] # mgr[n].id)
  /\ Goto(n, "wait")
  /\ attached' = [attached EXCEPT ![n] = 0]
  /\ owed' = [owed EXCEPT ![n] = OneMore(@)]
  /\ UNCHANGED <<quiet, wakes, streams>>

(* wait: the timer or, consuming its token, a wake.                        *)
(* Definitions named Bad... are faulty variants used to test properties.   *)
BadWaitEnds(n) ==
  /\ mgr[n].pc = "wait"
  /\ mgr' = [mgr EXCEPT ![n].pc = "list", ![n].backoff = InitialBackoff]
  /\ wakes' \in {wakes, [wakes EXCEPT ![n] = FALSE]}
  /\ UNCHANGED <<quiet, streams, attached, owed>>

WaitEnds(n) ==
  /\ mgr[n].pc = "wait"
  /\ mgr' = [mgr EXCEPT ![n].pc = "list", ![n].backoff = nextBackoff(@)]
  /\ wakes' \in {wakes, [wakes EXCEPT ![n] = FALSE]}
  /\ UNCHANGED <<quiet, streams, attached, owed>>

(* Cancellation ends the loop at its head and in wait.                     *)
ManagerExits(n) ==
  /\ cancelled /\ mgr[n].pc \in {"list", "wait"}
  /\ Goto(n, "exited")
  /\ UNCHANGED <<quiet, wakes, streams, attached, owed>>

StreamsOf(n) == { s \in streams : s.name = n }

CancelStreams(n) ==
  { IF s.name = n THEN [s EXCEPT !.stop = TRUE] ELSE s : s \in streams }

(* The select of runContainer: a lifecycle event, ...                      *)
Rewake(n) ==
  /\ mgr[n].pc = "follow" /\ wakes[n]
  /\ wakes' = [wakes EXCEPT ![n] = FALSE]
  /\ streams' = CancelStreams(n)
  /\ Goto(n, "rewake")
  /\ UNCHANGED <<quiet, attached, owed>>

BadRewakeDone(n) ==
  /\ mgr[n].pc = "rewake"
  /\ Goto(n, "list")
  /\ attached' = [attached EXCEPT ![n] = 0]
  /\ UNCHANGED <<quiet, wakes, streams, owed>>

RewakeDone(n) ==
  /\ mgr[n].pc = "rewake" /\ StreamsOf(n) = {}
  /\ Goto(n, "list")
  /\ attached' = [attached EXCEPT ![n] = 0]
  /\ UNCHANGED <<quiet, wakes, streams, owed>>

(* ... the end of the stream, ...                                          *)
BadStreamEnded(n) ==
  /\ mgr[n].pc = "follow" /\ StreamsOf(n) = {}
  /\ Goto(n, "wait")
  /\ UNCHANGED <<quiet, wakes, streams, attached, owed>>

BadStreamEndedIgnored(n) ==
  /\ mgr[n].pc = "follow" /\ StreamsOf(n) = {} /\ cancelled
  /\ Goto(n, "wait")
  /\ attached' = [attached EXCEPT ![n] = 0]
  /\ UNCHANGED <<quiet, wakes, streams, owed>>

StreamEnded(n) ==
  /\ mgr[n].pc = "follow" /\ StreamsOf(n) = {}
  /\ Goto(n, "wait")
  /\ attached' = [attached EXCEPT ![n] = 0]
  /\ UNCHANGED <<quiet, wakes, streams, owed>>

(* ... or cancellation.                                                    *)
StopFollowing(n) ==
  /\ mgr[n].pc = "follow" /\ cancelled
  /\ streams' = CancelStreams(n)
  /\ Goto(n, "stop")
  /\ UNCHANGED <<quiet, wakes, attached, owed>>

StopDone(n) ==
  /\ mgr[n].pc = "stop" /\ StreamsOf(n) = {}
  /\ Goto(n, "exited")
  /\ UNCHANGED <<quiet, wakes, streams, attached, owed>>

-----------------------------------------------------------------------------
(* The stream goroutine                                                    *)

idle == <<docker, events, wakes, mgr, watch, probe, cancelled, returned, attached, owed>>

(* Docker may still serve the log of a container that has stopped.         *)
StreamOpens(s) ==
  /\ ~s.open /\ up /\ ~s.stop /\ ~cancelled
  /\ streams' = (streams \ {s}) \cup {[s EXCEPT !.open = TRUE]}
  /\ UNCHANGED <<idle, logs, taken>>

(* emit: the send and ctx.Done() are two cases of a select, and a cancelled*)
(* stream may still take the first one.                                    *)
Emit(s) ==
  /\ s.open /\ Len(logs) < ChannelSize
  /\ logs' = Append(logs, [name |-> s.name, id |-> s.id])
  /\ UNCHANGED <<idle, streams, taken>>

(* Logs failed, the reader is at its end, or emit saw the cancellation; a  *)
(* reader of a live container, or an emit blocked on a full channel, only  *)
(* ends when the connection or the context does.                           *)
BadStreamEnds(s) ==
  /\ ~up \/ running[s.name] # s.id \/ s.stop \/ cancelled
  /\ s.open => Len(logs) < ChannelSize
  /\ streams' = streams \ {s}
  /\ UNCHANGED <<idle, logs, taken>>

StreamEnds(s) ==
  /\ \/ (~up \/ running[s.name] # s.id) /\ (s.open => Len(logs) < ChannelSize)
     \/ s.stop \/ cancelled
  /\ streams' = streams \ {s}
  /\ UNCHANGED <<idle, logs, taken>>

(* The consumer of Output.                                                 *)
Take ==
  /\ logs # <<>>
  /\ logs' = Tail(logs)
  /\ taken' = [taken EXCEPT ![Head(logs).name] = Head(logs).id]
  /\ UNCHANGED <<idle, streams>>

-----------------------------------------------------------------------------
(* watchEvents                                                             *)

calm == <<docker, mgr, streams, probe, cancelled, returned, logs, attached, history>>

Subscribe ==
  /\ watch = "subscribe" /\ ~cancelled /\ up
  /\ watch' = "listen" /\ events' = <<>>
  /\ UNCHANGED <<calm, wakes>>

(* The errors channel is closed, and the events channel too if the SDK     *)
(* closes its own: only then is the subscription renewed.                  *)
SubscriptionBreaks ==
  /\ watch \in {"subscribe", "listen"} /\ ~cancelled /\ ~up
  /\ watch' \in {"wait", "deaf"} /\ events' = <<>>
  /\ UNCHANGED <<calm, wakes>>

(* wake: a full channel already holds the token.                           *)
Wake ==
  /\ watch = "listen" /\ events # <<>>
  /\ wakes' = [wakes EXCEPT ![Head(events)] = TRUE]
  /\ events' = Tail(events)
  /\ UNCHANGED <<calm, watch>>

WatchWaitEnds ==
  /\ watch = "wait"
  /\ watch' = "subscribe"
  /\ UNCHANGED <<calm, wakes, events>>

WatchExits ==
  /\ cancelled /\ watch # "exited"
  /\ watch' = "exited"
  /\ UNCHANGED <<calm, wakes, events>>

ProbeExits ==
  /\ cancelled /\ probe = "run"
  /\ probe' = "exited"
  /\ UNCHANGED <<docker, events, wakes, mgr, streams, watch, cancelled, returned, logs,
                 attached, history>>

Cancel ==
  /\ ~cancelled
  /\ cancelled' = TRUE
  /\ UNCHANGED <<docker, events, wakes, mgr, streams, watch, probe, returned, logs,
                 attached, history>>

(* Run: workers.Wait().                                                    *)
RunReturns ==
  /\ ~returned
  /\ watch = "exited" /\ probe = "exited"
  /\ \A n \in Names : mgr[n].pc = "exited"
  /\ returned' = TRUE
  /\ UNCHANGED <<docker, events, wakes, mgr, streams, watch, probe, cancelled, logs,
                 attached, history>>

-----------------------------------------------------------------------------
Manager(n) ==
  \/ List(n) \/ Attach(n) \/ DiscoverFails(n) \/ WaitEnds(n) \/ ManagerExits(n)
  \/ Rewake(n) \/ RewakeDone(n) \/ StreamEnded(n) \/ StopFollowing(n) \/ StopDone(n)

Watcher == Subscribe \/ SubscriptionBreaks \/ Wake \/ WatchWaitEnds \/ WatchExits

Stream(n) == \E s \in StreamsOf(n) : StreamOpens(s) \/ StreamEnds(s)

Daemon ==
  \/ \E n \in Names : Stop(n) \/ \E id \in {lastID[n], lastID[n] + 1} : Start(n, id)
  \/ Outage \/ Recover

Next ==
  \/ Daemon
  \/ \E n \in Names : Manager(n) \/ Stream(n) \/ \E s \in StreamsOf(n) : Emit(s)
  \/ Take \/ Watcher \/ ProbeExits \/ Cancel \/ RunReturns

(* Goroutines run and API calls return.  Nothing is assumed of the daemon, *)
(* of the consumer or of the lines.                                        *)
Fairness ==
  /\ \A n \in Names : WF_vars(Manager(n)) /\ WF_vars(Stream(n))
  /\ WF_vars(Watcher) /\ WF_vars(ProbeExits) /\ WF_vars(RunReturns)

Spec == Init /\ [][Next]_vars /\ Fairness

(* The consumer takes what is in the channel, and a stream that can end    *)
(* again and again does: the log of a stopped container is finite.         *)
Consumed ==
  /\ WF_vars(Take)
  /\ \A n \in Names : SF_vars(\E s \in StreamsOf(n) : StreamEnds(s))

-----------------------------------------------------------------------------
(* Properties                                                              *)

\* The lines of one name reach the consumer in the order of its containers: none
\* of a replaced container comes after one of its successor, since runContainer
\* waits for the old stream goroutine (<-done) before it discovers again.
OutputInOrder ==
  \A i \in 1 .. Len(logs) :
    /\ taken[logs[i].name] <= logs[i].id
    /\ \A j \in i .. Len(logs) : logs[j].name = logs[i].name => logs[i].id <= logs[j].id

\* A name is reported attached only while its manager follows a stream, or until
\* that stream has ended: never while it searches or backs off.
AttachedMeansFollowing ==
  \A n \in Names :
    attached[n] # 0 =>
      mgr[n].pc \in {"follow", "rewake", "stop", "exited"} /\ attached[n] = mgr[n].id

\* After k failed discoveries in a row the manager waits for at least
\* min(2^(k-1) * initial, max), and never for more than max.
RetriesBackOff ==
  \A n \in Names :
    mgr[n].pc = "wait" => owed[n] <= mgr[n].backoff /\ mgr[n].backoff <= MaxBackoff

\* Once the context is cancelled Run returns, with every manager and stream gone,
\* even when nobody reads Output any more.  The goroutine behind SDKClient.Events
\* ends with the SDK's channel and is not part of this.
RunReturnsAfterCancel == cancelled ~> (returned /\ streams = {})

Follows(n, id) == \E s \in StreamsOf(n) : s.open /\ s.id = id /\ ~s.stop

\* If the API and a container stay up and Output is read, the source follows that
\* container for good, whatever events were lost, merged or never resubscribed to.
FollowsCurrent ==
  Consumed => \A n \in Names : \A id \in 1 .. MaxStarts :
    <>[](up /\ ~cancelled /\ running[n] = id) => <>[]Follows(n, id)
=============================================================================
