---------------------------- MODULE NotifyWorker ----------------------------
(***************************************************************************)
(* internal/notify/notifier.go: the bounded queue between the pipeline and *)
(* the notification channels, its single worker goroutine with the rate    *)
(* limit, the goroutines that send storm alerts, and Close.  Every         *)
(* critical section of Worker.mu, every call of a channel and every sleep  *)
(* is a step of its own.  How long a call or a sleep takes is left open.   *)
(***************************************************************************)
EXTENDS Integers, Sequences, FiniteSets

CONSTANTS
  RuleIDs,        \* rule IDs alerts carry; "alert-storm" may be one of them
  QueueSize, Limit, StormFor,   \* Config
  Minute,         \* the span the rate limit counts over
  NumChannels,    \* len(MultiNotifier)
  Retries,        \* len(RetryDelays)
  MaxTime,        \* bound on the clock
  MaxAlerts       \* bound on the alerts submitted

ASSUME ConfigAssumption ==
  /\ QueueSize \in Nat \ {0} /\ Limit \in Nat \ {0} /\ StormFor \in Nat
  /\ Minute \in Nat \ {0}
  /\ NumChannels \in Nat /\ Retries \in Nat
ASSUME BoundsAssumption == MaxTime \in Nat /\ MaxAlerts \in Nat

VARIABLES
  now,        \* Clock
  queue,      \* Worker.queue
  closed,     \* Worker.closed, and the queue is closed
  cancelled,  \* the worker's context
  recent,     \* Worker.recent
  stormAt,    \* Worker.stormAt; -StormFor stands for the zero time
  stats,      \* Worker.stats
  worker,     \* the goroutine of run: where it stands
  current,    \* the alert run has taken from the queue
  senders,    \* the deliveries under way: 0 is run's, the others are storms'
  closer,     \* the goroutine in Close
  submitted,  \* history: number of alerts handed to Submit
  admitted,   \* history: when allow said yes
  storms      \* history: when allow started a storm alert

configVars == <<now, closed, cancelled>>
limitVars == <<recent, stormAt, admitted, storms>>
vars == <<now, queue, closed, cancelled, recent, stormAt, stats, worker, current,
          senders, closer, submitted, admitted, storms>>

Senders == 0 .. MaxAlerts
Channels == 1 .. NumChannels
NoAlert == "none"
Idle == [active |-> FALSE, channel |-> 1, attempt |-> 0, sleeping |-> FALSE,
         ok |-> TRUE, accepted |-> {}]

Delivery == [active : BOOLEAN, channel : 1 .. NumChannels + 1, attempt : 0 .. Retries,
             sleeping : BOOLEAN, ok : BOOLEAN, accepted : SUBSET Channels]

(* RateLimited says of recent, admitted and storms what there is to say.   *)
TypeOK ==
  /\ now \in 0 .. MaxTime
  /\ queue \in Seq(RuleIDs) /\ Len(queue) <= QueueSize
  /\ closed \in BOOLEAN /\ cancelled \in BOOLEAN
  /\ submitted \in Nat
  /\ stats \in [sent : Nat, failed : Nat, dropped : Nat, storms : Nat]
  /\ worker \in {"range", "check", "allow", "send", "drained", "exited"}
  /\ current \in RuleIDs \cup {NoAlert}
  /\ senders \in [Senders -> Delivery]
  /\ closer \in {"open", "waiting", "cancelling", "returned"}

Init ==
  /\ now = 0
  /\ queue = <<>>
  /\ closed = FALSE
  /\ cancelled = FALSE
  /\ recent = <<>>
  /\ stormAt = -StormFor
  /\ stats = [sent |-> 0, failed |-> 0, dropped |-> 0, storms |-> 0]
  /\ worker = "range"
  /\ current = NoAlert
  /\ senders = [s \in Senders |-> Idle]
  /\ closer = "open"
  /\ submitted = 0
  /\ admitted = <<>>
  /\ storms = <<>>

Tick ==
  /\ now < MaxTime
  /\ now' = now + 1
  /\ UNCHANGED <<queue, closed, cancelled, limitVars, stats, worker, current, senders,
                 closer, submitted>>

(* Submit never blocks: a closed worker or a full queue drops the alert.   *)
Submit(alert) ==
  /\ submitted < MaxAlerts
  /\ submitted' = submitted + 1
  /\ IF closed \/ Len(queue) = QueueSize
     THEN stats' = [stats EXCEPT !.dropped = @ + 1] /\ UNCHANGED queue
     ELSE queue' = Append(queue, alert) /\ UNCHANGED stats
  /\ UNCHANGED <<configVars, limitVars, worker, current, senders, closer>>

-----------------------------------------------------------------------------
(* run: range over the queue.                                              *)

Dequeue ==
  /\ worker = "range"
  /\ queue # <<>>
  /\ current' = Head(queue)
  /\ queue' = Tail(queue)
  /\ worker' = "check"
  /\ UNCHANGED <<configVars, limitVars, stats, senders, closer, submitted>>

(* Definitions named Bad... are faulty variants used to test properties.   *)
BadCheckContext ==
  /\ worker = "check"
  /\ IF cancelled
     THEN worker' = "range" /\ current' = NoAlert
     ELSE worker' = "allow" /\ UNCHANGED current
  /\ UNCHANGED <<configVars, queue, limitVars, stats, senders, closer, submitted>>

(* ctx.Err(): what is left after a cancelled Close is dropped.             *)
CheckContext ==
  /\ worker = "check"
  /\ IF cancelled
     THEN /\ stats' = [stats EXCEPT !.dropped = @ + 1]
          /\ worker' = "range"
          /\ current' = NoAlert
     ELSE worker' = "allow" /\ UNCHANGED <<stats, current>>
  /\ UNCHANGED <<configVars, queue, limitVars, senders, closer, submitted>>

NewDelivery == [Idle EXCEPT !.active = TRUE]

BadInLastMinute(at) == at > now - Minute

InLastMinute(at) == at >= now - Minute

(* allow's loop over recent keeps the times of the last minute.            *)
Kept ==
  LET kept[i \in 0 .. Len(recent)] ==
        IF i = 0 THEN <<>>
        ELSE IF InLastMinute(recent[i]) THEN Append(kept[i - 1], recent[i])
        ELSE kept[i - 1]
  IN kept[Len(recent)]

(* allow: admit, drop, or drop and start the goroutine of a storm alert.   *)
Admit ==
  /\ worker = "allow"
  /\ Len(Kept) < Limit
  /\ recent' = Append(Kept, now)
  /\ admitted' = Append(admitted, now)
  /\ senders' = [senders EXCEPT ![0] = NewDelivery]
  /\ worker' = "send"
  /\ UNCHANGED <<configVars, queue, stormAt, stats, current, closer, submitted, storms>>

StormQuiet == current = "alert-storm" \/ (StormFor > 0 /\ now < stormAt + StormFor)

Refuse ==
  /\ worker = "allow"
  /\ Len(Kept) >= Limit
  /\ recent' = Kept
  /\ IF StormQuiet
     THEN /\ stats' = [stats EXCEPT !.dropped = @ + 1]
          /\ UNCHANGED <<stormAt, senders, storms>>
     ELSE /\ stats' = [stats EXCEPT !.dropped = @ + 1, !.storms = @ + 1]
          /\ stormAt' = now
          /\ storms' = Append(storms, now)
          /\ \E s \in Senders \ {0} :
               /\ ~senders[s].active
               /\ \A r \in 1 .. s - 1 : senders[r].active
               /\ senders' = [senders EXCEPT ![s] = NewDelivery]
  /\ worker' = "range"
  /\ current' = NoAlert
  /\ UNCHANGED <<configVars, queue, closer, submitted, admitted>>

BadRangeEnds ==
  /\ worker = "range"
  /\ cancelled /\ queue = <<>>
  /\ worker' = "drained"
  /\ UNCHANGED <<configVars, queue, limitVars, stats, current, senders, closer, submitted>>

(* The queue is closed and empty; then stormWG.Wait and close(done).       *)
RangeEnds ==
  /\ worker = "range"
  /\ closed /\ queue = <<>>
  /\ worker' = "drained"
  /\ UNCHANGED <<configVars, queue, limitVars, stats, current, senders, closer, submitted>>

Exit ==
  /\ worker = "drained"
  /\ \A s \in Senders : ~senders[s].active
  /\ worker' = "exited"
  /\ UNCHANGED <<configVars, queue, limitVars, stats, current, senders, closer, submitted>>

-----------------------------------------------------------------------------
(* A delivery: MultiNotifier.NotifyWithRetries, channel after channel.     *)

InCall(s) == senders[s].active /\ senders[s].channel \in Channels /\ ~senders[s].sleeping

deliveryFrame == <<configVars, queue, limitVars, closer, submitted>>

NotifyAccepted(s) ==
  /\ InCall(s)
  /\ senders' = [senders EXCEPT ![s].accepted = @ \cup {senders[s].channel},
                                ![s].channel = @ + 1,
                                ![s].attempt = 0]
  /\ UNCHANGED <<deliveryFrame, stats, worker, current>>

GiveUp(d) == [d EXCEPT !.ok = FALSE, !.channel = @ + 1, !.attempt = 0, !.sleeping = FALSE]

BadNotifyFails(s) ==
  /\ InCall(s)
  /\ senders' = [senders EXCEPT ![s] = IF @.attempt = Retries
                                       THEN GiveUp(@)
                                       ELSE [@ EXCEPT !.sleeping = TRUE, !.channel = 1]]
  /\ UNCHANGED <<deliveryFrame, stats, worker, current>>

NotifyFails(s) ==
  /\ InCall(s)
  /\ senders' = [senders EXCEPT ![s] = IF @.attempt = Retries
                                       THEN GiveUp(@)
                                       ELSE [@ EXCEPT !.sleeping = TRUE]]
  /\ UNCHANGED <<deliveryFrame, stats, worker, current>>

(* sleep: the timer, or the context when it is cancelled.                  *)
SleepEnds(s) ==
  /\ senders[s].sleeping
  /\ senders' = [senders EXCEPT ![s].sleeping = FALSE, ![s].attempt = @ + 1]
  /\ UNCHANGED <<deliveryFrame, stats, worker, current>>

SleepCancelled(s) ==
  /\ senders[s].sleeping
  /\ cancelled
  /\ senders' = [senders EXCEPT ![s] = GiveUp(@)]
  /\ UNCHANGED <<deliveryFrame, stats, worker, current>>

(* send has returned: run and sendStorm count the outcome.                 *)
Delivered(s) ==
  /\ senders[s].active
  /\ senders[s].channel \notin Channels
  /\ stats' = IF senders[s].ok THEN [stats EXCEPT !.sent = @ + 1]
                               ELSE [stats EXCEPT !.failed = @ + 1]
  /\ senders' = [senders EXCEPT ![s] = Idle]
  /\ worker' = IF s = 0 THEN "range" ELSE worker
  /\ current' = IF s = 0 THEN NoAlert ELSE current
  /\ UNCHANGED deliveryFrame

-----------------------------------------------------------------------------
(* Close(ctx).                                                             *)

CloseBegin ==
  /\ closer = "open"
  /\ closed' = TRUE
  /\ closer' = "waiting"
  /\ UNCHANGED <<now, queue, cancelled, limitVars, stats, worker, current, senders, submitted>>

CloseExpires ==
  /\ closer = "waiting"
  /\ cancelled' = TRUE
  /\ closer' = "cancelling"
  /\ UNCHANGED <<now, queue, closed, limitVars, stats, worker, current, senders, submitted>>

CloseEnds ==
  /\ closer \in {"waiting", "cancelling"}
  /\ worker = "exited"
  /\ closer' = "returned"
  /\ UNCHANGED <<configVars, queue, limitVars, stats, worker, current, senders, submitted>>

Run == Dequeue \/ CheckContext \/ Admit \/ Refuse \/ RangeEnds \/ Exit

Deliver(s) ==
  \/ NotifyAccepted(s) \/ NotifyFails(s)
  \/ SleepEnds(s) \/ SleepCancelled(s)
  \/ Delivered(s)

Next ==
  \/ Tick
  \/ \E alert \in RuleIDs : Submit(alert)
  \/ Run
  \/ \E s \in Senders : Deliver(s)
  \/ CloseBegin \/ CloseExpires \/ CloseEnds

(* Goroutines are scheduled, channel calls return and timers fire.  Nobody *)
(* has to submit, to close, or to let the context of Close expire.  It is  *)
(* enough that some delivery moves: each one ends after its retries.       *)
Fairness ==
  /\ WF_vars(Run)
  /\ WF_vars(\E s \in Senders : Deliver(s))
  /\ WF_vars(CloseEnds)

Spec == Init /\ [][Next]_vars /\ Fairness

-----------------------------------------------------------------------------
(* Properties                                                              *)

Storming == { s \in Senders \ {0} : senders[s].active }

Held == (IF worker \in {"check", "allow", "send"} THEN 1 ELSE 0) + Cardinality(Storming)

\* Every alert handed to Submit and every storm alert is counted exactly once:
\* as sent, failed or dropped, or it is still queued or in the hands of run or
\* of a storm goroutine.  When Close has returned nothing is queued or in anybody's
\* hands any more, and the counts are final.
Accounted ==
  /\ submitted + stats.storms =
       stats.sent + stats.failed + stats.dropped + Len(queue) + Held
  /\ closer = "returned" => Len(queue) + Held = 0

\* No closed minute sees more than max_alerts_per_minute alerts admitted, however
\* allow's calls fall on its boundaries, and storm alerts, which are not counted
\* there, are at least storm_cooldown apart.
RateLimited ==
  /\ \A i \in 1 .. Len(admitted) - Limit : admitted[i + Limit] - admitted[i] > Minute
  /\ \A i \in 1 .. Len(storms) - 1 : storms[i + 1] - storms[i] >= StormFor

\* NotifyWithRetries' comment: a channel that has accepted an alert is never
\* called again for it; and a delivery counts as sent only if all accepted.
AcceptedOnce ==
  \A s \in Senders :
    LET d == senders[s]
    IN /\ d.channel \notin d.accepted
       /\ d.ok <=> 1 .. d.channel - 1 \subseteq d.accepted

\* Close returns, with or without its context expiring, whatever the channels
\* answer.
CloseReturns == (closer = "waiting") ~> (closer = "returned")
=============================================================================
