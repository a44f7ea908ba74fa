------------------------- MODULE NotifyWorkerProofs -------------------------
(***************************************************************************)
(* Proofs about NotifyWorker.tla, for every size of the queue, every       *)
(* number of channels, retries and alerts.                                 *)
(***************************************************************************)
EXTENDS NotifyWorker, FiniteSetTheorems, WellFoundedInduction, NaturalsInduction,
        SequenceTheorems, TLAPS

USE ConfigAssumption, BoundsAssumption

-----------------------------------------------------------------------------
(* One delivery: channels before the current one have been asked, and the  *)
(* outcome is good as long as they have all accepted.                      *)

DeliveryInv(d) ==
  /\ d.accepted \subseteq 1 .. d.channel - 1
  /\ d.ok <=> 1 .. d.channel - 1 \subseteq d.accepted
  /\ d.sleeping => d.channel \in Channels /\ d.attempt < Retries

LEMMA DeliveryFields ==
  ASSUME NEW d \in Delivery
  PROVE  /\ d.active \in BOOLEAN /\ d.sleeping \in BOOLEAN /\ d.ok \in BOOLEAN
         /\ d.channel \in 1 .. NumChannels + 1 /\ d.attempt \in 0 .. Retries
         /\ d.accepted \in SUBSET Channels
BY DEF Delivery

LEMMA FreshDelivery ==
  /\ Idle \in Delivery /\ DeliveryInv(Idle) /\ ~Idle.active
  /\ NewDelivery \in Delivery /\ DeliveryInv(NewDelivery) /\ NewDelivery.active
<1>1. 1 \in 1 .. NumChannels + 1 /\ 0 \in 0 .. Retries /\ {} \in SUBSET Channels
  OBVIOUS
<1>2. Idle \in Delivery
  BY <1>1, Zenon DEF Idle, Delivery
<1>3. /\ NewDelivery.active /\ ~NewDelivery.sleeping /\ NewDelivery.ok
      /\ NewDelivery.channel = 1 /\ NewDelivery.accepted = {}
  BY DEF NewDelivery, Idle
<1>4. NewDelivery \in Delivery
  BY <1>2, Zenon DEF Delivery, NewDelivery
<1>5. 1 .. 1 - 1 = {}
  OBVIOUS
<1> QED
  BY <1>2, <1>3, <1>4, <1>5 DEF Idle, DeliveryInv

\* NotifyWithRetries: a channel accepts.
LEMMA AcceptedDelivery ==
  ASSUME NEW d \in Delivery, DeliveryInv(d), ~d.sleeping, d.channel \in Channels
  PROVE  LET e == [d EXCEPT !.accepted = d.accepted \cup {d.channel},
                            !.channel = d.channel + 1, !.attempt = 0]
         IN e \in Delivery /\ DeliveryInv(e) /\ e.active = d.active
<1> DEFINE e == [d EXCEPT !.accepted = d.accepted \cup {d.channel},
                          !.channel = d.channel + 1, !.attempt = 0]
<1>1. e.accepted = d.accepted \cup {d.channel} /\ e.channel = d.channel + 1
      /\ e.active = d.active /\ e.ok = d.ok /\ e.sleeping = d.sleeping
  BY DEF Delivery
<1>2. e \in Delivery
  <2>1. /\ d.accepted \cup {d.channel} \in SUBSET Channels
        /\ d.channel + 1 \in 1 .. NumChannels + 1 /\ 0 \in 0 .. Retries
    BY DeliveryFields DEF Channels
  <2> QED
    BY <2>1, Zenon DEF Delivery
<1> HIDE DEF e
<1>3. DeliveryInv(e)
  BY <1>1, DeliveryFields DEF DeliveryInv, Channels
<1> QED
  BY <1>1, <1>2, <1>3 DEF e

\* NotifyWithRetries: a channel is given up, after its retries or by the context.
LEMMA GivenUpDelivery ==
  ASSUME NEW d \in Delivery, DeliveryInv(d), d.channel \in Channels
  PROVE  GiveUp(d) \in Delivery /\ DeliveryInv(GiveUp(d)) /\ GiveUp(d).active = d.active
<1>1. /\ GiveUp(d).accepted = d.accepted /\ GiveUp(d).channel = d.channel + 1
      /\ GiveUp(d).active = d.active /\ GiveUp(d).ok = FALSE /\ GiveUp(d).sleeping = FALSE
  BY DEF Delivery, GiveUp
<1>2. GiveUp(d) \in Delivery
  <2>1. d.channel + 1 \in 1 .. NumChannels + 1 /\ 0 \in 0 .. Retries
    BY DeliveryFields DEF Channels
  <2>2. GiveUp(d) = [d EXCEPT !.ok = FALSE, !.channel = d.channel + 1, !.attempt = 0,
                              !.sleeping = FALSE]
    BY DEF GiveUp, Delivery
  <2> QED
    BY <2>1, <2>2, Zenon DEF Delivery
<1>3. DeliveryInv(GiveUp(d))
  BY <1>1, DeliveryFields DEF DeliveryInv, Channels
<1> QED
  BY <1>1, <1>2, <1>3

\* The pause before a retry begins.
LEMMA SleepingDelivery ==
  ASSUME NEW d \in Delivery, DeliveryInv(d), d.channel \in Channels, d.attempt # Retries
  PROVE  LET e == [d EXCEPT !.sleeping = TRUE]
         IN e \in Delivery /\ DeliveryInv(e) /\ e.active = d.active
<1> DEFINE e == [d EXCEPT !.sleeping = TRUE]
<1>1. e \in Delivery
  BY Zenon DEF Delivery
<1>2. /\ e.accepted = d.accepted /\ e.channel = d.channel /\ e.attempt = d.attempt
      /\ e.active = d.active /\ e.ok = d.ok
  BY DEF Delivery
<1> HIDE DEF e
<1>3. DeliveryInv(e)
  BY <1>2, DeliveryFields DEF DeliveryInv
<1> QED
  BY <1>1, <1>2, <1>3 DEF e

\* The pause before a retry ends.
LEMMA WokenDelivery ==
  ASSUME NEW d \in Delivery, DeliveryInv(d), d.sleeping
  PROVE  LET e == [d EXCEPT !.sleeping = FALSE, !.attempt = d.attempt + 1]
         IN e \in Delivery /\ DeliveryInv(e) /\ e.active = d.active
<1> DEFINE e == [d EXCEPT !.sleeping = FALSE, !.attempt = d.attempt + 1]
<1>1. d.attempt + 1 \in 0 .. Retries
  BY DeliveryFields DEF DeliveryInv
<1>2. e \in Delivery
  BY <1>1, Zenon DEF Delivery
<1>3. /\ e.accepted = d.accepted /\ e.channel = d.channel /\ e.sleeping = FALSE
      /\ e.active = d.active /\ e.ok = d.ok
  BY DEF Delivery
<1> HIDE DEF e
<1>4. DeliveryInv(e)
  BY <1>3 DEF DeliveryInv
<1> QED
  BY <1>2, <1>3, <1>4 DEF e

-----------------------------------------------------------------------------
(* The deliveries under way.                                               *)

SendersInv == senders \in [Senders -> Delivery] /\ \A s \in Senders : DeliveryInv(senders[s])

LEMMA StormingFinite == IsFiniteSet(Storming) /\ Cardinality(Storming) \in Nat
<1>1. IsFiniteSet(Senders)
  BY FS_Interval DEF Senders
<1>2. IsFiniteSet(Storming)
  BY <1>1, FS_Subset DEF Storming
<1> QED
  BY <1>2, FS_CardinalityType

\* A delivery that keeps going changes nobody else.
LEMMA SenderMoves ==
  ASSUME SendersInv, NEW s \in Senders, NEW d \in Delivery, DeliveryInv(d),
         senders' = [senders EXCEPT ![s] = d]
  PROVE  /\ SendersInv'
         /\ d.active = senders[s].active => /\ Storming' = Storming
                                            /\ senders'[0].active = senders[0].active
<1>1. SendersInv'
  BY DEF SendersInv, Senders
<1>2. 0 \in Senders
  BY DEF Senders
<1>3. d.active = senders[s].active =>
        \A r \in Senders : senders'[r].active = senders[r].active
  BY DEF SendersInv
<1> QED
  BY <1>1, <1>2, <1>3 DEF Storming, Senders

\* A storm alert begins.
LEMMA StormBegins ==
  ASSUME SendersInv, NEW s \in Senders \ {0}, ~senders[s].active,
         senders' = [senders EXCEPT ![s] = NewDelivery]
  PROVE  /\ SendersInv'
         /\ Cardinality(Storming') = Cardinality(Storming) + 1
         /\ senders'[0] = senders[0]
<1>1. SendersInv'
  BY FreshDelivery, SenderMoves, Zenon
<1>2. Storming' = Storming \cup {s}
  BY FreshDelivery DEF Storming, Senders, SendersInv
<1>3. s \notin Storming
  BY DEF Storming
<1>4. senders'[0] = senders[0]
  BY DEF SendersInv, Senders
<1> QED
  BY <1>1, <1>2, <1>3, <1>4, StormingFinite, FS_AddElement, Zenon

\* A storm alert has been delivered.
LEMMA StormEnds ==
  ASSUME SendersInv, NEW s \in Senders \ {0}, senders[s].active,
         senders' = [senders EXCEPT ![s] = Idle]
  PROVE  /\ SendersInv'
         /\ Cardinality(Storming') = Cardinality(Storming) - 1
         /\ senders'[0] = senders[0]
<1>1. SendersInv'
  BY FreshDelivery, SenderMoves, Zenon
<1>2. Storming' = Storming \ {s}
  BY FreshDelivery DEF Storming, Senders, SendersInv
<1>3. s \in Storming
  BY DEF Storming
<1>4. senders'[0] = senders[0]
  BY DEF SendersInv, Senders
<1> QED
  BY <1>1, <1>2, <1>3, <1>4, StormingFinite, FS_RemoveElement, Zenon

\* run's own delivery begins or ends.
LEMMA OwnDelivery ==
  ASSUME SendersInv, NEW d \in {Idle, NewDelivery}, senders' = [senders EXCEPT ![0] = d]
  PROVE  SendersInv' /\ Storming' = Storming /\ senders'[0] = d
<1>1. 0 \in Senders
  BY DEF Senders
<1>2. SendersInv'
  BY <1>1, FreshDelivery, SenderMoves, Zenon
<1> QED
  BY <1>1, <1>2 DEF Storming, Senders, SendersInv

-----------------------------------------------------------------------------
(* The worker: where run stands is tied to its delivery, to the queue and  *)
(* to Close, so that nothing is left when Close returns.                   *)

Stage ==
  /\ worker \in {"range", "check", "allow", "send", "drained", "exited"}
  /\ closer \in {"open", "waiting", "cancelling", "returned"}
  /\ closed \in BOOLEAN /\ cancelled \in BOOLEAN
  /\ closed <=> closer # "open"
  /\ senders[0].active <=> worker = "send"
  /\ worker \in {"drained", "exited"} => closed /\ queue = <<>>
  /\ worker = "exited" => Storming = {}
  /\ closer = "returned" => worker = "exited"

Stats == [sent : Nat, failed : Nat, dropped : Nat, storms : Nat]

Total == stats.sent + stats.failed + stats.dropped

Count ==
  /\ stats \in Stats /\ submitted \in Nat
  /\ submitted + stats.storms = Total + Len(queue) + Held

Data ==
  /\ now \in 0 .. MaxTime
  /\ queue \in Seq(RuleIDs) /\ Len(queue) <= QueueSize
  /\ current \in RuleIDs \cup {NoAlert}

WInv == SendersInv /\ Stage /\ Count /\ Data

LEMMA WInvInit == Init => WInv
<1> SUFFICES ASSUME Init PROVE WInv
  OBVIOUS
<1>1. SendersInv
  BY FreshDelivery DEF Init, SendersInv
<1>2. Storming = {} /\ ~senders[0].active
  BY FreshDelivery DEF Init, Storming, Senders
<1>3. Cardinality(Storming) = 0
  BY <1>2, FS_EmptySet
<1>4. Stage
  BY <1>2, Zenon DEF Init, Stage
<1>5. Count
  BY <1>3 DEF Init, Count, Held, Stats, Total
<1>6. Data
  BY DEF Init, Data
<1> QED
  BY <1>1, <1>4, <1>5, <1>6 DEF WInv

\* The counters move by one.
LEMMA StatsMove ==
  ASSUME stats \in Stats, stats' \in Stats,
         \/ stats' = [stats EXCEPT !.sent = @ + 1]
         \/ stats' = [stats EXCEPT !.failed = @ + 1]
         \/ stats' = [stats EXCEPT !.dropped = @ + 1]
  PROVE  /\ Total \in Nat /\ stats.storms \in Nat
         /\ Total' = Total + 1 /\ stats'.storms = stats.storms
BY DEF Stats, Total

LEMMA StatsStorm ==
  ASSUME stats \in Stats, stats' = [stats EXCEPT !.dropped = @ + 1, !.storms = @ + 1]
  PROVE  /\ stats' \in Stats /\ Total \in Nat /\ stats.storms \in Nat
         /\ Total' = Total + 1 /\ stats'.storms = stats.storms + 1
<1>1. /\ stats.sent \in Nat /\ stats.failed \in Nat /\ stats.dropped \in Nat
      /\ stats.storms \in Nat
  BY DEF Stats
<1>2. stats.dropped + 1 \in Nat /\ stats.storms + 1 \in Nat
  BY <1>1
<1>3. stats' = [stats EXCEPT !.dropped = stats.dropped + 1, !.storms = stats.storms + 1]
  BY DEF Stats
<1>4. stats' \in Stats
  BY <1>2, <1>3, Zenon DEF Stats
<1>5. /\ stats'.sent = stats.sent /\ stats'.failed = stats.failed
      /\ stats'.dropped = stats.dropped + 1 /\ stats'.storms = stats.storms + 1
  BY <1>3 DEF Stats
<1> QED
  BY <1>1, <1>4, <1>5 DEF Total

LEMMA StatsTypes ==
  ASSUME stats \in Stats
  PROVE  /\ Total \in Nat /\ stats.storms \in Nat
         /\ [stats EXCEPT !.dropped = @ + 1] \in Stats
         /\ [stats EXCEPT !.sent = @ + 1] \in Stats
         /\ [stats EXCEPT !.failed = @ + 1] \in Stats
<1>1. /\ stats.sent \in Nat /\ stats.failed \in Nat /\ stats.dropped \in Nat
      /\ stats.storms \in Nat
  BY DEF Stats
<1>2. stats.sent + 1 \in Nat /\ stats.failed + 1 \in Nat /\ stats.dropped + 1 \in Nat
  BY <1>1
<1>3. [stats EXCEPT !.dropped = @ + 1] \in Stats
  BY <1>2, Zenon DEF Stats
<1>4. [stats EXCEPT !.sent = @ + 1] \in Stats
  BY <1>2, Zenon DEF Stats
<1>5. [stats EXCEPT !.failed = @ + 1] \in Stats
  BY <1>2, Zenon DEF Stats
<1>6. Total \in Nat
  BY <1>1 DEF Total
<1> QED
  BY <1>1, <1>3, <1>4, <1>5, <1>6, Zenon

\* Steps that move neither an alert nor a delivery.
LEMMA IdleStep ==
  ASSUME WInv, UNCHANGED <<queue, stats, senders, submitted, current>>,
         now' \in 0 .. MaxTime, worker' = worker, Stage'
  PROVE  WInv'
<1>1. Storming' = Storming
  BY DEF Storming, Senders
<1>2. Held' = Held
  BY <1>1 DEF Held
<1>3. SendersInv'
  BY DEF WInv, SendersInv, Senders
<1>4. Count'
  BY <1>2 DEF WInv, Count, Total
<1>5. Data'
  BY DEF WInv, Data
<1> QED
  BY <1>3, <1>4, <1>5 DEF WInv

\* Submit counts the alert as dropped or queues it.
LEMMA SubmitWInv == ASSUME WInv, NEW alert \in RuleIDs, Submit(alert) PROVE WInv'
<1>1. /\ UNCHANGED <<now, closed, cancelled, worker, current, senders, closer>>
      /\ submitted' = submitted + 1
  BY DEF Submit, configVars
<1>2. Storming' = Storming /\ SendersInv'
  BY <1>1 DEF WInv, SendersInv, Storming, Senders
<1>3. Held' = Held
  BY <1>1, <1>2 DEF Held
<1>4. Held \in Nat
  BY StormingFinite DEF Held
<1>5. CASE closed \/ Len(queue) = QueueSize
  <2>1. stats' = [stats EXCEPT !.dropped = @ + 1] /\ queue' = queue
    BY <1>5 DEF Submit
  <2>2. Count'
    <3>1. stats \in Stats /\ stats' \in Stats /\ Len(queue) \in Nat
      BY <2>1, StatsTypes DEF WInv, Count, Data
    <3>2. /\ Total \in Nat /\ stats.storms \in Nat
          /\ Total' = Total + 1 /\ stats'.storms = stats.storms
      BY <2>1, <3>1, StatsMove
    <3>3. /\ submitted \in Nat
          /\ submitted + stats.storms = Total + Len(queue) + Held
          /\ Len(queue') = Len(queue)
      BY <2>1 DEF WInv, Count
    <3>4. submitted' \in Nat /\ submitted' + stats'.storms = Total' + Len(queue') + Held'
      BY <1>1, <1>3, <1>4, <3>1, <3>2, <3>3
    <3> QED
      BY <3>1, <3>4 DEF Count
  <2> QED
    BY <1>1, <1>2, <2>1, <2>2 DEF WInv, Stage, Data
<1>6. CASE ~(closed \/ Len(queue) = QueueSize)
  <2>1. stats' = stats /\ queue' = Append(queue, alert)
    BY <1>6 DEF Submit
  <2>2. queue' \in Seq(RuleIDs) /\ Len(queue') = Len(queue) + 1 /\ Len(queue') <= QueueSize
    BY <1>6, <2>1 DEF WInv, Data
  <2>3. Count'
    <3>1. Total' = Total /\ Len(queue) \in Nat
      BY <2>1 DEF Total, WInv, Data
    <3>2. /\ stats \in Stats /\ submitted \in Nat
          /\ submitted + stats.storms = Total + Len(queue) + Held
      BY DEF WInv, Count
    <3>3. Total \in Nat /\ stats.storms \in Nat /\ stats'.storms = stats.storms
      BY <2>1, <3>2, StatsTypes
    <3>4. submitted' \in Nat /\ submitted' + stats'.storms = Total' + Len(queue') + Held'
      BY <1>1, <1>3, <1>4, <2>2, <3>1, <3>2, <3>3
    <3> QED
      BY <2>1, <3>2, <3>4 DEF Count
  <2>4. Stage'
    BY <1>1, <1>2, <1>6 DEF WInv, Stage
  <2> QED
    BY <1>1, <1>2, <2>2, <2>3, <2>4 DEF WInv, Data
<1> QED
  BY <1>5, <1>6

\* run takes an alert from the queue.
LEMMA DequeueWInv == ASSUME WInv, Dequeue PROVE WInv'
<1>1. /\ UNCHANGED <<now, closed, cancelled, stats, senders, closer, submitted>>
      /\ worker = "range" /\ worker' = "check"
      /\ queue # <<>> /\ queue' = Tail(queue) /\ current' = Head(queue)
  BY DEF Dequeue, configVars
<1>2. Storming' = Storming /\ SendersInv'
  BY <1>1 DEF WInv, SendersInv, Storming, Senders
<1>3. /\ queue' \in Seq(RuleIDs) /\ Len(queue') = Len(queue) - 1 /\ Len(queue) \in Nat
      /\ current' \in RuleIDs
  BY <1>1 DEF WInv, Data
<1>4. Held' = Held + 1 /\ Held \in Nat
  BY <1>1, <1>2, StormingFinite DEF Held
<1>5. Count'
  <2>1. Total' = Total
    BY <1>1 DEF Total
  <2> QED
    BY <1>1, <1>3, <1>4, <2>1, StatsTypes DEF WInv, Count
<1>6. Stage'
  BY <1>1, <1>2 DEF WInv, Stage
<1> QED
  BY <1>1, <1>2, <1>3, <1>5, <1>6 DEF WInv, Data

\* run drops the alert, or goes on to allow.
LEMMA CheckContextWInv == ASSUME WInv, CheckContext PROVE WInv'
<1>1. /\ UNCHANGED <<now, closed, cancelled, queue, senders, closer, submitted>>
      /\ worker = "check"
  BY DEF CheckContext, configVars
<1>2. Storming' = Storming /\ SendersInv'
  BY <1>1 DEF WInv, SendersInv, Storming, Senders
<1>3. Cardinality(Storming) \in Nat /\ Len(queue) \in Nat
  BY StormingFinite DEF WInv, Data
<1>4. CASE cancelled
  <2>1. /\ stats' = [stats EXCEPT !.dropped = @ + 1]
        /\ worker' = "range" /\ current' = NoAlert
    BY <1>4 DEF CheckContext
  <2>2. Held = 1 + Cardinality(Storming) /\ Held' = Cardinality(Storming)
    BY <1>1, <1>2, <1>3, <2>1 DEF Held
  <2>3. Count'
    <3>1. stats \in Stats /\ stats' \in Stats
      BY <2>1, StatsTypes DEF WInv, Count
    <3>2. /\ Total \in Nat /\ stats.storms \in Nat
          /\ Total' = Total + 1 /\ stats'.storms = stats.storms
      BY <2>1, <3>1, StatsMove
    <3> QED
      BY <1>1, <1>3, <2>2, <3>1, <3>2 DEF WInv, Count
  <2>4. Stage'
    BY <1>1, <1>2, <2>1 DEF WInv, Stage
  <2> QED
    BY <1>1, <1>2, <2>1, <2>3, <2>4 DEF WInv, Data
<1>5. CASE ~cancelled
  <2>1. worker' = "allow" /\ UNCHANGED <<stats, current>>
    BY <1>5 DEF CheckContext
  <2>2. Held' = Held
    BY <1>1, <1>2, <2>1 DEF Held
  <2>3. Count'
    BY <1>1, <2>1, <2>2 DEF WInv, Count, Total
  <2>4. Stage'
    BY <1>1, <1>2, <2>1 DEF WInv, Stage
  <2> QED
    BY <1>1, <1>2, <2>1, <2>3, <2>4 DEF WInv, Data
<1> QED
  BY <1>4, <1>5

\* allow admits the alert, which run then delivers.
LEMMA AdmitWInv == ASSUME WInv, Admit PROVE WInv'
<1>1. /\ UNCHANGED <<now, closed, cancelled, queue, stats, current, closer, submitted>>
      /\ worker = "allow" /\ worker' = "send"
      /\ senders' = [senders EXCEPT ![0] = NewDelivery]
  BY DEF Admit, configVars
<1>2. Storming' = Storming /\ SendersInv' /\ senders'[0].active
  BY <1>1, OwnDelivery, FreshDelivery DEF WInv
<1>3. Held' = Held
  BY <1>1, <1>2 DEF Held
<1>4. Count'
  BY <1>1, <1>3 DEF WInv, Count, Total
<1>5. Stage'
  BY <1>1, <1>2 DEF WInv, Stage
<1> QED
  BY <1>1, <1>2, <1>4, <1>5 DEF WInv, Data

\* allow drops the alert, with or without a storm alert in its place.
LEMMA RefuseWInv == ASSUME WInv, Refuse PROVE WInv'
<1>1. /\ UNCHANGED <<now, closed, cancelled, queue, closer, submitted>>
      /\ worker = "allow" /\ worker' = "range" /\ current' = NoAlert
  BY DEF Refuse, configVars
<1>2. Cardinality(Storming) \in Nat /\ Len(queue) \in Nat
  BY StormingFinite DEF WInv, Data
<1>3. Held = 1 + Cardinality(Storming) /\ Held' = 0 + Cardinality(Storming')
  BY <1>1 DEF Held
<1>4. CASE StormQuiet
  <2>1. stats' = [stats EXCEPT !.dropped = @ + 1] /\ senders' = senders
    BY <1>4 DEF Refuse
  <2>2. Storming' = Storming /\ SendersInv'
    BY <2>1 DEF WInv, SendersInv, Storming, Senders
  <2>3. Count'
    <3>1. stats \in Stats /\ stats' \in Stats
      BY <2>1, StatsTypes DEF WInv, Count
    <3>2. /\ Total \in Nat /\ stats.storms \in Nat
          /\ Total' = Total + 1 /\ stats'.storms = stats.storms
      BY <2>1, <3>1, StatsMove
    <3> QED
      BY <1>1, <1>2, <1>3, <2>2, <3>1, <3>2 DEF WInv, Count
  <2>4. Stage'
    BY <1>1, <2>1, <2>2 DEF WInv, Stage
  <2> QED
    BY <1>1, <2>2, <2>3, <2>4 DEF WInv, Data
<1>5. CASE ~StormQuiet
  <2>1. /\ stats' = [stats EXCEPT !.dropped = @ + 1, !.storms = @ + 1]
        /\ \E s \in Senders \ {0} :
             ~senders[s].active /\ senders' = [senders EXCEPT ![s] = NewDelivery]
    BY <1>5 DEF Refuse
  <2>2. /\ SendersInv' /\ Cardinality(Storming') = Cardinality(Storming) + 1
        /\ senders'[0] = senders[0]
    BY <2>1, StormBegins, Zenon DEF WInv
  <2>3. Count'
    <3>1. /\ stats' \in Stats /\ Total \in Nat /\ stats.storms \in Nat
          /\ Total' = Total + 1 /\ stats'.storms = stats.storms + 1
      BY <2>1, StatsStorm DEF WInv, Count
    <3>2. /\ submitted \in Nat
          /\ submitted + stats.storms = Total + Len(queue) + Held
      BY DEF WInv, Count
    <3>3. Held \in Nat /\ Held' = Held
      BY <1>2, <1>3, <2>2
    <3>4. submitted' = submitted /\ Len(queue') = Len(queue)
      BY <1>1
    <3>5. submitted' + stats'.storms = Total' + Len(queue') + Held'
      BY <1>2, <3>1, <3>2, <3>3, <3>4
    <3> QED
      BY <1>1, <3>1, <3>2, <3>5 DEF Count
  <2>4. Stage'
    BY <1>1, <2>2 DEF WInv, Stage
  <2> QED
    BY <1>1, <2>2, <2>3, <2>4 DEF WInv, Data
<1> QED
  BY <1>4, <1>5

\* run leaves its loop, and then waits for the storm alerts.
LEMMA EndWInv == ASSUME WInv, RangeEnds \/ Exit PROVE WInv'
<1>1. /\ UNCHANGED <<now, closed, cancelled, queue, stats, current, senders, closer, submitted>>
      /\ worker \notin {"check", "allow", "send"} /\ worker' \notin {"check", "allow", "send"}
  BY DEF RangeEnds, Exit, configVars
<1>2. Storming' = Storming /\ SendersInv'
  BY <1>1 DEF WInv, SendersInv, Storming, Senders
<1>3. Held' = Held
  BY <1>1, <1>2 DEF Held
<1>4. Count'
  BY <1>1, <1>3 DEF WInv, Count, Total
<1>5. Stage'
  <2>1. CASE RangeEnds
    BY <1>1, <1>2, <2>1 DEF RangeEnds, WInv, Stage
  <2>2. CASE Exit
    <3>1. Storming = {}
      BY <2>2 DEF Exit, Storming
    <3> QED
      BY <1>1, <1>2, <2>2, <3>1 DEF Exit, WInv, Stage
  <2> QED
    BY <2>1, <2>2
<1> QED
  BY <1>1, <1>2, <1>4, <1>5 DEF WInv, Data

\* A delivery goes on: a call returns or a pause ends.
LEMMA DeliverWInv ==
  ASSUME WInv, NEW s \in Senders,
         NotifyAccepted(s) \/ NotifyFails(s) \/ SleepEnds(s) \/ SleepCancelled(s)
  PROVE  WInv'
<1> DEFINE d == senders[s]
<1>1. UNCHANGED <<now, closed, cancelled, queue, closer, submitted, stats, worker, current>>
  BY DEF NotifyAccepted, NotifyFails, SleepEnds, SleepCancelled, deliveryFrame, configVars
<1>2. d \in Delivery /\ DeliveryInv(d) /\ senders \in [Senders -> Delivery]
  BY DEF WInv, SendersInv
<1>3. \E e \in Delivery : /\ DeliveryInv(e) /\ e.active = d.active
                          /\ senders' = [senders EXCEPT ![s] = e]
  <2>1. CASE NotifyAccepted(s)
    <3> DEFINE e == [d EXCEPT !.accepted = d.accepted \cup {d.channel},
                              !.channel = d.channel + 1, !.attempt = 0]
    <3>1. ~d.sleeping /\ d.channel \in Channels
      BY <2>1 DEF NotifyAccepted, InCall
    <3>2. e \in Delivery /\ DeliveryInv(e) /\ e.active = d.active
      BY <1>2, <3>1, AcceptedDelivery, Zenon
    <3>3. senders' = [senders EXCEPT ![s] = e]
      BY <1>2, <2>1, Zenon DEF NotifyAccepted
    <3> QED
      BY <3>2, <3>3, Zenon
  <2>2. CASE NotifyFails(s)
    <3>1. d.channel \in Channels
      BY <2>2 DEF NotifyFails, InCall
    <3>2. CASE d.attempt = Retries
      <4>1. senders' = [senders EXCEPT ![s] = GiveUp(d)]
        BY <2>2, <3>2 DEF NotifyFails
      <4> QED
        BY <1>2, <3>1, <4>1, GivenUpDelivery, Zenon
    <3>3. CASE d.attempt # Retries
      <4> DEFINE e == [d EXCEPT !.sleeping = TRUE]
      <4>1. senders' = [senders EXCEPT ![s] = e]
        BY <2>2, <3>3 DEF NotifyFails
      <4>2. e \in Delivery /\ DeliveryInv(e) /\ e.active = d.active
        BY <1>2, <3>1, <3>3, SleepingDelivery
      <4> QED
        BY <4>1, <4>2, Zenon
    <3> QED
      BY <3>2, <3>3
  <2>3. CASE SleepEnds(s)
    <3> DEFINE e == [d EXCEPT !.sleeping = FALSE, !.attempt = d.attempt + 1]
    <3>1. e \in Delivery /\ DeliveryInv(e) /\ e.active = d.active
      BY <1>2, <2>3, WokenDelivery, Zenon DEF SleepEnds
    <3>2. senders' = [senders EXCEPT ![s] = e]
      BY <1>2, <2>3, Zenon DEF SleepEnds
    <3> QED
      BY <3>1, <3>2, Zenon
  <2>4. CASE SleepCancelled(s)
    <3>1. d.channel \in Channels
      BY <1>2, <2>4 DEF SleepCancelled, DeliveryInv
    <3>2. senders' = [senders EXCEPT ![s] = GiveUp(d)]
      BY <2>4 DEF SleepCancelled
    <3> QED
      BY <1>2, <3>1, <3>2, GivenUpDelivery, Zenon
  <2> QED
    BY <2>1, <2>2, <2>3, <2>4
<1>4. SendersInv' /\ Storming' = Storming /\ senders'[0].active = senders[0].active
  BY <1>3, SenderMoves, Zenon DEF WInv
<1>5. Held' = Held
  BY <1>1, <1>4 DEF Held
<1>6. Count'
  BY <1>1, <1>5 DEF WInv, Count, Total
<1>7. Stage'
  BY <1>1, <1>4 DEF WInv, Stage
<1> QED
  BY <1>1, <1>4, <1>6, <1>7 DEF WInv, Data

\* The outcome of a delivery is counted.
LEMMA DeliveredWInv == ASSUME WInv, NEW s \in Senders, Delivered(s) PROVE WInv'
<1>1. /\ UNCHANGED <<now, closed, cancelled, queue, closer, submitted>>
      /\ senders[s].active /\ senders' = [senders EXCEPT ![s] = Idle]
      /\ worker' = IF s = 0 THEN "range" ELSE worker
      /\ current' = IF s = 0 THEN NoAlert ELSE current
  BY DEF Delivered, deliveryFrame, configVars
<1>2. /\ stats' = [stats EXCEPT !.sent = @ + 1] \/ stats' = [stats EXCEPT !.failed = @ + 1]
      /\ stats \in Stats /\ submitted \in Nat
      /\ submitted + stats.storms = Total + Len(queue) + Held
  BY DEF Delivered, WInv, Count
<1>3. stats' \in Stats
  BY <1>2, StatsTypes, Zenon
<1>4. /\ Total \in Nat /\ stats.storms \in Nat
      /\ Total' = Total + 1 /\ stats'.storms = stats.storms
  BY <1>2, <1>3, StatsMove
<1>5. Cardinality(Storming) \in Nat /\ Len(queue) \in Nat /\ queue' = queue
  BY <1>1, StormingFinite DEF WInv, Data
<1>6. SendersInv' /\ Stage' /\ Held' = Held - 1 /\ Held \in Nat
  <2>1. CASE s = 0
    <3>1. SendersInv' /\ Storming' = Storming /\ senders'[0] = Idle
      BY <1>1, <2>1, OwnDelivery DEF WInv
    <3>2. worker = "send" /\ worker' = "range"
      BY <1>1, <2>1 DEF WInv, Stage
    <3>3. Held' = Held - 1 /\ Held \in Nat
      BY <1>5, <3>1, <3>2 DEF Held
    <3>4. Stage'
      BY <1>1, <3>1, <3>2, FreshDelivery DEF WInv, Stage
    <3> QED
      BY <3>1, <3>3, <3>4
  <2>2. CASE s # 0
    <3>1. /\ SendersInv' /\ Cardinality(Storming') = Cardinality(Storming) - 1
          /\ senders'[0] = senders[0]
      BY <1>1, <2>2, StormEnds, Zenon DEF WInv
    <3>2. worker' = worker
      BY <1>1, <2>2
    <3>3. Held' = Held - 1 /\ Held \in Nat
      BY <1>5, <3>1, <3>2 DEF Held
    <3>4. s \in Storming
      BY <1>1, <2>2 DEF Storming
    <3>5. Stage'
      BY <1>1, <3>1, <3>2, <3>4 DEF WInv, Stage
    <3> QED
      BY <3>1, <3>3, <3>5
  <2> QED
    BY <2>1, <2>2
<1>7. submitted' + stats'.storms = Total' + Len(queue') + Held'
  <2>1. submitted' = submitted
    BY <1>1
  <2> QED
    BY <1>2, <1>4, <1>5, <1>6, <2>1, SMTT(30)
<1>8. Count'
  BY <1>1, <1>2, <1>3, <1>7 DEF Count
<1>9. Data'
  BY <1>1 DEF WInv, Data
<1> QED
  BY <1>6, <1>8, <1>9 DEF WInv

LEMMA WInvNext == WInv /\ [Next]_vars => WInv'
<1> SUFFICES ASSUME WInv, [Next]_vars PROVE WInv'
  OBVIOUS
<1>1. CASE Tick
  <2>1. /\ UNCHANGED <<queue, stats, senders, submitted, current, worker, closed, cancelled, closer>>
        /\ now' \in 0 .. MaxTime
    BY <1>1 DEF Tick, WInv, Data
  <2>2. Stage'
    BY <2>1 DEF WInv, Stage, Storming, Senders
  <2> QED
    BY <2>1, <2>2, IdleStep
<1>2. ASSUME NEW alert \in RuleIDs, Submit(alert) PROVE WInv'
  BY <1>2, SubmitWInv
<1>3. CASE Run
  BY <1>3, DequeueWInv, CheckContextWInv, AdmitWInv, RefuseWInv, EndWInv DEF Run
<1>4. ASSUME NEW s \in Senders, Deliver(s) PROVE WInv'
  BY <1>4, DeliverWInv, DeliveredWInv DEF Deliver
<1>5. CASE CloseBegin \/ CloseExpires \/ CloseEnds
  <2>1. /\ UNCHANGED <<queue, stats, senders, submitted, current, worker>>
        /\ now' \in 0 .. MaxTime
    BY <1>5 DEF CloseBegin, CloseExpires, CloseEnds, configVars, WInv, Data
  <2>2. Storming' = Storming
    BY <2>1 DEF Storming, Senders
  <2>3. Stage'
    BY <1>5, <2>1, <2>2, Zenon DEF CloseBegin, CloseExpires, CloseEnds, configVars, WInv, Stage
  <2> QED
    BY <2>1, <2>3, IdleStep
<1>6. CASE UNCHANGED vars
  <2>1. /\ UNCHANGED <<queue, stats, senders, submitted, current, worker, closed, cancelled, closer>>
        /\ now' \in 0 .. MaxTime
    BY <1>6 DEF vars, WInv, Data
  <2>2. Stage'
    BY <2>1 DEF WInv, Stage, Storming, Senders
  <2> QED
    BY <2>1, <2>2, IdleStep
<1> QED
  BY <1>1, <1>2, <1>3, <1>4, <1>5, <1>6 DEF Next

LEMMA AlwaysWInv == Spec => []WInv
BY WInvInit, WInvNext, PTL DEF Spec

-----------------------------------------------------------------------------
(* allow's loop over recent.                                              *)

\* A nonempty set of natural numbers has a least one.
LEMMA Smallest ==
  ASSUME NEW T, T \subseteq Nat, NEW e \in T
  PROVE  \E x \in T : \A y \in T : x <= y
<1> DEFINE Less == { p \in Nat \X Nat : p[1] < p[2] }
<1>1. IsWellFoundedOn(Less, Nat)
  BY NatLessThanWellFounded DEF OpToRel
<1>2. PICK x \in T : \A y \in T : ~(<<y, x>> \in Less)
  <2> HIDE DEF Less
  <2> QED
    BY <1>1, WFMin, Zenon
<1>3. ASSUME NEW y \in T, ~(x <= y) PROVE FALSE
  <2>1. <<y, x>> \in Nat \X Nat /\ y < x
    BY <1>3
  <2> QED
    BY <1>2, <2>1
<1> QED
  BY <1>3

\* The end of a sequence.
LEMMA Ending ==
  ASSUME NEW S, NEW s \in Seq(S), NEW k \in 0 .. Len(s)
  PROVE  /\ SubSeq(s, k + 1, Len(s)) \in Seq(S)
         /\ Len(SubSeq(s, k + 1, Len(s))) = Len(s) - k
         /\ \A i \in 1 .. Len(s) - k : SubSeq(s, k + 1, Len(s))[i] = s[k + i]
<1>1. k + 1 \in Int /\ Len(s) \in Int /\ \A i \in k + 1 .. Len(s) : s[i] \in S
  OBVIOUS
<1> QED
  BY <1>1, SubSeqProperties, SMTT(30)

\* The loop of allow, as a function of the number of times it has looked at.
KeptLoop(f) ==
  f = [i \in 0 .. Len(recent) |->
        IF i = 0 THEN <<>>
        ELSE IF InLastMinute(recent[i]) THEN Append(f[i - 1], recent[i])
        ELSE f[i - 1]]

\* SubSeq taken one element further.
LEMMA SubSeqGrows ==
  ASSUME NEW S, NEW s \in Seq(S), NEW a \in 1 .. Len(s), NEW b \in a .. Len(s)
  PROVE  SubSeq(s, a, b) = Append(SubSeq(s, a, b - 1), s[b])
<1>1. SubSeq(s, a, b) = SubSeq(s, a, b - 1) \o <<s[b]>>
  BY SubSeqRecursiveSecond
<1>2. SubSeq(s, a, b - 1) \in Seq(S) /\ s[b] \in S
  <2>1. a \in Int /\ b - 1 \in Int /\ \A i \in a .. b - 1 : s[i] \in S
    OBVIOUS
  <2> QED
    BY <2>1, SubSeqProperties
<1> QED
  BY <1>1, <1>2, AppendIsConcat

LEMMA KeptLoopTurn ==
  ASSUME NEW f, KeptLoop(f), NEW i \in 0 .. Len(recent)
  PROVE  f[i] = IF i = 0 THEN <<>>
                ELSE IF InLastMinute(recent[i]) THEN Append(f[i - 1], recent[i])
                ELSE f[i - 1]
BY Zenon DEF KeptLoop

LEMMA KeptIsLoop == Kept = (CHOOSE f : KeptLoop(f))[Len(recent)]
BY DEF Kept, KeptLoop

Sorted(s) == \A i, j \in 1 .. Len(s) : i <= j => s[i] <= s[j]

\* allow's loop keeps an end of recent, as recent is sorted.
LEMMA KeptSuffix ==
  ASSUME now \in Nat, recent \in Seq(Nat), Sorted(recent)
  PROVE  \E m \in 0 .. Len(recent) :
           /\ Kept = SubSeq(recent, m + 1, Len(recent))
           /\ \A j \in 1 .. m : ~InLastMinute(recent[j])
           /\ \A j \in m + 1 .. Len(recent) : InLastMinute(recent[j])
<1> DEFINE n == Len(recent)
           T == { k \in 0 .. n : \A j \in k + 1 .. n : InLastMinute(recent[j]) }
<1>1. n \in Nat /\ n \in T /\ T \subseteq Nat
  OBVIOUS
<1>2. PICK m \in T : \A k \in T : m <= k
  <2> HIDE DEF T, n
  <2> QED
    BY <1>1, Smallest, Zenon
<1>3. \A j \in 1 .. m : ~InLastMinute(recent[j])
  <2> SUFFICES ASSUME NEW j \in 1 .. m, InLastMinute(recent[j]) PROVE FALSE
    OBVIOUS
  <2>1. m \in 0 .. n /\ j \in 1 .. n
    BY <1>1, <1>2
  <2>2. ASSUME NEW i \in j .. n PROVE InLastMinute(recent[i])
    <3>1. i \in 1 .. n /\ recent[i] \in Nat /\ recent[j] \in Nat /\ recent[j] <= recent[i]
      BY <1>1, <2>1 DEF Sorted
    <3> QED
      BY <3>1 DEF InLastMinute
  <2>3. j - 1 \in T
    BY <1>1, <2>1, <2>2
  <2> QED
    <3>1. m <= j - 1
      BY <1>2, <2>3, Zenon
    <3> QED
      BY <2>1, <3>1
<1> DEFINE g == [i \in 0 .. n |-> IF i <= m THEN <<>> ELSE SubSeq(recent, m + 1, i)]
<1>4. KeptLoop(g)
  <2> DEFINE h == [i \in 0 .. n |->
        IF i = 0 THEN <<>>
        ELSE IF InLastMinute(recent[i]) THEN Append(g[i - 1], recent[i])
        ELSE g[i - 1]]
  <2>1. ASSUME NEW i \in 0 .. n PROVE g[i] = h[i]
    <3>1. CASE i <= m
      BY <1>1, <1>3, <3>1
    <3>2. CASE i > m
      <4>1. h[i] = Append(g[i - 1], recent[i])
        BY <1>1, <1>2, <3>2
      <4>2. /\ g[i] = SubSeq(recent, m + 1, i) /\ i \in m + 1 .. n /\ m + 1 \in 1 .. n
            /\ g[i - 1] = SubSeq(recent, m + 1, i - 1)
        <5>1. m \in 0 .. n /\ i - 1 \in 0 .. n /\ i \in m + 1 .. n /\ m + 1 \in 1 .. n
          BY <1>1, <1>2, <3>2
        <5>2. i - 1 <= m => SubSeq(recent, m + 1, i - 1) = <<>>
          BY <5>1, SubSeqEmpty
        <5> QED
          BY <3>2, <5>1, <5>2
      <4>3. SubSeq(recent, m + 1, i) = Append(SubSeq(recent, m + 1, i - 1), recent[i])
        BY <4>2, SubSeqGrows, Zenon
      <4> QED
        BY <4>1, <4>2, <4>3, Zenon
    <3> QED
      BY <1>1, <3>1, <3>2
  <2>2. g = h
    <3> HIDE DEF n
    <3> QED BY <2>1, SMTT(30)
  <2> QED
    BY <2>2, Zenon DEF KeptLoop
<1>5. PICK f : KeptLoop(f) /\ Kept = f[n]
  <2> HIDE DEF g
  <2> QED BY <1>4, KeptIsLoop, Zenon
<1>6. \A i \in 0 .. n : f[i] = g[i]
  <2> DEFINE D == { i \in 0 .. n : f[i] # g[i] }
  <2> SUFFICES ASSUME NEW e \in D PROVE FALSE
    OBVIOUS
  <2>1. PICK i \in D : \A k \in D : i <= k
    <3>1. D \subseteq Nat
      BY <1>1
    <3> HIDE DEF D
    <3> QED BY <3>1, Smallest, Zenon
  <2> HIDE DEF g
  <2>2. i \in 0 .. n /\ f[i] # g[i]
    OBVIOUS
  <2>3. i # 0 => f[i - 1] = g[i - 1]
    BY <1>1, <2>1, <2>2
  <2>4. f[i] = g[i]
    <3> DEFINE turn(v) == IF i = 0 THEN <<>>
                          ELSE IF InLastMinute(recent[i]) THEN Append(v, recent[i])
                          ELSE v
    <3>1. f[i] = turn(f[i - 1])
      BY <1>5, <2>2, KeptLoopTurn, Zenon
    <3>2. g[i] = turn(g[i - 1])
      BY <1>4, <2>2, KeptLoopTurn, Zenon
    <3>3. CASE i = 0
      BY <3>1, <3>2, <3>3, Zenon
    <3>4. CASE i # 0
      BY <2>3, <3>1, <3>2, <3>4, Zenon
    <3> QED
      BY <3>3, <3>4
  <2> QED
    BY <2>2, <2>4
<1> QED
  <2>1. Kept = g[n] /\ n \in 0 .. n
    BY <1>1, <1>5, <1>6
  <2>2. n = m => SubSeq(recent, m + 1, n) = <<>>
    BY <1>1
  <2>3. Kept = SubSeq(recent, m + 1, n)
    BY <1>1, <1>2, <2>1, <2>2
  <2> QED
    BY <1>1, <1>2, <1>3, <2>3, Zenon

-----------------------------------------------------------------------------
(* The rate limit: recent is the end of admitted that the last minute may  *)
(* still reach.                                                            *)

Admissions(A, R, t) ==
  /\ A \in Seq(Nat) /\ Sorted(A)
  /\ \A i \in 1 .. Len(A) : A[i] <= t
  /\ \E k \in 0 .. Len(A) :
       R = SubSeq(A, k + 1, Len(A)) /\ \A i \in 1 .. k : A[i] < t - Minute
  /\ \A i \in 1 .. Len(A) - Limit : A[i + Limit] - A[i] > Minute

StormTimes(T, last, t) ==
  /\ T \in Seq(Nat) /\ last \in Int
  /\ T # <<>> => last = T[Len(T)] /\ last <= t
  /\ \A i \in 1 .. Len(T) - 1 : T[i + 1] - T[i] >= StormFor

RateInv ==
  now \in Nat /\ Admissions(admitted, recent, now) /\ StormTimes(storms, stormAt, now)

\* Time passes: what is out of the last minute stays out of it.
LEMMA AdmissionsAge ==
  ASSUME NEW A, NEW R, NEW t \in Nat, Admissions(A, R, t)
  PROVE  Admissions(A, R, t + 1)
<1>1. A \in Seq(Nat) /\ \A i \in 1 .. Len(A) : A[i] \in Nat /\ A[i] <= t + 1
  BY DEF Admissions
<1>2. PICK k \in 0 .. Len(A) :
        R = SubSeq(A, k + 1, Len(A)) /\ \A i \in 1 .. k : A[i] < t - Minute
  BY Zenon DEF Admissions
<1>3. \A i \in 1 .. k : A[i] < (t + 1) - Minute
  BY <1>1, <1>2
<1> QED
  BY <1>1, <1>2, <1>3, Zenon DEF Admissions

\* allow's loop leaves the end of admitted that lies in the last minute.
LEMMA KeptIsRecent ==
  ASSUME now \in Nat, Admissions(admitted, recent, now)
  PROVE  \E k \in 0 .. Len(admitted) :
           /\ Kept = SubSeq(admitted, k + 1, Len(admitted))
           /\ \A i \in 1 .. k : admitted[i] < now - Minute
<1> DEFINE n == Len(admitted)
<1>1. admitted \in Seq(Nat) /\ Sorted(admitted) /\ n \in Nat
  BY DEF Admissions
<1>2. PICK k \in 0 .. n :
        recent = SubSeq(admitted, k + 1, n) /\ \A i \in 1 .. k : admitted[i] < now - Minute
  BY Zenon DEF Admissions
<1> HIDE DEF n
<1>3. /\ recent \in Seq(Nat) /\ Len(recent) = n - k
      /\ \A i \in 1 .. n - k : recent[i] = admitted[k + i]
  BY <1>1, <1>2, Ending, Zenon DEF n
<1>4. Sorted(recent)
  <2> SUFFICES ASSUME NEW i \in 1 .. n - k, NEW j \in 1 .. n - k, i <= j
               PROVE  recent[i] <= recent[j]
    BY <1>3 DEF Sorted
  <2>1. k + i \in 1 .. n /\ k + j \in 1 .. n /\ k + i <= k + j
    BY <1>1
  <2>2. admitted[k + i] <= admitted[k + j]
    BY <1>1, <2>1 DEF Sorted, n
  <2> QED
    BY <1>3, <2>2
<1>5. PICK m \in 0 .. n - k :
        /\ Kept = SubSeq(recent, m + 1, n - k)
        /\ \A j \in 1 .. m : ~InLastMinute(recent[j])
  BY <1>3, <1>4, KeptSuffix, SMTT(30)
<1>6. k + m \in 0 .. n
  BY <1>1
<1>7. Kept = SubSeq(admitted, k + m + 1, n)
  <2>1. CASE m = n - k
    BY <1>1, <1>5, <2>1, SubSeqEmpty
  <2>2. CASE m < n - k
    <3>1. /\ k + 1 \in 1 .. n /\ n \in 1 .. n
          /\ m + 1 \in 1 .. n - (k + 1) + 1 /\ n - k \in 1 .. n - (k + 1) + 1
          /\ (k + 1) + (m + 1) - 1 = k + m + 1 /\ (k + 1) + (n - k) - 1 = n
      BY <1>1, <2>2
    <3>2. SubSeq(SubSeq(admitted, k + 1, n), m + 1, n - k)
            = SubSeq(admitted, (k + 1) + (m + 1) - 1, (k + 1) + (n - k) - 1)
      BY <1>1, <3>1, SubSeqOfSubSeq DEF n
    <3> QED
      BY <1>2, <1>5, <3>1, <3>2, Zenon
  <2> QED
    BY <1>1, <2>1, <2>2
<1>8. ASSUME NEW i \in 1 .. k + m PROVE admitted[i] < now - Minute
  <2>1. CASE i <= k
    BY <1>2, <2>1
  <2>2. CASE i > k
    <3>1. i - k \in 1 .. m /\ i - k \in 1 .. n - k /\ k + (i - k) = i
      BY <1>1, <2>2
    <3>2. recent[i - k] = admitted[i]
      BY <1>3, <3>1, Zenon
    <3>3. ~InLastMinute(admitted[i]) /\ admitted[i] \in Nat
      BY <1>1, <1>5, <1>6, <3>1, <3>2 DEF n
    <3> QED
      BY <3>3 DEF InLastMinute
  <2> QED
    BY <2>1, <2>2
<1> QED
  BY <1>6, <1>7, <1>8 DEF n

\* allow says yes: the alert Limit places back lies out of the last minute.
LEMMA AdmitIsLimited ==
  ASSUME now \in Nat, Admissions(admitted, recent, now), Len(Kept) < Limit
  PROVE  Admissions(Append(admitted, now), Append(Kept, now), now)
<1> DEFINE n == Len(admitted)
           A == Append(admitted, now)
<1>1. /\ admitted \in Seq(Nat) /\ Sorted(admitted) /\ n \in Nat
      /\ \A i \in 1 .. n : admitted[i] <= now
      /\ \A i \in 1 .. n - Limit : admitted[i + Limit] - admitted[i] > Minute
  BY DEF Admissions
<1>2. PICK k \in 0 .. n : /\ Kept = SubSeq(admitted, k + 1, n)
                          /\ \A i \in 1 .. k : admitted[i] < now - Minute
  BY KeptIsRecent
<1>3. /\ A \in Seq(Nat) /\ Len(A) = n + 1 /\ A[n + 1] = now
      /\ \A i \in 1 .. n : A[i] = admitted[i]
  BY <1>1, AppendProperties
<1>4. \A i \in 1 .. n : admitted[i] \in Nat
  BY <1>1, SMTT(30)
<1>5. Len(Kept) = n - k
  BY <1>1, <1>2, Ending
<1>6. Append(Kept, now) = SubSeq(A, k + 1, n + 1)
  <2>1. SubSeq(A, k + 1, n) = SubSeq(admitted, k + 1, n)
    <3>1. CASE k = n
      BY <1>1, <3>1, SubSeqEmpty
    <3>2. CASE k < n
      <4>1. k + 1 \in 1 .. n /\ n \in 1 .. n /\ <<now>> \in Seq(Nat)
        BY <1>1, <3>2
      <4>2. A = admitted \o <<now>>
        BY <1>1, AppendIsConcat
      <4> QED
        BY <1>1, <4>1, <4>2, SubSeqOfConcat1
    <3> QED
      BY <1>1, <3>1, <3>2
  <2>2. k + 1 \in 1 .. n + 1 /\ n + 1 \in k + 1 .. n + 1 /\ (n + 1) - 1 = n
    BY <1>1
  <2>3. SubSeq(A, k + 1, n + 1) = Append(SubSeq(A, k + 1, (n + 1) - 1), A[n + 1])
    <3> HIDE DEF A, n
    <3> QED
      BY <1>3, <2>2, SubSeqGrows, Zenon
  <2> QED
    BY <1>2, <1>3, <2>1, <2>2, <2>3, Zenon
<1> HIDE DEF A, n
<1>7. \A i \in 1 .. (n + 1) - Limit : A[i + Limit] - A[i] > Minute
  <2> SUFFICES ASSUME NEW i \in 1 .. (n + 1) - Limit PROVE A[i + Limit] - A[i] > Minute
    OBVIOUS
  <2>1. i \in 1 .. n /\ A[i] = admitted[i] /\ admitted[i] \in Nat
    BY <1>1, <1>3, <1>4
  <2>2. CASE i + Limit <= n
    <3>1. i \in 1 .. n - Limit /\ i + Limit \in 1 .. n /\ A[i + Limit] = admitted[i + Limit]
      BY <1>1, <1>3, <2>2
    <3> QED
      BY <1>1, <2>1, <3>1
  <2>3. CASE i + Limit = n + 1
    <3>1. i \in 1 .. k
      BY <1>1, <1>5, <2>1, <2>3
    <3>2. admitted[i] < now - Minute /\ A[i + Limit] = now
      BY <1>2, <1>3, <2>3, <3>1
    <3> QED
      BY <2>1, <3>2
  <2> QED
    BY <1>1, <2>2, <2>3
<1>8. Sorted(A) /\ \A i \in 1 .. n + 1 : A[i] <= now
  <2>1. \A i \in 1 .. n + 1 : A[i] \in Nat /\ A[i] <= now
    BY <1>1, <1>3, <1>4, SMTT(30)
  <2> SUFFICES ASSUME NEW i \in 1 .. n + 1, NEW j \in 1 .. n + 1, i <= j
               PROVE  A[i] <= A[j]
    BY <1>3, <2>1 DEF Sorted
  <2>2. CASE j = n + 1
    BY <1>3, <2>1, <2>2
  <2>3. CASE j # n + 1
    <3>1. i \in 1 .. n /\ j \in 1 .. n
      BY <1>1, <2>3
    <3>2. admitted[i] <= admitted[j]
      BY <1>1, <3>1 DEF Sorted, n
    <3> QED
      BY <1>3, <3>1, <3>2
  <2> QED
    BY <2>2, <2>3
<1>9. k \in 0 .. n + 1 /\ \A i \in 1 .. k : A[i] < now - Minute
  BY <1>1, <1>2, <1>3
<1> QED
  BY <1>3, <1>6, <1>7, <1>8, <1>9, Zenon DEF Admissions, A

\* allow says no: recent loses what is out of the last minute.
LEMMA RefuseIsLimited ==
  ASSUME now \in Nat, Admissions(admitted, recent, now)
  PROVE  Admissions(admitted, Kept, now)
BY KeptIsRecent, Zenon DEF Admissions

\* The clock and the rest of the worker leave the rate limit as it is.
LEMMA RateInvKept ==
  ASSUME RateInv, UNCHANGED limitVars, now' \in {now, now + 1}
  PROVE  RateInv'
<1>1. /\ now \in Nat /\ now' \in Nat
      /\ admitted' = admitted /\ recent' = recent /\ storms' = storms /\ stormAt' = stormAt
  BY DEF limitVars, RateInv
<1>2. Admissions(admitted, recent, now')
  BY <1>1, AdmissionsAge, Zenon DEF RateInv
<1>3. StormTimes(storms, stormAt, now')
  BY <1>1 DEF StormTimes, RateInv
<1> QED
  BY <1>1, <1>2, <1>3, Zenon DEF RateInv

\* allow says yes.
LEMMA RateInvAdmit == ASSUME RateInv, Admit PROVE RateInv'
<1>1. /\ now' = now /\ storms' = storms /\ stormAt' = stormAt /\ Len(Kept) < Limit
      /\ admitted' = Append(admitted, now) /\ recent' = Append(Kept, now)
  BY DEF Admit, configVars
<1> QED
  BY <1>1, AdmitIsLimited, Zenon DEF RateInv

\* allow says no, and dates a storm alert now unless one was sent within the cooldown.
LEMMA RateInvRefuse == ASSUME RateInv, Refuse PROVE RateInv'
<1>1. now' = now /\ admitted' = admitted /\ recent' = Kept /\ now \in Nat
  BY DEF Refuse, configVars, RateInv
<1>2. Admissions(admitted', recent', now')
  BY <1>1, RefuseIsLimited, Zenon DEF RateInv
<1>3. StormTimes(storms, stormAt, now)
  BY DEF RateInv
<1>4. StormTimes(storms', stormAt', now')
  <2>1. CASE StormQuiet
    <3>1. storms' = storms /\ stormAt' = stormAt
      BY <2>1 DEF Refuse
    <3> QED
      BY <1>1, <1>3, <3>1, Zenon
  <2>2. CASE ~StormQuiet
    <3>1. storms' = Append(storms, now) /\ stormAt' = now
      BY <2>2 DEF Refuse
    <3>2. stormAt <= now => now - stormAt >= StormFor
      BY <1>1, <1>3, <2>2 DEF StormQuiet, StormTimes
    <3>3. storms \in Seq(Nat) /\ Len(storms) \in Nat
      BY <1>3 DEF StormTimes
    <3>4. /\ storms' \in Seq(Nat) /\ Len(storms') = Len(storms) + 1
          /\ storms'[Len(storms) + 1] = now
          /\ \A i \in 1 .. Len(storms) : storms'[i] = storms[i]
      BY <1>1, <3>1, <3>3, AppendProperties
    <3>5. ASSUME NEW i \in 1 .. Len(storms') - 1
          PROVE  storms'[i + 1] - storms'[i] >= StormFor
      <4>1. i \in 1 .. Len(storms) /\ storms'[i] = storms[i]
        BY <3>3, <3>4
      <4>2. CASE i = Len(storms)
        <5>1. storms # <<>> /\ storms[i] = stormAt /\ stormAt <= now
          BY <1>3, <4>1, <4>2 DEF StormTimes
        <5> QED
          BY <3>2, <3>4, <4>1, <4>2, <5>1
      <4>3. CASE i # Len(storms)
        <5>1. i \in 1 .. Len(storms) - 1 /\ i + 1 \in 1 .. Len(storms)
          BY <3>3, <4>1, <4>3
        <5> QED
          BY <1>3, <3>4, <4>1, <5>1 DEF StormTimes
      <4> QED
        BY <4>2, <4>3
    <3> QED
      BY <1>1, <3>1, <3>4, <3>5 DEF StormTimes
  <2> QED
    BY <2>1, <2>2
<1> QED
  BY <1>1, <1>2, <1>4 DEF RateInv

LEMMA RateInvNext == RateInv /\ [Next]_vars => RateInv'
<1> SUFFICES ASSUME RateInv, [Next]_vars PROVE RateInv'
  OBVIOUS
<1>1. CASE Admit
  BY <1>1, RateInvAdmit
<1>2. CASE Refuse
  BY <1>2, RateInvRefuse
<1>3. CASE ~Admit /\ ~Refuse
  <2>1. UNCHANGED limitVars /\ now' \in {now, now + 1}
    BY <1>3, Zenon DEF Next, Run, Deliver, Tick, Submit, Dequeue, CheckContext, RangeEnds,
         Exit, NotifyAccepted, NotifyFails, SleepEnds, SleepCancelled, Delivered,
         CloseBegin, CloseExpires, CloseEnds, deliveryFrame, configVars, limitVars, vars
  <2> QED
    BY <2>1, RateInvKept
<1> QED
  BY <1>1, <1>2, <1>3

-----------------------------------------------------------------------------
\* Every variable of the worker but those of the rate limit keeps its type.
THEOREM WorkerTypeCorrect == Spec => []TypeOK
<1>1. WInv => TypeOK
  BY DEF WInv, SendersInv, Stage, Count, Stats, Data, TypeOK
<1> QED
  BY <1>1, AlwaysWInv, PTL

\* Every alert submitted and every storm alert is counted once, and when Close returns
\* nothing is left to count.
THEOREM WorkerAccounted == Spec => []Accounted
<1>1. ASSUME WInv PROVE Accounted
  <2>1. submitted + stats.storms = stats.sent + stats.failed + stats.dropped + Len(queue) + Held
    BY <1>1 DEF WInv, Count, Total
  <2>2. ASSUME closer = "returned" PROVE Len(queue) + Held = 0
    <3>1. queue = <<>> /\ Storming = {} /\ worker = "exited"
      BY <1>1, <2>2 DEF WInv, Stage
    <3>2. Cardinality(Storming) = 0
      BY <3>1, FS_EmptySet
    <3>3. Held = 0 /\ Len(queue) = 0
      BY <3>1, <3>2, SMTT(30) DEF Held
    <3> QED
      BY <3>3
  <2> QED
    BY <2>1, <2>2 DEF Accounted
<1> QED
  BY <1>1, AlwaysWInv, PTL

\* No channel is called again for an alert it has accepted, and a delivery counts as
\* sent only if every channel has accepted.
THEOREM WorkerAcceptedOnce == Spec => []AcceptedOnce
<1>1. ASSUME WInv PROVE AcceptedOnce
  <2> SUFFICES ASSUME NEW s \in Senders
               PROVE  /\ senders[s].channel \notin senders[s].accepted
                      /\ senders[s].ok <=>
                           1 .. senders[s].channel - 1 \subseteq senders[s].accepted
    BY DEF AcceptedOnce
  <2>1. senders[s] \in Delivery /\ DeliveryInv(senders[s])
    BY <1>1 DEF WInv, SendersInv
  <2> QED
    BY <2>1, DeliveryFields DEF DeliveryInv
<1> QED
  BY <1>1, AlwaysWInv, PTL

\* No closed minute sees more than max_alerts_per_minute alerts admitted, and storm
\* alerts are at least storm_cooldown apart, for every limit and every cooldown.
THEOREM WorkerRateLimited == Spec => []RateLimited
<1>1. Init => RateInv
  <2> SUFFICES ASSUME Init PROVE RateInv
    OBVIOUS
  <2>1. <<>> \in Seq(Nat) /\ Len(<<>>) = 0 /\ -StormFor \in Int
    OBVIOUS
  <2>2. Sorted(<<>>) /\ SubSeq(<<>>, 1, 0) = <<>> /\ 0 \in 0 .. 0
    BY SubSeqEmpty DEF Sorted
  <2>3. Admissions(<<>>, <<>>, 0)
    BY <2>1, <2>2 DEF Admissions
  <2>4. StormTimes(<<>>, -StormFor, 0)
    BY <2>1 DEF StormTimes
  <2> QED
    BY <2>3, <2>4 DEF Init, RateInv
<1>2. RateInv => RateLimited
  BY DEF RateInv, Admissions, StormTimes, RateLimited
<1> QED
  BY <1>1, <1>2, RateInvNext, PTL DEF Spec
=============================================================================
