------------------------------ MODULE Processor ------------------------------
(***************************************************************************)
(* internal/processor/processor.go with internal/context: the consumer's   *)
(* Process, the source's RemoveContainer, Run's Close, and per alert that  *)
(* waits for after-context one goroutine (awaitContext) and one timer.     *)
(* Processor.mu covers the whole of Process, RemoveContainer, the first    *)
(* half of Close and the second half of awaitContext, so each is a step.   *)
(* Which rules match a line and which of them alert is an input here:      *)
(* parser, router, rules and aggregator decide it (Detection.tla).         *)
(***************************************************************************)
EXTENDS ContextBuffer, Capture, FiniteSets

CONSTANTS
  Keys,         \* logical container names
  Raisable,     \* sequences of rules that one line may alert for
  Before,       \* Context.Before of each rule
  After,        \* Context.After of each rule
  MaxBytes,     \* Context.MaxBytes of each rule
  Text,         \* lineFor each line, by its number
  MaxLines,     \* bound on the lines processed
  MaxIDs        \* bound on the Docker IDs a name goes through

ASSUME RulesAssumption ==
  \A raised \in Raisable :
    /\ Len(raised) \in Nat
    /\ \A i \in 1 .. Len(raised) :
         /\ Before[raised[i]] \in Nat /\ After[raised[i]] \in Nat
         /\ MaxBytes[raised[i]] \in Nat \ {0}
ASSUME BoundsAssumption == MaxLines \in Nat /\ MaxIDs \in Nat \ {0}
ASSUME KeysAssumption == IsFiniteSet(Keys)
ASSUME TextAssumption == \A n \in 1 .. MaxLines : Text[n] \in Seq({0, 1})

VARIABLES
  context,    \* Processor.context
  alerts,     \* every alert queueAlert built, with its collector and goroutine
  pending,    \* Processor.pending, as indices into alerts
  closed,     \* Processor.closed
  closer,     \* the goroutine in Close
  ids,        \* runtimeObserver.ids: the Docker ID behind each name
  lines,      \* history: the entries kept as context, per name
  since       \* history: how many of them the last RemoveContainer released

vars == <<context, alerts, pending, closed, closer, ids, lines, since>>

Rules == UNION { { raised[i] : i \in 1 .. Len(raised) } : raised \in Raisable }

LineCount == Cardinality(UNION { { <<k, i>> : i \in 1 .. Len(lines[k]) } : k \in Keys })

TypeOK ==
  /\ \A k \in Keys : /\ context[k].start \in 0 .. Capacity - 1
                     /\ context[k].length \in 0 .. Capacity
                     /\ pending[k] \subseteq 1 .. Len(alerts)
                     /\ ids[k] \in 1 .. MaxIDs
  /\ \A a \in 1 .. Len(alerts) :
       /\ alerts[a].key \in Keys /\ alerts[a].rule \in Rules
       /\ alerts[a].finished \in BOOLEAN /\ alerts[a].discard \in BOOLEAN
       /\ alerts[a].pc \in {"wait", "lock", "done"}
       /\ alerts[a].sent \in Nat
  /\ closed \in BOOLEAN
  /\ closer \in {"open", "waiting", "returned"}

Init ==
  /\ context = [k \in Keys |-> NewBuffer]
  /\ alerts = <<>>
  /\ pending = [k \in Keys |-> {}]
  /\ closed = FALSE
  /\ closer = "open"
  /\ ids = [k \in Keys |-> 1]
  /\ lines = [k \in Keys |-> <<>>]
  /\ since = [k \in Keys |-> 0]

-----------------------------------------------------------------------------
(* AfterCollector.Add: a finished collector takes nothing more.            *)
(* Definitions named Bad... are faulty variants used to test properties.   *)
BadAdd(alert, entry) ==
  LET after == Append(alert.after, entry)
  IN [alert EXCEPT !.after = after, !.finished = Len(after) >= After[alert.rule]]

Add(alert, entry) ==
  LET after == Append(alert.after, entry)
  IN IF alert.finished
     THEN alert
     ELSE [alert EXCEPT !.after = after, !.finished = Len(after) >= After[alert.rule]]

(* AfterCollector.finish; a second call finds it finished already.         *)
finish(alert) == [alert EXCEPT !.finished = TRUE]

(* The context store: one ring per name, made by the first Append.         *)
StoreAppend(key, entry) == [context EXCEPT ![key] = BufferAppend(@, entry)]
StoreLast(key, limit) == BufferLast(context[key], limit)
StoreRemove(key) == [context EXCEPT ![key] = NewBuffer]

(* NewAfterCollector: a rule without after-context is complete at once.    *)
NewAfterCollector(key, rule, entry) ==
  [key |-> key, rule |-> rule, trigger |-> entry,
   before |-> StoreLast(key, Before[rule]), after |-> <<>>,
   finished |-> After[rule] = 0, discard |-> FALSE, pc |-> "wait", sent |-> 0, context |-> <<>>,
   at |-> Len(lines[key]), base |-> since[key]]

Texts(entries) == [i \in 1 .. Len(entries) |-> Text[entries[i].n]]

(* The context that goes out with an alert.                                *)
Rendered(alert) ==
  CaptureLines(Texts(alert.before), Text[alert.trigger.n], Texts(alert.after),
               MaxBytes[alert.rule])

emit(alert) ==
  [alert EXCEPT !.pc = "done", !.context = Rendered(alert), !.sent = @ + 1]

(* queueAlert: without after-context the alert goes to the sink at once.   *)
queueAlert(key, rule, entry) ==
  LET alert == NewAfterCollector(key, rule, entry)
  IN IF After[rule] = 0 THEN emit(alert) ELSE alert

addAfterContext(key, entry) ==
  [a \in 1 .. Len(alerts) |->
     IF a \in pending[key] THEN Add(alerts[a], entry) ELSE alerts[a]]

(* addAfterContext, then one alert per rule, then context.Append.          *)
Process(key, id, raised, keepsContext) ==
  LET entry == [id |-> id, n |-> LineCount + 1]
      queued == [i \in 1 .. Len(raised) |-> queueAlert(key, raised[i], entry)]
      waiting == { Len(alerts) + i : i \in { j \in 1 .. Len(raised) : After[raised[j]] > 0 } }
  IN /\ ~closed
     /\ LineCount < MaxLines
     /\ raised # <<>> => keepsContext
     /\ IF keepsContext
        THEN /\ alerts' = addAfterContext(key, entry) \o queued
             /\ pending' = [pending EXCEPT ![key] = @ \cup waiting]
             /\ context' = StoreAppend(key, entry)
             /\ lines' = [lines EXCEPT ![key] = Append(@, entry)]
        ELSE UNCHANGED <<alerts, pending, context, lines>>
     /\ UNCHANGED <<closed, closer, ids, since>>

(* Lines of one name arrive in the order of its containers; some of an old *)
(* container may still be in the channel when its successor is attached.   *)
MayArrive(key, id) ==
  /\ id <= ids[key]
  /\ lines[key] # <<>> => id >= lines[key][Len(lines[key])].id

(* after_wait has passed.                                                  *)
TimerFires(a) ==
  /\ ~alerts[a].finished
  /\ alerts' = [alerts EXCEPT ![a] = finish(@)]
  /\ UNCHANGED <<context, pending, closed, closer, ids, lines, since>>

(* awaitContext: <-Done(), and then, with the lock, emit unless discarded. *)
BadTakeCapture(a) ==
  /\ alerts[a].pc = "wait"
  /\ alerts[a].finished /\ ~alerts[a].discard
  /\ alerts' = [alerts EXCEPT ![a].pc = "lock"]
  /\ UNCHANGED <<context, pending, closed, closer, ids, lines, since>>

TakeCapture(a) ==
  /\ alerts[a].pc = "wait"
  /\ alerts[a].finished
  /\ alerts' = [alerts EXCEPT ![a].pc = "lock"]
  /\ UNCHANGED <<context, pending, closed, closer, ids, lines, since>>

BadAwaitContextDiscard(a) ==
  /\ alerts[a].pc = "lock"
  /\ pending' = [pending EXCEPT ![alerts[a].key] = @ \ {a}]
  /\ alerts' = [alerts EXCEPT ![a] = emit(@)]
  /\ UNCHANGED <<context, closed, closer, ids, lines, since>>

BadAwaitContextLeak(a) ==
  /\ alerts[a].pc = "lock"
  /\ alerts' = [alerts EXCEPT ![a] = IF alerts[a].discard
                                     THEN [@ EXCEPT !.pc = "done"]
                                     ELSE emit(@)]
  /\ UNCHANGED <<context, pending, closed, closer, ids, lines, since>>

AwaitContext(a) ==
  /\ alerts[a].pc = "lock"
  /\ IF alerts[a].discard
     THEN /\ alerts' = [alerts EXCEPT ![a].pc = "done"]
          /\ UNCHANGED pending
     ELSE /\ pending' = [pending EXCEPT ![alerts[a].key] = @ \ {a}]
          /\ alerts' = [alerts EXCEPT ![a] = emit(@)]
  /\ UNCHANGED <<context, closed, closer, ids, lines, since>>

-----------------------------------------------------------------------------
(* RemoveContainer discards what is pending and releases the context.      *)
RemoveContainer(key) ==
  /\ alerts' = [a \in 1 .. Len(alerts) |->
                  IF a \in pending[key]
                  THEN finish([alerts[a] EXCEPT !.discard = TRUE])
                  ELSE alerts[a]]
  /\ pending' = [pending EXCEPT ![key] = {}]
  /\ context' = StoreRemove(key)
  /\ since' = [since EXCEPT ![key] = Len(lines[key])]

(* The source attaches a container with another ID.  A source that         *)
(* outlives the drain timeout of Run may still do so after Close.  No line *)
(* of the new container exists before this returns.                        *)
ContainerAttached(key) ==
  /\ ids[key] < MaxIDs
  /\ ids' = [ids EXCEPT ![key] = @ + 1]
  /\ RemoveContainer(key)
  /\ UNCHANGED <<closed, closer, lines>>

(* Close: cancel every collector, then wait for every goroutine.           *)
Close ==
  /\ ~closed
  /\ closed' = TRUE
  /\ alerts' = [a \in 1 .. Len(alerts) |->
                  IF \E k \in Keys : a \in pending[k]
                  THEN finish(alerts[a])
                  ELSE alerts[a]]
  /\ closer' = "waiting"
  /\ UNCHANGED <<context, pending, ids, lines, since>>

CloseEnds ==
  /\ closer = "waiting"
  /\ \A a \in 1 .. Len(alerts) : alerts[a].pc = "done"
  /\ closer' = "returned"
  /\ UNCHANGED <<context, alerts, pending, closed, ids, lines, since>>

Next ==
  \/ \E key \in Keys, raised \in Raisable, keepsContext \in BOOLEAN :
       \E id \in 1 .. ids[key] :
         MayArrive(key, id) /\ Process(key, id, raised, keepsContext)
  \/ \E a \in 1 .. Len(alerts) : TimerFires(a) \/ TakeCapture(a) \/ AwaitContext(a)
  \/ \E key \in Keys : ContainerAttached(key)
  \/ Close \/ CloseEnds

(* Timers fire and goroutines run; lines and container events may stop.    *)
(* It is enough that some alert moves, since each moves a few times only.  *)
Fairness ==
  /\ WF_vars(\E a \in 1 .. Len(alerts) : TimerFires(a) \/ TakeCapture(a) \/ AwaitContext(a))
  /\ WF_vars(CloseEnds)

Spec == Init /\ [][Next]_vars /\ Fairness

-----------------------------------------------------------------------------
(* Properties                                                              *)

Alerts == { alerts[a] : a \in 1 .. Len(alerts) }

\* Every alert reaches the sink exactly once or was discarded by RemoveContainer,
\* never both: the timer, Add, Cancel and Close may all try to complete it.  When
\* Close has returned none is still on its way.
EmittedOnce ==
  \A alert \in Alerts :
    /\ alert.sent = IF alert.pc = "done" /\ ~alert.discard THEN 1 ELSE 0
    /\ closer = "returned" => alert.sent = 1 \/ alert.discard

\* The pending map holds exactly the alerts somebody still waits for, so neither
\* emission nor removal leaves an entry behind.
NoLeak ==
  \A a \in 1 .. Len(alerts) :
    (\E k \in Keys : a \in pending[k]) <=> (alerts[a].pc # "done" /\ ~alerts[a].discard)

\* An alert's context is the run of kept lines around its trigger: as many before
\* it as the rule asks and the buffer holds, and the ones right after it, the
\* trigger itself in neither.
ContextExact ==
  \A alert \in Alerts :
    LET all == lines[alert.key]
        had == alert.at - alert.base
        b == Len(alert.before)
        most == IF Before[alert.rule] < Capacity THEN Before[alert.rule] ELSE Capacity
    IN /\ alert.trigger = all[alert.at + 1]
       /\ b = IF had < most THEN had ELSE most
       /\ alert.before = SubSeq(all, alert.at - b + 1, alert.at)
       /\ Len(alert.after) <= After[alert.rule]
       /\ alert.after = SubSeq(all, alert.at + 2, alert.at + 1 + Len(alert.after))

\* What an alert carries to the sink fits max_bytes and is the run of lines around the
\* trigger that the comment of Capture.Lines promises, although the ring moved on and
\* the collector was completed by another goroutine meanwhile.
RenderedExact ==
  \A alert \in Alerts : alert.sent > 0 =>
    Promised(alert.context, Texts(alert.before), Text[alert.trigger.n], Texts(alert.after),
             MaxBytes[alert.rule])

\* Close returns: every goroutine it waits for is woken by some completion.
CloseReturns == (closer = "waiting") ~> (closer = "returned")

\* tasks.md: the log lines of one container do not appear in the context of
\* another one.
ContextSameContainer ==
  \A alert \in Alerts :
    /\ \A i \in 1 .. Len(alert.before) : alert.before[i].id = alert.trigger.id
    /\ \A i \in 1 .. Len(alert.after) : alert.after[i].id = alert.trigger.id
=============================================================================
