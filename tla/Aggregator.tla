----------------------------- MODULE Aggregator -----------------------------
(***************************************************************************)
(* internal/aggregate/aggregate.go: incident groups with a sliding window, *)
(* a cooldown, a time to live and a capacity.  Record, Len and State hold  *)
(* the mutex for their whole body, so each is one action.  A fingerprint   *)
(* includes its rule's ID, hence threshold, window and cooldown belong to  *)
(* the fingerprint.  Times are natural numbers; 0 is Go's zero time.       *)
(***************************************************************************)
EXTENDS Integers, Sequences, FiniteSets

CONSTANTS
  Fingerprints,    \* numbers, for the order evictForInsert breaks ties with
  Samples,         \* contents of log lines
  EmptySample,     \* the empty string
  EventTimes,      \* timestamps that entries carry; 0 when one carries none
  Threshold, Window, Cooldown,     \* of the rule of each fingerprint
  MaxGroups, GroupTTL, MaxSamples, \* Config
  MaxTime,         \* bound on the clock
  MaxEvents        \* bound on the events one group takes

ASSUME FingerprintsAssumption == Fingerprints \subseteq Nat
ASSUME EventTimesAssumption == EventTimes \subseteq Nat
ASSUME RuleAssumption ==
  /\ Threshold \in [Fingerprints -> Nat \ {0}]
  /\ Window \in [Fingerprints -> Nat \ {0}]
  /\ Cooldown \in [Fingerprints -> Nat]
ASSUME ConfigAssumption ==
  /\ MaxGroups \in Nat \ {0}
  /\ GroupTTL \in Nat \ {0}
  /\ MaxSamples \in Nat \ {0}
ASSUME BoundsAssumption == MaxTime \in Nat /\ MaxEvents \in Nat

VARIABLES
  now,      \* Clock
  groups,   \* Aggregator.groups, a function on the active fingerprints
  result,   \* what the last Record returned, with its fingerprint and time
  seen      \* history: how often each active group took an event of each time

vars == <<now, groups, result, seen>>

Active == DOMAIN groups

NoResult == [fp |-> 0, at |-> 0, alert |-> FALSE, suppressed |-> FALSE, count |-> 0]

Group == [firstSeen : Nat, lastSeen : Nat, watermark : Nat, updatedAt : Nat,
          timestamps : Seq(Nat), total : Nat, lastAlertAt : Nat,
          cooldownUntil : Nat, suppressed : Nat,
          firstSample : Samples \cup {EmptySample},
          latestSample : Samples \cup {EmptySample},
          samples : Seq(Samples \cup {EmptySample})]

TypeOK ==
  /\ now \in Nat \ {0}
  /\ Active \subseteq Fingerprints
  /\ groups \in [Active -> Group]
  /\ result \in [fp : Nat, at : Nat, alert : BOOLEAN, suppressed : BOOLEAN, count : Nat]

-----------------------------------------------------------------------------
(* Eviction.                                                               *)

Keep(gs, fps) == [f \in fps |-> gs[f]]

Expired(g) == now >= g.updatedAt + GroupTTL

evictExpired == Keep(groups, { f \in Active : ~Expired(groups[f]) })

(* The group evictForInsert's scan ends with.                              *)
Oldest(gs, f) ==
  \A h \in DOMAIN gs : \/ gs[f].updatedAt < gs[h].updatedAt
                       \/ gs[f].updatedAt = gs[h].updatedAt /\ f <= h

(* Definitions named Bad... are faulty variants used to test properties.   *)
BadEvictForInsert(gs) ==
  IF Cardinality(DOMAIN gs) <= MaxGroups
  THEN gs
  ELSE Keep(gs, { f \in DOMAIN gs : ~Oldest(gs, f) })

evictForInsert(gs) ==
  IF Cardinality(DOMAIN gs) < MaxGroups
  THEN gs
  ELSE Keep(gs, { f \in DOMAIN gs : ~Oldest(gs, f) })

-----------------------------------------------------------------------------
(* The window: binary searches in a sorted slice.                          *)

BadDiscardBefore(values, cutoff) ==
  LET index == CHOOSE i \in 1 .. Len(values) + 1 :
                 /\ \A j \in 1 .. i - 1 : values[j] <= cutoff
                 /\ i <= Len(values) => values[i] > cutoff
  IN SubSeq(values, index, Len(values))

discardBefore(values, cutoff) ==
  LET index == CHOOSE i \in 1 .. Len(values) + 1 :
                 /\ \A j \in 1 .. i - 1 : values[j] < cutoff
                 /\ i <= Len(values) => values[i] >= cutoff
  IN SubSeq(values, index, Len(values))

insertTimestamp(values, value) ==
  LET index == CHOOSE i \in 1 .. Len(values) + 1 :
                 /\ \A j \in 1 .. i - 1 : values[j] <= value
                 /\ i <= Len(values) => values[i] > value
  IN [k \in 1 .. Len(values) + 1 |->
        IF k < index THEN values[k] ELSE IF k = index THEN value ELSE values[k - 1]]

Later(a, b) == IF a < b THEN b ELSE a

(* item.timestamps once the watermark stands at w and at has been added.   *)
Slide(values, w, window, at) ==
  IF at >= w - window
  THEN insertTimestamp(discardBefore(values, w - window), at)
  ELSE discardBefore(values, w - window)

-----------------------------------------------------------------------------
(* A sample is kept once, while there is room.                             *)
addSample(samples, value) ==
  IF Len(samples) < MaxSamples /\ \A i \in 1 .. Len(samples) : samples[i] # value
  THEN Append(samples, value)
  ELSE samples

NewGroup ==
  [firstSeen |-> 0, lastSeen |-> 0, watermark |-> 0, updatedAt |-> 0,
   timestamps |-> <<>>, total |-> 0, lastAlertAt |-> 0, cooldownUntil |-> 0,
   suppressed |-> 0, firstSample |-> EmptySample, latestSample |-> EmptySample,
   samples |-> <<>>]

(* The group once the event is counted and before it is judged.            *)
Counted(g, fp, at, sample) ==
  LET w == Later(g.watermark, at)
  IN [g EXCEPT !.watermark = w,
               !.timestamps = Slide(g.timestamps, w, Window[fp], at),
               !.firstSeen = IF @ = 0 \/ at < @ THEN at ELSE @,
               !.lastSeen = Later(@, at),
               !.total = @ + 1,
               !.firstSample = IF @ = EmptySample THEN sample ELSE @,
               !.latestSample = sample,
               !.samples = addSample(@, sample),
               !.updatedAt = now]

BadSuppressesNever(g, at) == FALSE
BadSuppressesLater(g, at) ==
  g.lastAlertAt # 0 /\ at >= g.lastAlertAt /\ at < g.cooldownUntil

(* WindowCount is the length of timestamps at the last event.              *)
Suppresses(g, at) == g.lastAlertAt # 0 /\ at < g.cooldownUntil

BadAlerts(g, fp, at) == ~Suppresses(g, at) /\ Len(g.timestamps) > Threshold[fp]

Alerts(g, fp, at) == ~Suppresses(g, at) /\ Len(g.timestamps) >= Threshold[fp]

raise(g, fp, at) ==
  [g EXCEPT !.lastAlertAt = at,
            !.cooldownUntil = at + Cooldown[fp],
            !.suppressed = 0]

Judged(g, fp, at) ==
  IF Suppresses(g, at) THEN [g EXCEPT !.suppressed = @ + 1]
  ELSE IF Alerts(g, fp, at) THEN raise(g, fp, at)
  ELSE g

-----------------------------------------------------------------------------
Init ==
  /\ now = 1
  /\ groups = << >>
  /\ result = NoResult
  /\ seen = << >>

Tick ==
  /\ now < MaxTime
  /\ now' = now + 1
  /\ UNCHANGED <<groups, result, seen>>

Record(fp, timestamp, sample) ==
  LET live == evictExpired
      room == IF fp \in DOMAIN live THEN live ELSE evictForInsert(live)
      item == IF fp \in DOMAIN live THEN live[fp] ELSE NewGroup
      at == IF timestamp = 0 THEN now ELSE timestamp
      g == Counted(item, fp, at, sample)
      past == IF fp \in DOMAIN live THEN seen[fp] ELSE [t \in EventTimes \cup 1 .. MaxTime |-> 0]
  IN /\ item.total < MaxEvents
     /\ groups' = [f \in DOMAIN room \cup {fp} |->
                     IF f = fp THEN Judged(g, fp, at) ELSE room[f]]
     /\ result' = [fp |-> fp, at |-> at, alert |-> Alerts(g, fp, at),
                   suppressed |-> Suppresses(g, at),
                   count |-> IF Alerts(g, fp, at) THEN g.suppressed ELSE 0]
     /\ seen' = [f \in DOMAIN room \cup {fp} |->
                   IF f = fp THEN [past EXCEPT ![at] = @ + 1] ELSE seen[f]]
     /\ UNCHANGED now

(* Len and State change nothing but what evictExpired deletes.             *)
LenOrState ==
  /\ groups' = evictExpired
  /\ seen' = Keep(seen, DOMAIN evictExpired)
  /\ UNCHANGED <<now, result>>

Next ==
  \/ Tick
  \/ \E fp \in Fingerprints, timestamp \in EventTimes, sample \in Samples :
       Record(fp, timestamp, sample)
  \/ LenOrState

Spec == Init /\ [][Next]_vars

-----------------------------------------------------------------------------
(* Properties                                                              *)

Cutoff(f) == groups[f].watermark - Window[f]

\* The number of groups never exceeds max_groups, whatever order insertions,
\* expiries (evictExpired) and capacity evictions (evictForInsert) come in.
GroupsBounded == Cardinality(Active) <= MaxGroups

Occurrences(values, t) == Cardinality({ i \in 1 .. Len(values) : values[i] = t })

\* The binary searches of discardBefore and insertTimestamp keep the slice sorted
\* and equal to the events of the last window before the newest one, counted as
\* often as they came: no late event is lost or brought back.
WindowExact ==
  \A f \in Active :
    LET values == groups[f].timestamps
    IN /\ \A i, j \in 1 .. Len(values) : i < j => values[i] <= values[j]
       /\ \A t \in DOMAIN seen[f] :
            Occurrences(values, t) = IF t >= Cutoff(f) THEN seen[f][t] ELSE 0

\* No incident goes unreported: a group whose window is full has raised an alert,
\* and the cooldown of its last alert reaches into that window.
FullWindowAlerted ==
  \A f \in Active :
    Len(groups[f].timestamps) >= Threshold[f] =>
      /\ groups[f].lastAlertAt # 0
      /\ groups[f].cooldownUntil >= Cutoff(f)

\* Record's comment: a late record cannot reintroduce data already outside the
\* active window.  No alert is raised by, and dated to, an event that old.
AlertIsCurrent ==
  result.alert /\ result.fp \in Active => result.at >= Cutoff(result.fp)

\* While a group lives, two of its alerts are at least the cooldown apart and
\* later alerts are dated later, in whatever order the events arrive.
CooldownRespected ==
  [][\A f \in Active \cap DOMAIN groups' :
       /\ groups'[f].total > groups[f].total
       /\ result'.alert /\ result'.fp = f
       /\ groups[f].lastAlertAt # 0
       => result'.at >= groups[f].lastAlertAt + Cooldown[f]]_vars
=============================================================================
