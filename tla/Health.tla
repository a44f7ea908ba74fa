------------------------------- MODULE Health -------------------------------
(***************************************************************************)
(* internal/metrics/metrics.go, type Health, with the calls that feed it:  *)
(* probeDocker and discover (DockerAvailable) and observeAttached.  The    *)
(* checkpoint part of the verdict is in CheckpointStore.tla.  A call of    *)
(* the Docker API takes no time, and the probe ticker fires when it is due.*)
(***************************************************************************)
EXTENDS Integers

CONSTANTS
  Configured,     \* cfg.Containers, as written
  Normalized,     \* normalizeName of each of them
  DockerAfter,    \* Health.dockerAfter
  DetachedAfter,  \* Health.detachedAfter
  Zero,           \* the zero time
  MaxTime         \* bound on the clock

ASSUME HealthAssumption ==
  /\ DockerAfter \in Nat \ {0} /\ DetachedAfter \in Nat /\ MaxTime \in Nat
  /\ Configured # {}
  /\ Zero \notin Nat

VARIABLES
  now,            \* the clock
  up,             \* the Docker API answers
  changed,        \* history: when up last changed
  due,            \* when the probe ticker fires next
  lastDockerOK, attached, detachedSince,   \* Health
  lostAt          \* history: since when each container is known to be detached

vars == <<now, up, changed, due, lastDockerOK, attached, detachedSince, lostAt>>

Targets == { Normalized[c] : c \in Configured }

TypeOK ==
  /\ now \in 0 .. MaxTime /\ lastDockerOK \in 0 .. now /\ changed \in 0 .. now
  /\ due \in now .. now + DockerAfter
  /\ DOMAIN attached \in SUBSET (Configured \cup Targets)
  /\ \A c \in DOMAIN attached : (detachedSince[c] = Zero) <=> attached[c]

Init ==
  /\ now = 0 /\ up \in BOOLEAN /\ changed = 0 /\ due = 0
  /\ lastDockerOK = 0
  /\ attached = [c \in Configured |-> FALSE]
  /\ detachedSince = [c \in Configured \cup Targets |-> IF c \in Configured THEN 0 ELSE Zero]
  /\ lostAt = [n \in Targets |-> IF n \in Configured THEN 0 ELSE Zero]

Tick ==
  /\ now < MaxTime /\ now < due
  /\ now' = now + 1
  /\ UNCHANGED <<up, changed, due, lastDockerOK, attached, detachedSince, lostAt>>

ApiChanges ==
  /\ up' = ~up
  /\ changed' = now
  /\ UNCHANGED <<now, due, lastDockerOK, attached, detachedSince, lostAt>>

(* Run: half of dockerAfter, unless that is zero.                          *)
ProbeInterval == IF DockerAfter \div 2 <= 0 THEN DockerAfter ELSE DockerAfter \div 2

(* Definitions named Bad... are faulty variants used to test properties.   *)
BadDockerOK == lastDockerOK' = now

DockerOK == lastDockerOK' = IF up THEN now ELSE lastDockerOK

(* probeDocker, at once and then at every tick.                            *)
Probe ==
  /\ now = due
  /\ DockerOK
  /\ due' = now + ProbeInterval
  /\ UNCHANGED <<now, up, changed, attached, detachedSince, lostAt>>

(* discover: the answer of List.                                           *)
Discovered ==
  /\ DockerOK
  /\ UNCHANGED <<now, up, changed, due, attached, detachedSince, lostAt>>

Put(f, c, v) == [k \in DOMAIN f \cup {c} |-> IF k = c THEN v ELSE f[k]]

BadSince(n, ok) == IF ok THEN Zero ELSE now

(* When n was lost: kept while it stays detached, deleted when attached.   *)
Since(n, ok) ==
  CASE ok -> Zero
    [] ~ok /\ (detachedSince[n] = Zero \/ (n \in DOMAIN attached /\ attached[n])) -> now
    [] OTHER -> detachedSince[n]

(* Attached, called with the names the source has normalized.              *)
Attached(n, ok) ==
  /\ detachedSince' = Put(detachedSince, n, Since(n, ok))
  /\ attached' = Put(attached, n, ok)
  /\ lostAt' = [lostAt EXCEPT ![n] = IF ok THEN Zero ELSE IF @ = Zero THEN now ELSE @]
  /\ UNCHANGED <<now, up, changed, due, lastDockerOK>>

(* ServeHTTP: the components that failed.                                  *)
DockerFailed == now - lastDockerOK > DockerAfter

ContainersFailed ==
  \A c \in DOMAIN attached :
    ~attached[c] /\ detachedSince[c] # Zero /\ now - detachedSince[c] > DetachedAfter

Next ==
  \/ Tick \/ ApiChanges \/ Probe \/ Discovered
  \/ \E n \in Targets, ok \in BOOLEAN : Attached(n, ok)

Spec == Init /\ [][Next]_vars

-----------------------------------------------------------------------------
(* Properties                                                              *)

\* /healthz blames Docker when its API has been away for longer than dockerAfter,
\* and not once the API has been back that long, although no container may be
\* discovered meanwhile: the probe alone keeps the verdict fresh.
DockerVerdict ==
  now - changed > DockerAfter => (DockerFailed <=> ~up)

\* /healthz blames the containers exactly when every configured one has been
\* detached, without a break, for longer than detachedAfter.  Entries under names
\* that NewHealth took as written ("/name") do not spoil the verdict.
ContainersVerdict ==
  (\A n \in Targets : n \in DOMAIN attached) =>
    (ContainersFailed <=>
       \A n \in Targets : lostAt[n] # Zero /\ now - lostAt[n] > DetachedAfter)
=============================================================================
