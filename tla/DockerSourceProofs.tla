------------------------- MODULE DockerSourceProofs -------------------------
(***************************************************************************)
(* Proofs about DockerSource.tla, for any names, backoff and channel size. *)
(* A manager has at most one generation of streams, all of the container   *)
(* it found last, and none while it searches or waits; and it never finds  *)
(* an older container than before.                                         *)
(***************************************************************************)
EXTENDS DockerSource, TLAPS

ManagerRecord == [pc : Managers, id : Nat, backoff : InitialBackoff .. MaxBackoff]
LineRecord == [name : Names, id : Nat]

(* Docker: a name runs its latest container or none.                       *)
Daemons ==
  /\ up \in BOOLEAN
  /\ running \in [Names -> Nat] /\ lastID \in [Names -> Nat]
  /\ \A n \in Names : running[n] \in {0, lastID[n]}

ManagersInv ==
  /\ mgr \in [Names -> ManagerRecord]
  /\ \A n \in Names : mgr[n].id <= lastID[n]

StreamsInv ==
  \A s \in streams :
    /\ s.name \in Names /\ s.id = mgr[s.name].id
    /\ mgr[s.name].pc \in {"follow", "rewake", "stop"}

(* What the channel holds is in order and not newer than the managers.     *)
OutputInv ==
  /\ logs \in Seq(LineRecord) /\ Len(logs) <= ChannelSize
  /\ taken \in [Names -> Nat]
  /\ \A n \in Names : taken[n] <= mgr[n].id
  /\ \A i \in 1 .. Len(logs) : logs[i].id <= mgr[logs[i].name].id
  /\ OutputInOrder

(* The backoff has kept up with the failures, before and after the wait.   *)
BackoffInv ==
  /\ owed \in [Names -> Nat]
  /\ \A n \in Names :
       /\ mgr[n].pc = "wait" => owed[n] <= mgr[n].backoff
       /\ mgr[n].pc \in {"list", "inspect"} => OneMore(owed[n]) <= mgr[n].backoff
       /\ mgr[n].pc \in {"follow", "rewake"} => owed[n] = 0

AttachedInv ==
  /\ attached \in [Names -> Nat]
  /\ AttachedMeansFollowing

Rest ==
  /\ cancelled \in BOOLEAN /\ returned \in BOOLEAN
  /\ wakes \in [Names -> BOOLEAN] /\ events \in Seq(Names)
  /\ watch \in {"subscribe", "listen", "deaf", "wait", "exited"}
  /\ probe \in {"run", "exited"}

SInv == Daemons /\ ManagersInv /\ StreamsInv /\ OutputInv /\ BackoffInv /\ AttachedInv /\ Rest

LEMMA SInvInit == Init => SInv
<1> SUFFICES ASSUME Init PROVE SInv
  OBVIOUS
<1>1. Daemons /\ StreamsInv /\ AttachedInv
  BY DEF Init, Daemons, StreamsInv, AttachedInv, AttachedMeansFollowing
<1>r. Rest
  <2>1. events \in Seq(Names)
    BY DEF Init
  <2>2. wakes \in [Names -> BOOLEAN] /\ cancelled \in BOOLEAN /\ returned \in BOOLEAN
    BY Zenon DEF Init
  <2> QED
    BY <2>1, <2>2 DEF Init, Rest
<1>2. ManagersInv
  BY SourceAssumption DEF Init, ManagersInv, ManagerRecord, Managers, InitialBackoff
<1>3. OutputInv
  BY SourceAssumption DEF Init, OutputInv, OutputInOrder
<1>4. BackoffInv
  BY SourceAssumption DEF Init, BackoffInv, OneMore, InitialBackoff
<1> QED
  BY <1>1, <1>r, <1>2, <1>3, <1>4 DEF SInv

-----------------------------------------------------------------------------
(* Docker: identifiers only grow.                                          *)

LEMMA DaemonSInv == ASSUME SInv, Daemon PROVE SInv'
<1>1. UNCHANGED source
  BY DEF Daemon, Start, Stop, Outage, Recover
<1>2. Daemons' /\ \A n \in Names : lastID[n] <= lastID'[n]
  <2>1. ASSUME NEW n \in Names, Stop(n) PROVE Daemons' /\ lastID' = lastID
    BY <2>1 DEF SInv, Daemons, Stop
  <2>2. ASSUME NEW n \in Names, NEW id \in {lastID[n], lastID[n] + 1}, Start(n, id)
        PROVE  Daemons' /\ \A m \in Names : lastID[m] <= lastID'[m]
    BY <2>2 DEF SInv, Daemons, Start
  <2>3. CASE Outage \/ Recover
    <3>1. up' \in BOOLEAN /\ running' = running /\ lastID' = lastID
      BY <2>3, Zenon DEF Outage, Recover
    <3> QED
      BY <3>1 DEF SInv, Daemons
  <2>4. \A n \in Names : lastID[n] \in Nat
    BY Zenon DEF SInv, Daemons
  <2>5. CASE \E n \in Names : Stop(n) \/ \E id \in {lastID[n], lastID[n] + 1} : Start(n, id)
    BY <2>1, <2>2, <2>4, <2>5
  <2>6. CASE Outage \/ Recover
    BY <2>3, <2>4, <2>6, Zenon DEF Outage, Recover
  <2> QED
    BY <2>5, <2>6 DEF Daemon
<1>3. events' \in Seq(Names)
  BY DEF Daemon, Start, Stop, Outage, Recover, Publish, SInv, Rest
<1>4. ManagersInv'
  <2>1. mgr' = mgr /\ mgr \in [Names -> ManagerRecord]
    BY <1>1 DEF source, SInv, ManagersInv
  <2>2. ASSUME NEW n \in Names PROVE mgr[n].id <= lastID'[n]
    <3>1. mgr[n].id \in Nat /\ mgr[n].id <= lastID[n] /\ lastID[n] \in Nat /\ lastID'[n] \in Nat
      BY <1>2, <2>1 DEF SInv, ManagersInv, Daemons, ManagerRecord
    <3> QED
      BY <1>2, <3>1
  <2> QED
    BY <2>1, <2>2 DEF ManagersInv
<1>5. StreamsInv' /\ BackoffInv' /\ AttachedInv' /\ Rest'
  BY <1>1, <1>3 DEF source, history, SInv, StreamsInv, BackoffInv, AttachedInv,
                    AttachedMeansFollowing, Rest
<1>6. OutputInv'
  BY <1>1 DEF source, history, SInv, OutputInv, OutputInOrder
<1> QED
  BY <1>2, <1>4, <1>5, <1>6 DEF SInv

-----------------------------------------------------------------------------
(* A manager                                                               *)

LEMMA ManagerFields ==
  ASSUME SInv, NEW n \in Names
  PROVE  /\ mgr[n] \in ManagerRecord /\ mgr[n].pc \in Managers /\ mgr[n].id \in Nat
         /\ mgr[n].backoff \in Nat /\ InitialBackoff <= mgr[n].backoff
         /\ mgr[n].backoff <= MaxBackoff
         /\ mgr[n].id <= lastID[n] /\ running[n] \in {0, lastID[n]} /\ lastID[n] \in Nat
BY SourceAssumption DEF SInv, Daemons, ManagersInv, ManagerRecord, InitialBackoff

\* What a manager's step leaves to show: it keeps its record well-formed, and its
\* container is none older than the one before.
LEMMA ManagerMoves ==
  ASSUME SInv, NEW n \in Names, NEW m \in ManagerRecord,
         mgr' = [mgr EXCEPT ![n] = m], mgr[n].id <= m.id, m.id <= lastID[n],
         UNCHANGED <<docker, logs, taken>>
  PROVE  Daemons' /\ ManagersInv' /\ OutputInv'
<1>1. /\ running' = running /\ lastID' = lastID /\ up' = up
      /\ logs' = logs /\ taken' = taken
  BY DEF docker
<1>2. Daemons' /\ ManagersInv'
  BY <1>1 DEF SInv, Daemons, ManagersInv
<1>3. \A k \in Names : mgr[k].id \in Nat /\ mgr'[k].id \in Nat /\ mgr[k].id <= mgr'[k].id
  BY <1>2 DEF SInv, ManagersInv, ManagerRecord
<1>4. \A k \in Names : taken[k] <= mgr'[k].id
  BY <1>3 DEF SInv, OutputInv
<1>5. \A i \in 1 .. Len(logs) : logs[i].id <= mgr'[logs[i].name].id
  <2> SUFFICES ASSUME NEW i \in 1 .. Len(logs) PROVE logs[i].id <= mgr'[logs[i].name].id
    OBVIOUS
  <2>1. logs[i].name \in Names /\ logs[i].id \in Nat /\ logs[i].id <= mgr[logs[i].name].id
    <3>1. logs[i] \in LineRecord
      BY DEF SInv, OutputInv
    <3> QED
      BY <3>1 DEF SInv, OutputInv, LineRecord
  <2> QED
    BY <1>3, <2>1
<1>6. OutputInv'
  BY <1>1, <1>4, <1>5, Zenon DEF SInv, OutputInv, OutputInOrder
<1> QED
  BY <1>2, <1>6

\* A step that only moves a manager's program counter.
LEMMA ManagerGoes ==
  ASSUME SInv, NEW n \in Names, NEW pc \in Managers, Goto(n, pc)
  PROVE  /\ [mgr[n] EXCEPT !.pc = pc] \in ManagerRecord
         /\ mgr' = [mgr EXCEPT ![n] = [mgr[n] EXCEPT !.pc = pc]]
         /\ mgr'[n].pc = pc /\ mgr'[n].id = mgr[n].id /\ mgr'[n].backoff = mgr[n].backoff
         /\ \A k \in Names \ {n} : mgr'[k] = mgr[k]
<1>1. mgr[n] \in ManagerRecord /\ mgr \in [Names -> ManagerRecord]
  BY DEF SInv, ManagersInv
<1>2. [mgr[n] EXCEPT !.pc = pc] \in ManagerRecord
  BY <1>1, Zenon DEF ManagerRecord
<1>3. mgr' = [mgr EXCEPT ![n] = [mgr[n] EXCEPT !.pc = pc]]
  BY <1>1, Zenon DEF Goto
<1> QED
  BY <1>1, <1>2, <1>3 DEF ManagerRecord

(* A manager's step: what it does to the manager's own record, streams,    *)
(* report and debt, while those of the other names stay.                   *)
Moved(n, m) ==
  /\ mgr' = [mgr EXCEPT ![n] = m]
  /\ mgr[n].id <= m.id /\ m.id <= lastID[n]
  /\ UNCHANGED quiet
  /\ wakes' \in [Names -> BOOLEAN]
  /\ \A s \in streams' :
       IF s.name = n THEN s.id = m.id /\ m.pc \in {"follow", "rewake", "stop"}
                     ELSE \E t \in streams : t.name = s.name /\ t.id = s.id
  /\ owed' \in [Names -> Nat]
  /\ \A k \in Names \ {n} : owed'[k] = owed[k] /\ attached'[k] = attached[k]
  /\ m.pc = "wait" => owed'[n] <= m.backoff
  /\ m.pc \in {"list", "inspect"} => OneMore(owed'[n]) <= m.backoff
  /\ m.pc \in {"follow", "rewake"} => owed'[n] = 0
  /\ attached' \in [Names -> Nat]
  /\ attached'[n] # 0 =>
       m.pc \in {"follow", "rewake", "stop", "exited"} /\ attached'[n] = m.id

LEMMA ManagerStep ==
  ASSUME SInv, NEW n \in Names, NEW m \in ManagerRecord, Moved(n, m)
  PROVE  SInv'
<1>1. Daemons' /\ ManagersInv' /\ OutputInv'
  BY ManagerMoves, Zenon DEF quiet, Moved
<1>2. mgr'[n] = m /\ \A k \in Names \ {n} : mgr'[k] = mgr[k]
  BY DEF SInv, ManagersInv, Moved
<1>3. StreamsInv'
  <2> SUFFICES ASSUME NEW s \in streams'
               PROVE  /\ s.name \in Names /\ s.id = mgr'[s.name].id
                      /\ mgr'[s.name].pc \in {"follow", "rewake", "stop"}
    BY DEF StreamsInv
  <2>1. CASE s.name = n
    BY <1>2, <2>1 DEF Moved
  <2>2. CASE s.name # n
    <3>1. PICK t \in streams : t.name = s.name /\ t.id = s.id
      BY <2>2 DEF Moved
    <3> QED
      BY <1>2, <2>2, <3>1 DEF SInv, StreamsInv
  <2> QED
    BY <2>1, <2>2
<1>4. BackoffInv'
  <2> SUFFICES ASSUME NEW k \in Names
               PROVE  /\ mgr'[k].pc = "wait" => owed'[k] <= mgr'[k].backoff
                      /\ mgr'[k].pc \in {"list", "inspect"} =>
                           OneMore(owed'[k]) <= mgr'[k].backoff
                      /\ mgr'[k].pc \in {"follow", "rewake"} => owed'[k] = 0
    BY DEF BackoffInv, OneMore, InitialBackoff, Moved
  <2>1. CASE k = n
    BY <1>2, <2>1 DEF Moved
  <2>2. CASE k # n
    BY <1>2, <2>2 DEF SInv, BackoffInv, Moved
  <2> QED
    BY <2>1, <2>2
<1>5. AttachedInv'
  <2> SUFFICES ASSUME NEW k \in Names, attached'[k] # 0
               PROVE  /\ mgr'[k].pc \in {"follow", "rewake", "stop", "exited"}
                      /\ attached'[k] = mgr'[k].id
    BY DEF AttachedInv, AttachedMeansFollowing, Moved
  <2>1. CASE k = n
    BY <1>2, <2>1 DEF Moved
  <2>2. CASE k # n
    BY <1>2, <2>2 DEF SInv, AttachedInv, AttachedMeansFollowing, Moved
  <2> QED
    BY <2>1, <2>2
<1>6. Rest'
  BY DEF quiet, SInv, Rest, Moved
<1> QED
  BY <1>1, <1>3, <1>4, <1>5, <1>6 DEF SInv

LEMMA Unsearched ==
  ASSUME SInv, NEW n \in Names
  PROVE  /\ mgr[n].pc \in {"list", "inspect", "wait"} => attached[n] = 0
         /\ mgr[n].pc \in {"list", "inspect", "wait"} => StreamsOf(n) = {}
         /\ attached \in [Names -> Nat] /\ owed \in [Names -> Nat]
         /\ wakes \in [Names -> BOOLEAN]
         /\ \A s \in streams : s.name = n =>
              s.id = mgr[n].id /\ mgr[n].pc \in {"follow", "rewake", "stop"}
<1>1. attached \in [Names -> Nat] /\ owed \in [Names -> Nat] /\ wakes \in [Names -> BOOLEAN]
  BY DEF SInv, AttachedInv, BackoffInv, Rest
<1>2. mgr[n].pc \in {"list", "inspect", "wait"} => attached[n] = 0
  BY DEF SInv, AttachedInv, AttachedMeansFollowing
<1>3. \A s \in streams : s.name = n =>
        s.id = mgr[n].id /\ mgr[n].pc \in {"follow", "rewake", "stop"}
  BY DEF SInv, StreamsInv
<1>4. mgr[n].pc \in {"list", "inspect", "wait"} => StreamsOf(n) = {}
  BY <1>3 DEF StreamsOf
<1> QED
  BY <1>1, <1>2, <1>3, <1>4

\* The backoff keeps up with the debt: one more failure, one more doubling.
LEMMA Doubling ==
  ASSUME NEW debt \in Nat, NEW backoff \in Nat, backoff <= MaxBackoff,
         debt <= backoff, InitialBackoff <= backoff
  PROVE  /\ OneMore(debt) \in Nat /\ nextBackoff(backoff) \in Nat
         /\ OneMore(debt) <= nextBackoff(backoff)
         /\ InitialBackoff <= nextBackoff(backoff) /\ nextBackoff(backoff) <= MaxBackoff
BY SourceAssumption DEF OneMore, nextBackoff, InitialBackoff

LEMMA FirstFailure == OneMore(0) \in Nat /\ OneMore(0) <= InitialBackoff
BY SourceAssumption DEF OneMore, InitialBackoff

-----------------------------------------------------------------------------
(* The steps of a manager                                                  *)

LEMMA ListSInv == ASSUME SInv, NEW n \in Names, List(n) PROVE SInv'
<1> DEFINE m == [mgr[n] EXCEPT !.pc = "inspect", !.id = running[n]]
<1>1. /\ mgr[n].pc = "list" /\ running[n] # 0
      /\ UNCHANGED <<quiet, wakes, streams, attached, owed>>
  BY DEF List
<1>2. running[n] \in Nat /\ running[n] = lastID[n] /\ mgr[n].id <= running[n]
  BY <1>1, ManagerFields
<1>3. mgr' = [mgr EXCEPT ![n] = m]
  BY Zenon DEF List, SInv, ManagersInv
<1>4. m \in ManagerRecord
  BY <1>2, ManagerFields, Zenon DEF ManagerRecord, Managers
<1>5. m.pc = "inspect" /\ m.id = running[n] /\ m.backoff = mgr[n].backoff
  BY ManagerFields DEF ManagerRecord
<1>6. OneMore(owed[n]) <= mgr[n].backoff
  BY <1>1 DEF SInv, BackoffInv
<1>7. StreamsOf(n) = {} /\ attached[n] = 0
  BY <1>1, Unsearched
<1> HIDE DEF m
<1>8. \A s \in streams : s.name # n
  BY <1>7 DEF StreamsOf
<1>9. Moved(n, m)
  BY <1>1, <1>2, <1>3, <1>4, <1>5, <1>6, <1>7, <1>8, Unsearched DEF Moved
<1> QED
  BY <1>4, <1>9, ManagerStep, Zenon

LEMMA AttachSInv == ASSUME SInv, NEW n \in Names, Attach(n) PROVE SInv'
<1> DEFINE m == [mgr[n] EXCEPT !.pc = "follow", !.backoff = InitialBackoff]
<1>1. /\ mgr[n].pc = "inspect" /\ UNCHANGED <<quiet, wakes>>
      /\ attached' = [attached EXCEPT ![n] = mgr[n].id]
      /\ owed' = [owed EXCEPT ![n] = 0]
      /\ streams' = streams \cup
                      {[name |-> n, id |-> mgr[n].id, open |-> FALSE, stop |-> FALSE]}
  BY DEF Attach
<1>2. mgr' = [mgr EXCEPT ![n] = m]
  BY Zenon DEF Attach, SInv, ManagersInv
<1>3. InitialBackoff \in InitialBackoff .. MaxBackoff
  BY SourceAssumption DEF InitialBackoff
<1>4. m \in ManagerRecord
  BY <1>3, ManagerFields, Zenon DEF ManagerRecord, Managers
<1>5. m.pc = "follow" /\ m.id = mgr[n].id /\ m.id \in Nat /\ m.id <= lastID[n]
  BY ManagerFields DEF ManagerRecord
<1> HIDE DEF m
<1>6. \A s \in streams' :
        IF s.name = n THEN s.id = m.id /\ m.pc \in {"follow", "rewake", "stop"}
                      ELSE \E t \in streams : t.name = s.name /\ t.id = s.id
  BY <1>1, <1>5, Unsearched
<1>7. /\ attached' \in [Names -> Nat] /\ owed' \in [Names -> Nat]
      /\ attached'[n] = m.id /\ owed'[n] = 0
      /\ \A k \in Names \ {n} : owed'[k] = owed[k] /\ attached'[k] = attached[k]
  BY <1>1, <1>5, Unsearched
<1>8. wakes' \in [Names -> BOOLEAN]
  BY <1>1, Unsearched
<1>9. Moved(n, m)
  BY <1>1, <1>2, <1>4, <1>5, <1>6, <1>7, <1>8 DEF Moved
<1> QED
  BY <1>4, <1>9, ManagerStep, Zenon

LEMMA DiscoverFailsSInv == ASSUME SInv, NEW n \in Names, DiscoverFails(n) PROVE SInv'
<1> DEFINE m == [mgr[n] EXCEPT !.pc = "wait"]
<1>1. /\ mgr[n].pc \in {"list", "inspect"} /\ UNCHANGED <<quiet, wakes, streams>>
      /\ attached' = [attached EXCEPT ![n] = 0]
      /\ owed' = [owed EXCEPT ![n] = OneMore(owed[n])] /\ Goto(n, "wait")
  BY DEF DiscoverFails, Unsearched
<1>2. /\ m \in ManagerRecord /\ mgr' = [mgr EXCEPT ![n] = m]
      /\ m.pc = "wait" /\ m.id = mgr[n].id /\ m.backoff = mgr[n].backoff
  BY <1>1, ManagerGoes, ManagerFields, Zenon DEF Managers, ManagerRecord
<1>3. OneMore(owed[n]) <= mgr[n].backoff /\ OneMore(owed[n]) \in Nat
  BY <1>1, SourceAssumption DEF SInv, BackoffInv, OneMore, InitialBackoff
<1> HIDE DEF m
<1>4. \A s \in streams : s.name # n
  BY <1>1, Unsearched DEF StreamsOf
<1>5. /\ attached' \in [Names -> Nat] /\ owed' \in [Names -> Nat]
      /\ attached'[n] = 0 /\ owed'[n] = OneMore(owed[n])
      /\ \A k \in Names \ {n} : owed'[k] = owed[k] /\ attached'[k] = attached[k]
  BY <1>1, <1>3, Unsearched
<1>9. Moved(n, m)
  BY <1>1, <1>2, <1>3, <1>4, <1>5, ManagerFields, Unsearched DEF Moved
<1> QED
  BY <1>2, <1>9, ManagerStep, Zenon

LEMMA WaitEndsSInv == ASSUME SInv, NEW n \in Names, WaitEnds(n) PROVE SInv'
<1> DEFINE m == [mgr[n] EXCEPT !.pc = "list", !.backoff = nextBackoff(mgr[n].backoff)]
<1>1. /\ mgr[n].pc = "wait" /\ UNCHANGED <<quiet, streams, attached, owed>>
      /\ wakes' \in {wakes, [wakes EXCEPT ![n] = FALSE]}
  BY DEF WaitEnds
<1>2. mgr' = [mgr EXCEPT ![n] = m]
  BY Zenon DEF WaitEnds, SInv, ManagersInv
<1>3. owed[n] \in Nat /\ owed[n] <= mgr[n].backoff
  BY <1>1 DEF SInv, BackoffInv
<1>4. /\ nextBackoff(mgr[n].backoff) \in InitialBackoff .. MaxBackoff
      /\ OneMore(owed[n]) <= nextBackoff(mgr[n].backoff)
  BY <1>3, ManagerFields, Doubling DEF InitialBackoff
<1>5. m \in ManagerRecord
  BY <1>4, ManagerFields, Zenon DEF ManagerRecord, Managers
<1>6. m.pc = "list" /\ m.id = mgr[n].id /\ m.backoff = nextBackoff(mgr[n].backoff)
  BY ManagerFields DEF ManagerRecord
<1> HIDE DEF m
<1>7. \A s \in streams : s.name # n
  BY <1>1, Unsearched DEF StreamsOf
<1>8. wakes' \in [Names -> BOOLEAN]
  BY <1>1, Unsearched, Zenon
<1>9. Moved(n, m)
  BY <1>1, <1>2, <1>4, <1>5, <1>6, <1>7, <1>8, ManagerFields, Unsearched DEF Moved
<1> QED
  BY <1>5, <1>9, ManagerStep, Zenon

\* The other steps of a manager move its program counter and nothing else of its record.
LEMMA GotoSInv ==
  ASSUME SInv, NEW n \in Names, NEW pc \in Managers, Goto(n, pc),
         UNCHANGED <<quiet, owed>>, wakes' \in [Names -> BOOLEAN],
         \A s \in streams' : s.name = n => pc \in {"follow", "rewake", "stop"},
         \A s \in streams' : \E t \in streams : t.name = s.name /\ t.id = s.id,
         pc \in {"wait", "list", "follow", "rewake"} => owed[n] = 0,
         pc # "inspect",
         attached' \in [Names -> Nat],
         \A k \in Names \ {n} : attached'[k] = attached[k],
         attached'[n] # 0 => /\ pc \in {"follow", "rewake", "stop", "exited"}
                             /\ attached'[n] = mgr[n].id
  PROVE  SInv'
<1> DEFINE m == [mgr[n] EXCEPT !.pc = pc]
<1>1. m \in ManagerRecord /\ mgr' = [mgr EXCEPT ![n] = m]
  BY ManagerGoes, Zenon
<1>2. m.pc = pc /\ m.id = mgr[n].id /\ m.backoff = mgr[n].backoff
  BY ManagerFields DEF ManagerRecord
<1> HIDE DEF m
<1>3. OneMore(0) <= mgr[n].backoff /\ 0 <= mgr[n].backoff
  BY FirstFailure, ManagerFields, SMTT(30) DEF InitialBackoff
<1>4. \A s \in streams' :
        IF s.name = n THEN s.id = m.id /\ m.pc \in {"follow", "rewake", "stop"}
                      ELSE \E t \in streams : t.name = s.name /\ t.id = s.id
  <2> SUFFICES ASSUME NEW s \in streams', s.name = n PROVE s.id = m.id
    BY <1>2
  <2>1. PICK t \in streams : t.name = s.name /\ t.id = s.id
    OBVIOUS
  <2> QED
    BY <1>2, <2>1, Unsearched
<1>5. owed' \in [Names -> Nat] /\ owed' = owed
  BY Unsearched
<1>6. mgr[n].id <= m.id /\ m.id <= lastID[n]
  BY <1>2, ManagerFields, SMTT(30)
<1>7. Moved(n, m)
  BY <1>1, <1>2, <1>3, <1>4, <1>5, <1>6 DEF Moved
<1> QED
  BY <1>1, <1>7, ManagerStep, Zenon

LEMMA Cancelled ==
  ASSUME SInv, NEW n \in Names
  PROVE  \A s \in CancelStreams(n) : \E t \in streams : t.name = s.name /\ t.id = s.id
<1> SUFFICES ASSUME NEW t \in streams
             PROVE  LET s == IF t.name = n THEN [t EXCEPT !.stop = TRUE] ELSE t
                    IN  t.name = s.name /\ t.id = s.id
  BY Zenon DEF CancelStreams
<1> QED
  OBVIOUS

LEMMA GoesSInv ==
  ASSUME SInv, NEW n \in Names,
         \/ ManagerExits(n) \/ Rewake(n) \/ RewakeDone(n) \/ StreamEnded(n)
         \/ StopFollowing(n) \/ StopDone(n)
  PROVE  SInv'
<1> USE Unsearched
<1>f. mgr[n].pc \in {"follow", "rewake"} => owed[n] = 0
  BY DEF SInv, BackoffInv
<1>a. attached[n] # 0 => attached[n] = mgr[n].id
  BY DEF SInv, AttachedInv, AttachedMeansFollowing
<1>d. ASSUME attached' = [attached EXCEPT ![n] = 0]
      PROVE  /\ attached' \in [Names -> Nat] /\ attached'[n] = 0
             /\ \A k \in Names \ {n} : attached'[k] = attached[k]
  BY <1>d
<1>1. CASE ManagerExits(n)
  <2>1. /\ Goto(n, "exited") /\ UNCHANGED <<quiet, wakes, streams, attached, owed>>
        /\ attached[n] = 0 /\ StreamsOf(n) = {}
    BY <1>1 DEF ManagerExits
  <2> QED
    BY <2>1, GotoSInv DEF Managers, StreamsOf
<1>2. CASE Rewake(n)
  <2>1. /\ Goto(n, "rewake") /\ UNCHANGED <<quiet, attached, owed>> /\ mgr[n].pc = "follow"
        /\ streams' = CancelStreams(n) /\ wakes' = [wakes EXCEPT ![n] = FALSE]
    BY <1>2 DEF Rewake
  <2>2. wakes' \in [Names -> BOOLEAN]
    BY <2>1, Zenon
  <2> QED
    BY <1>f, <1>a, <2>1, <2>2, Cancelled, GotoSInv DEF Managers
<1>3. CASE RewakeDone(n)
  <2>1. /\ Goto(n, "list") /\ UNCHANGED <<quiet, wakes, streams, owed>> /\ mgr[n].pc = "rewake"
        /\ attached' = [attached EXCEPT ![n] = 0] /\ StreamsOf(n) = {}
    BY <1>3 DEF RewakeDone
  <2> QED
    BY <1>f, <1>d, <2>1, GotoSInv DEF Managers, StreamsOf
<1>4. CASE StreamEnded(n)
  <2>1. /\ Goto(n, "wait") /\ UNCHANGED <<quiet, wakes, streams, owed>> /\ mgr[n].pc = "follow"
        /\ attached' = [attached EXCEPT ![n] = 0] /\ StreamsOf(n) = {}
    BY <1>4 DEF StreamEnded
  <2> QED
    BY <1>f, <1>d, <2>1, GotoSInv DEF Managers, StreamsOf
<1>5. CASE StopFollowing(n)
  <2>1. /\ Goto(n, "stop") /\ UNCHANGED <<quiet, wakes, attached, owed>>
        /\ streams' = CancelStreams(n)
    BY <1>5 DEF StopFollowing
  <2> QED
    BY <1>a, <2>1, Cancelled, GotoSInv DEF Managers
<1>6. CASE StopDone(n)
  <2>1. /\ Goto(n, "exited") /\ UNCHANGED <<quiet, wakes, streams, attached, owed>>
        /\ StreamsOf(n) = {}
    BY <1>6 DEF StopDone
  <2> QED
    BY <1>a, <2>1, GotoSInv DEF Managers, StreamsOf
<1> QED
  BY <1>1, <1>2, <1>3, <1>4, <1>5, <1>6

-----------------------------------------------------------------------------
(* Streams, the consumer and the rest                                      *)

LEMMA StreamSInv ==
  ASSUME SInv, NEW s \in streams, StreamOpens(s) \/ StreamEnds(s)
  PROVE  SInv'
<1>1. UNCHANGED <<idle, logs, taken>>
  BY DEF StreamOpens, StreamEnds
<1>2. \A t \in streams' : \E u \in streams : u.name = t.name /\ u.id = t.id
  <2>1. CASE StreamOpens(s)
    <3>1. [s EXCEPT !.open = TRUE].name = s.name /\ [s EXCEPT !.open = TRUE].id = s.id
      OBVIOUS
    <3> QED
      BY <2>1, <3>1, Zenon DEF StreamOpens
  <2>2. CASE StreamEnds(s)
    BY <2>2 DEF StreamEnds
  <2> QED
    BY <2>1, <2>2
<1>3. StreamsInv'
  <2> SUFFICES ASSUME NEW t \in streams'
               PROVE  /\ t.name \in Names /\ t.id = mgr'[t.name].id
                      /\ mgr'[t.name].pc \in {"follow", "rewake", "stop"}
    BY DEF StreamsInv
  <2>1. PICK u \in streams : u.name = t.name /\ u.id = t.id
    BY <1>2
  <2> QED
    BY <1>1, <2>1 DEF idle, SInv, StreamsInv
<1>4. Daemons' /\ ManagersInv' /\ BackoffInv' /\ AttachedInv' /\ Rest'
  BY <1>1, SMTT(30) DEF idle, docker, SInv, Daemons, ManagersInv, BackoffInv, AttachedInv,
              AttachedMeansFollowing, Rest
<1>5. OutputInv'
  BY <1>1, Zenon DEF idle, SInv, OutputInv, OutputInOrder
<1> QED
  BY <1>3, <1>4, <1>5 DEF SInv

LEMMA IdleSInv ==
  ASSUME SInv, UNCHANGED <<idle, streams>>, OutputInv'
  PROVE  SInv'
<1>1. Daemons' /\ ManagersInv' /\ StreamsInv'
  BY DEF idle, docker, SInv, Daemons, ManagersInv, StreamsInv
<1>2. BackoffInv' /\ AttachedInv' /\ Rest'
  BY DEF idle, SInv, BackoffInv, AttachedInv, AttachedMeansFollowing, Rest
<1> QED
  BY <1>1, <1>2 DEF SInv

LEMMA Logged ==
  ASSUME SInv, NEW i \in 1 .. Len(logs)
  PROVE  logs[i].name \in Names /\ logs[i].id \in Nat
<1>1. logs[i] \in LineRecord
  BY DEF SInv, OutputInv
<1> QED
  BY <1>1 DEF LineRecord

LEMMA EmitSInv == ASSUME SInv, NEW s \in streams, Emit(s) PROVE SInv'
<1> DEFINE line == [name |-> s.name, id |-> s.id]
<1>1. /\ UNCHANGED <<idle, streams, taken>> /\ Len(logs) < ChannelSize
      /\ logs' = Append(logs, line) /\ mgr' = mgr
  BY DEF Emit, idle
<1>2. s.name \in Names /\ s.id = mgr[s.name].id /\ s.id \in Nat
  BY ManagerFields DEF SInv, StreamsInv
<1>3. line \in LineRecord /\ line.name = s.name /\ line.id = s.id
  BY <1>2 DEF LineRecord
<1> HIDE DEF line
<1>4. /\ logs' \in Seq(LineRecord) /\ Len(logs') = Len(logs) + 1 /\ Len(logs) \in Nat
      /\ \A i \in 1 .. Len(logs) : logs'[i] = logs[i]
      /\ logs'[Len(logs) + 1] = line
  BY <1>1, <1>3 DEF SInv, OutputInv
<1>5. \A i \in 1 .. Len(logs') : logs'[i].id <= mgr'[logs'[i].name].id
  BY <1>1, <1>2, <1>3, <1>4 DEF SInv, OutputInv
<1>6. OutputInOrder'
  <2> SUFFICES ASSUME NEW i \in 1 .. Len(logs')
               PROVE  /\ taken'[logs'[i].name] <= logs'[i].id
                      /\ \A j \in i .. Len(logs') :
                           logs'[j].name = logs'[i].name => logs'[i].id <= logs'[j].id
    BY DEF OutputInOrder
  <2>1. taken'[logs'[i].name] <= logs'[i].id
    BY <1>1, <1>2, <1>3, <1>4 DEF SInv, OutputInv, OutputInOrder
  <2>2. ASSUME NEW j \in i .. Len(logs'), logs'[j].name = logs'[i].name
        PROVE  logs'[i].id <= logs'[j].id
    <3>1. CASE j <= Len(logs)
      BY <1>4, <2>2, <3>1 DEF SInv, OutputInv, OutputInOrder
    <3>2. CASE j = Len(logs) + 1 /\ i <= Len(logs)
      <4>1. logs'[i] = logs[i] /\ logs'[j] = line /\ i \in 1 .. Len(logs)
        BY <1>4, <3>2
      <4>2. logs[i].id <= mgr[logs[i].name].id
        BY <4>1 DEF SInv, OutputInv
      <4> QED
        BY <1>2, <1>3, <2>2, <4>1, <4>2
    <3>3. CASE i = Len(logs) + 1 /\ j = Len(logs) + 1
      BY <1>2, <1>3, <1>4, <3>3
    <3> QED
      BY <1>4, <3>1, <3>2, <3>3
  <2> QED
    BY <2>1, <2>2
<1>7. OutputInv'
  BY <1>1, <1>4, <1>5, <1>6, SourceAssumption DEF SInv, OutputInv
<1> QED
  BY <1>1, <1>7, IdleSInv

LEMMA TakeSInv == ASSUME SInv, Take PROVE SInv'
<1>1. /\ logs # <<>> /\ logs' = Tail(logs) /\ UNCHANGED <<idle, streams>> /\ mgr' = mgr
      /\ taken' = [taken EXCEPT ![logs[1].name] = logs[1].id]
  <2>1. Head(logs) = logs[1]
    BY DEF SInv, OutputInv, Take
  <2> QED
    BY <2>1, Zenon DEF Take, idle
<1>2. /\ Len(logs) \in Nat /\ 1 \in 1 .. Len(logs) /\ logs' \in Seq(LineRecord)
      /\ Len(logs') = Len(logs) - 1
      /\ \A i \in 1 .. Len(logs') : logs'[i] = logs[i + 1]
  BY <1>1 DEF SInv, OutputInv
<1>3. taken \in [Names -> Nat] /\ logs[1].name \in Names /\ logs[1].id \in Nat
  BY <1>2, Logged, Zenon DEF SInv, OutputInv
<1>4. taken' \in [Names -> Nat] /\ \A n \in Names : taken'[n] <= mgr'[n].id
  BY <1>1, <1>2, <1>3 DEF SInv, OutputInv
<1>5. \A i \in 1 .. Len(logs') : logs'[i].id <= mgr'[logs'[i].name].id
  BY <1>1, <1>2 DEF SInv, OutputInv
<1>6. OutputInOrder'
  <2> SUFFICES ASSUME NEW i \in 1 .. Len(logs')
               PROVE  /\ taken'[logs'[i].name] <= logs'[i].id
                      /\ \A j \in i .. Len(logs') :
                           logs'[j].name = logs'[i].name => logs'[i].id <= logs'[j].id
    BY DEF OutputInOrder
  <2>1. logs'[i] = logs[i + 1] /\ i + 1 \in 1 .. Len(logs) /\ 1 \in 1 .. Len(logs)
    BY <1>2
  <2>2. logs[i + 1].name \in Names
    BY <2>1, Logged
  <2>3. taken'[logs'[i].name] <= logs'[i].id
    <3>1. CASE logs[i + 1].name = logs[1].name
      BY <1>1, <1>3, <2>1, <3>1 DEF SInv, OutputInv, OutputInOrder
    <3>2. CASE logs[i + 1].name # logs[1].name
      BY <1>1, <1>3, <2>1, <2>2, <3>2 DEF SInv, OutputInv, OutputInOrder
    <3> QED
      BY <3>1, <3>2
  <2>4. ASSUME NEW j \in i .. Len(logs'), logs'[j].name = logs'[i].name
        PROVE  logs'[i].id <= logs'[j].id
    <3>1. logs'[j] = logs[j + 1] /\ j + 1 \in i + 1 .. Len(logs)
      BY <1>2
    <3> QED
      BY <2>1, <2>4, <3>1 DEF SInv, OutputInv, OutputInOrder
  <2> QED
    BY <2>3, <2>4
<1>7. OutputInv'
  BY <1>2, <1>4, <1>5, <1>6, SourceAssumption DEF SInv, OutputInv
<1> QED
  BY <1>1, <1>7, IdleSInv

LEMMA RestSInv ==
  ASSUME SInv, Watcher \/ ProbeExits \/ Cancel \/ RunReturns \/ UNCHANGED vars
  PROVE  SInv'
<1>1. UNCHANGED <<docker, mgr, streams, logs, attached, history>>
  BY DEF Watcher, Subscribe, SubscriptionBreaks, Wake, WatchWaitEnds, WatchExits, calm,
         ProbeExits, Cancel, RunReturns, vars
<1>2. Daemons' /\ ManagersInv' /\ StreamsInv' /\ BackoffInv' /\ AttachedInv'
  <2>1. Daemons' /\ ManagersInv'
    BY <1>1 DEF docker, SInv, Daemons, ManagersInv
  <2>2. StreamsInv' /\ BackoffInv'
    BY <1>1 DEF docker, history, SInv, StreamsInv, BackoffInv
  <2>3. AttachedInv'
    BY <1>1 DEF docker, history, SInv, AttachedInv, AttachedMeansFollowing
  <2> QED
    BY <2>1, <2>2, <2>3
<1>3. OutputInv'
  BY <1>1, ZenonT(40) DEF history, SInv, OutputInv, OutputInOrder
<1>4. Rest'
  <2> USE DEF SInv, Rest
  <2>1. CASE Subscribe \/ SubscriptionBreaks \/ WatchWaitEnds \/ WatchExits
    <3>1. /\ UNCHANGED <<wakes, cancelled, returned, probe>>
          /\ watch' \in {"subscribe", "listen", "deaf", "wait", "exited"}
          /\ events' \in {events, <<>>}
      BY <2>1 DEF Subscribe, SubscriptionBreaks, WatchWaitEnds, WatchExits, calm
    <3>2. events \in Seq(Names) /\ <<>> \in Seq(Names)
      OBVIOUS
    <3> QED
      BY <3>1, <3>2, Zenon
  <2>2. CASE Wake
    <3>1. events' \in Seq(Names) /\ Head(events) \in Names
      BY <2>2 DEF Wake
    <3>2. wakes' \in [Names -> BOOLEAN]
      BY <2>2, <3>1, Zenon DEF Wake
    <3> QED
      BY <2>2, <3>1, <3>2 DEF Wake, calm
  <2>3. CASE ProbeExits \/ Cancel \/ RunReturns
    BY <2>3, Zenon DEF ProbeExits, Cancel, RunReturns
  <2>4. CASE UNCHANGED vars
    BY <2>4 DEF vars
  <2> QED
    BY <2>1, <2>2, <2>3, <2>4 DEF Watcher
<1> QED
  BY <1>2, <1>3, <1>4 DEF SInv

LEMMA SInvNext == SInv /\ [Next]_vars => SInv'
<1> SUFFICES ASSUME SInv, [Next]_vars PROVE SInv'
  OBVIOUS
<1>1. CASE Daemon
  BY <1>1, DaemonSInv
<1>2. ASSUME NEW n \in Names, Manager(n) PROVE SInv'
  BY <1>2, ListSInv, AttachSInv, DiscoverFailsSInv, WaitEndsSInv, GoesSInv DEF Manager
<1>3. ASSUME NEW n \in Names, Stream(n) PROVE SInv'
  BY <1>3, StreamSInv DEF Stream, StreamsOf
<1>4. ASSUME NEW n \in Names, NEW s \in StreamsOf(n), Emit(s) PROVE SInv'
  BY <1>4, EmitSInv DEF StreamsOf
<1>5. CASE Take
  BY <1>5, TakeSInv
<1>6. CASE Watcher \/ ProbeExits \/ Cancel \/ RunReturns \/ UNCHANGED vars
  BY <1>6, RestSInv
<1> QED
  BY <1>1, <1>2, <1>3, <1>4, <1>5, <1>6 DEF Next

LEMMA AlwaysSInv == Spec => []SInv
BY SInvInit, SInvNext, PTL DEF Spec

-----------------------------------------------------------------------------
\* The source's variables keep their types: a manager's backoff stays between the
\* initial and the maximal one, and the channel never holds more than its capacity.
THEOREM SourceTypeCorrect == Spec => []TypeOK
<1>1. SInv => TypeOK
  BY ManagerFields DEF SInv, Daemons, OutputInv, Rest, TypeOK
<1> QED
  BY <1>1, AlwaysSInv, PTL

\* No line of a replaced container reaches the consumer after one of its successor,
\* whatever starts, stops, events and outages come between: runContainer waits for
\* the old stream, and Docker's identifiers grow.
THEOREM SourceOutputInOrder == Spec => []OutputInOrder
<1>1. SInv => OutputInOrder
  BY DEF SInv, OutputInv
<1> QED
  BY <1>1, AlwaysSInv, PTL

\* A name is never reported attached while its manager searches or backs off.
THEOREM SourceAttachedMeansFollowing == Spec => []AttachedMeansFollowing
<1>1. SInv => AttachedMeansFollowing
  BY DEF SInv, AttachedInv
<1> QED
  BY <1>1, AlwaysSInv, PTL

\* Failures in a row double the wait of runContainer up to the maximum, for every
\* maximum, also one that is no power of two of the initial backoff.
THEOREM SourceRetriesBackOff == Spec => []RetriesBackOff
<1>1. ASSUME SInv PROVE RetriesBackOff
  BY <1>1, ManagerFields DEF SInv, BackoffInv, RetriesBackOff
<1> QED
  BY <1>1, AlwaysSInv, PTL
=============================================================================
