-------------------------- MODULE SourceSideProofs --------------------------
(***************************************************************************)
(* What TLAPS proves about the two parts beside the Docker source: the     *)
(* health endpoint, for all configured names and both intervals, and the   *)
(* decoder of the log stream, for chunks of any length and content.        *)
(***************************************************************************)
EXTENDS Health, LogDecoder, SequenceTheorems, WellFoundedInduction, TLAPS

-----------------------------------------------------------------------------
(* The clocks: while the API is away nothing moves lastDockerOK; while it  *)
(* is back, the last probe after its return has moved it.                  *)

Clocks ==
  /\ now \in Nat /\ changed \in Nat /\ due \in Nat /\ lastDockerOK \in Nat
  /\ now <= MaxTime /\ lastDockerOK <= now /\ changed <= now
  /\ now <= due /\ due <= now + ProbeInterval
  /\ up \in BOOLEAN
  /\ ~up => lastDockerOK <= changed
  /\ up /\ changed < due - ProbeInterval => lastDockerOK >= due - ProbeInterval

\* The probe interval of Run is positive and at most dockerAfter.
LEMMA ProbesInTime ==
  ProbeInterval \in Nat /\ 0 < ProbeInterval /\ ProbeInterval <= DockerAfter
BY HealthAssumption DEF ProbeInterval

LEMMA ClocksInit == Init => Clocks
BY ProbesInTime, HealthAssumption DEF Init, Clocks

LEMMA ClocksNext == Clocks /\ [Next]_vars => Clocks'
<1> SUFFICES ASSUME Clocks, [Next]_vars PROVE Clocks'
  OBVIOUS
<1> DEFINE P == ProbeInterval
<1>0. P \in Nat /\ 0 < P
  BY ProbesInTime
<1>c. P' = P
  BY DEF ProbeInterval
<1> HIDE DEF P
<1> USE DEF Clocks
<1>1. CASE Tick
  BY <1>0, <1>c, <1>1, HealthAssumption DEF Tick, P
<1>2. CASE ApiChanges
  BY <1>0, <1>c, <1>2 DEF ApiChanges, P
<1>3. CASE Probe
  BY <1>0, <1>c, <1>3 DEF Probe, DockerOK, P
<1>4. CASE Discovered
  BY <1>0, <1>c, <1>4 DEF Discovered, DockerOK, P
<1>5. CASE \E n \in Targets, ok \in BOOLEAN : Attached(n, ok)
  BY <1>0, <1>c, <1>5 DEF Attached, P
<1>6. CASE UNCHANGED vars
  BY <1>0, <1>c, <1>6 DEF vars, P
<1> QED
  BY <1>1, <1>2, <1>3, <1>4, <1>5, <1>6 DEF Next

LEMMA ClocksVerdict == Clocks => DockerVerdict
BY ProbesInTime, HealthAssumption DEF Clocks, DockerVerdict, DockerFailed

\* /healthz blames Docker exactly when its API is away, once that has lasted longer
\* than dockerAfter either way: for every interval, the probe of half of it suffices.
THEOREM HealthDockerVerdict == Spec => []DockerVerdict
BY ClocksInit, ClocksNext, ClocksVerdict, PTL DEF Spec

-----------------------------------------------------------------------------
(* The entries: those of the names the source uses follow the attachments, *)
(* those that only NewHealth wrote stay detached since the start.          *)

Entries ==
  /\ now \in Nat
  /\ DOMAIN attached \subseteq Configured \cup Targets
  /\ Configured \subseteq DOMAIN attached
  /\ DOMAIN detachedSince = Configured \cup Targets
  /\ DOMAIN lostAt = Targets
  /\ \A c \in DOMAIN attached : attached[c] \in BOOLEAN
  /\ \A c \in DOMAIN attached : attached[c] <=> detachedSince[c] = Zero
  /\ \A n \in Targets : detachedSince[n] = lostAt[n]
  /\ \A n \in Targets : lostAt[n] \in Nat \cup {Zero}
  /\ \A n \in Targets \ DOMAIN attached : lostAt[n] = Zero
  /\ \A c \in Configured \ Targets : detachedSince[c] = 0

LEMMA EntriesInit == Init => Entries
BY HealthAssumption DEF Init, Entries

LEMMA EntriesAttached ==
  ASSUME Entries, NEW n \in Targets, NEW ok \in BOOLEAN, Attached(n, ok)
  PROVE  Entries'
<1>1. detachedSince' = [k \in Configured \cup Targets |->
                          IF k = n THEN Since(n, ok) ELSE detachedSince[k]]
  BY DEF Attached, Put, Entries
<1>2. attached' = [k \in DOMAIN attached \cup {n} |-> IF k = n THEN ok ELSE attached[k]]
  BY DEF Attached, Put, Entries
<1>3. lostAt' = [k \in Targets |->
                   IF k = n THEN IF ok THEN Zero ELSE IF lostAt[n] = Zero THEN now ELSE lostAt[n]
                   ELSE lostAt[k]]
  BY Zenon DEF Attached, Entries
<1>4. now' = now
  BY DEF Attached
<1>5. Since(n, ok) = lostAt'[n]
  <2>1. lostAt[n] = detachedSince[n]
    BY DEF Entries
  <2>2. n \in DOMAIN attached /\ attached[n] => detachedSince[n] = Zero
    BY DEF Entries
  <2> QED
    BY <1>3, <2>1, <2>2 DEF Since
<1>6. Since(n, ok) = Zero <=> ok
  <2>1. now # Zero
    BY HealthAssumption DEF Entries
  <2> QED
    BY <2>1 DEF Since
<1>7. Since(n, ok) \in Nat \cup {Zero}
  BY DEF Since, Entries
<1> QED
  <2>1. DOMAIN attached' \subseteq Configured \cup Targets /\ Configured \subseteq DOMAIN attached'
    BY <1>2 DEF Entries
  <2>2. \A c \in DOMAIN attached' : attached'[c] \in BOOLEAN
    BY <1>2 DEF Entries
  <2>3. \A c \in DOMAIN attached' : attached'[c] <=> detachedSince'[c] = Zero
    BY <1>1, <1>2, <1>6 DEF Entries
  <2>4. \A m \in Targets : detachedSince'[m] = lostAt'[m]
    BY <1>1, <1>3, <1>5 DEF Entries
  <2>5. \A m \in Targets : lostAt'[m] \in Nat \cup {Zero}
    BY <1>3, <1>5, <1>7 DEF Entries
  <2>6. \A m \in Targets \ DOMAIN attached' : lostAt'[m] = Zero
    BY <1>2, <1>3 DEF Entries
  <2>7. \A c \in Configured \ Targets : detachedSince'[c] = 0
    BY <1>1 DEF Entries
  <2> QED
    BY <1>1, <1>3, <1>4, <2>1, <2>2, <2>3, <2>4, <2>5, <2>6, <2>7, Zenon DEF Entries, Targets

LEMMA EntriesNext == Entries /\ [Next]_vars => Entries'
<1> SUFFICES ASSUME Entries, [Next]_vars PROVE Entries'
  OBVIOUS
<1>1. CASE Tick
  BY <1>1 DEF Tick, Entries, Targets
<1>2. CASE ApiChanges \/ Probe \/ Discovered \/ UNCHANGED vars
  BY <1>2 DEF ApiChanges, Probe, Discovered, vars, Entries, Targets
<1>3. CASE \E n \in Targets, ok \in BOOLEAN : Attached(n, ok)
  BY <1>3, EntriesAttached
<1> QED
  BY <1>1, <1>2, <1>3 DEF Next

LEMMA EntriesVerdict == Entries => ContainersVerdict
<1> SUFFICES ASSUME Entries, \A n \in Targets : n \in DOMAIN attached
             PROVE  ContainersFailed <=>
                      \A n \in Targets : lostAt[n] # Zero /\ now - lostAt[n] > DetachedAfter
  BY DEF ContainersVerdict
<1>1. ASSUME ContainersFailed
      PROVE  \A n \in Targets : lostAt[n] # Zero /\ now - lostAt[n] > DetachedAfter
  BY <1>1 DEF ContainersFailed, Entries
<1>2. ASSUME \A n \in Targets : lostAt[n] # Zero /\ now - lostAt[n] > DetachedAfter
      PROVE  ContainersFailed
  <2>1. PICK n \in Targets : TRUE
    BY HealthAssumption DEF Targets
  <2>2. lostAt[n] \in Nat
    BY <1>2, <2>1 DEF Entries
  <2>3. now - 0 > DetachedAfter
    BY <1>2, <2>1, <2>2, HealthAssumption DEF Entries
  <2>4. ASSUME NEW c \in DOMAIN attached
        PROVE  ~attached[c] /\ detachedSince[c] # Zero /\ now - detachedSince[c] > DetachedAfter
    <3>1. CASE c \in Targets
      BY <1>2, <3>1 DEF Entries
    <3>2. CASE c \notin Targets
      BY <2>3, <3>2, HealthAssumption DEF Entries
    <3> QED
      BY <3>1, <3>2
  <2> QED
    BY <2>4 DEF ContainersFailed
<1> QED
  BY <1>1, <1>2

\* /healthz blames the containers exactly when every one of them has been detached for
\* longer than detachedAfter, for any set of names in any spelling.
THEOREM HealthContainersVerdict == Spec => []ContainersVerdict
BY EntriesInit, EntriesNext, EntriesVerdict, PTL DEF Spec

\* The clocks stay in order and a name has a time of detachment exactly while it is not
\* attached.
THEOREM HealthTypeCorrect == Spec => []TypeOK
<1>1. Clocks /\ Entries => TypeOK
  BY ProbesInTime, HealthAssumption DEF Clocks, Entries, TypeOK
<1> QED
  BY <1>1, ClocksInit, ClocksNext, EntriesInit, EntriesNext, PTL DEF Spec

-----------------------------------------------------------------------------
(* Loops over a slice.                                                     *)

\* Every nonempty set of natural numbers has a least element.
LEMMA LeastNatural ==
  ASSUME NEW T, T \subseteq Nat, T # {}
  PROVE  \E x \in T : \A y \in T : x <= y
<1> DEFINE R == { ss \in Nat \X Nat : ss[1] < ss[2] }
<1>1. IsWellFoundedOn(R, Nat)
  BY NatLessThanWellFounded DEF OpToRel
<1>2. PICK x \in T : \A y \in T : ~(<<y, x>> \in R)
  <2> HIDE DEF R
  <2> QED
    BY <1>1, WFMin, Zenon
<1>3. ASSUME NEW y \in T PROVE x <= y
  <2>1. <<y, x>> \in Nat \X Nat /\ ~(<<y, x>> \in R)
    BY <1>2
  <2>2. ~(y < x)
    BY <2>1
  <2> QED
    BY <2>2
<1> QED
  BY <1>3

Turns(V, n) == [1 .. n -> [V -> V]]

Iterates(f, V, n, start, turn) ==
  /\ f \in [0 .. n -> V]
  /\ f[0] = start
  /\ \A i \in 1 .. n : f[i] = turn[i][f[i - 1]]

\* A loop of n turns has a value after each turn.
LEMMA LoopHasValues ==
  ASSUME NEW V, NEW n \in Nat, NEW start \in V, NEW turn \in Turns(V, n)
  PROVE  \E f : Iterates(f, V, n, start, turn)
<1> DEFINE P(m) == \E f \in [0 .. m -> V] :
                     f[0] = start /\ \A i \in 1 .. m : f[i] = turn[i][f[i - 1]]
           B == { m \in 0 .. n : ~P(m) }
<1>1. P(0)
  <2> DEFINE f == [i \in 0 .. 0 |-> start]
  <2>1. f \in [0 .. 0 -> V] /\ f[0] = start /\ \A i \in 1 .. 0 : f[i] = turn[i][f[i - 1]]
    OBVIOUS
  <2> QED
    BY <2>1, Zenon
<1>2. ASSUME NEW m \in 1 .. n, P(m - 1) PROVE P(m)
  <2>1. PICK f \in [0 .. m - 1 -> V] :
          f[0] = start /\ \A i \in 1 .. m - 1 : f[i] = turn[i][f[i - 1]]
    BY <1>2
  <2> DEFINE g == [i \in 0 .. m |-> IF i = m THEN turn[m][f[m - 1]] ELSE f[i]]
  <2>2. m - 1 \in 0 .. m - 1 /\ turn[m] \in [V -> V]
    BY DEF Turns
  <2>3. turn[m][f[m - 1]] \in V
    BY <2>2
  <2>4. g \in [0 .. m -> V]
    BY <2>3
  <2>5. g[0] = start
    BY <2>1
  <2>6. ASSUME NEW i \in 1 .. m PROVE g[i] = turn[i][g[i - 1]]
    <3>1. i - 1 \in 0 .. m /\ i - 1 # m /\ i \in 0 .. m
      OBVIOUS
    <3>2. g[i - 1] = f[i - 1]
      BY <3>1
    <3>3. CASE i = m
      BY <3>1, <3>2, <3>3
    <3>4. CASE i # m
      <4>1. g[i] = f[i] /\ i \in 1 .. m - 1
        BY <3>1, <3>4
      <4> QED
        BY <2>1, <3>2, <4>1
    <3> QED
      BY <3>3, <3>4
  <2> HIDE DEF g
  <2> QED
    BY <2>4, <2>5, <2>6
<1> HIDE DEF P
<1>3. ASSUME B # {} PROVE FALSE
  <2>0. B \subseteq Nat
    OBVIOUS
  <2>1. PICK m \in B : \A k \in B : m <= k
    <3> HIDE DEF B
    <3> QED
      BY <1>3, <2>0, LeastNatural, Zenon
  <2>2. m \in 1 .. n /\ m - 1 \in 0 .. n
    BY <1>1
  <2>3. m - 1 \notin B
    BY <2>1, <2>2
  <2> QED
    BY <1>2, <2>2, <2>3
<1>4. P(n)
  BY <1>3
<1> QED
  BY <1>4, Zenon DEF P, Iterates

-----------------------------------------------------------------------------
(* The lines of a byte sequence, one byte at a time.                       *)

StartsAt(bytes, i, m) ==
  /\ m = 1 \/ bytes[m - 1] = "n"
  /\ \A j \in m .. i - 1 : bytes[j] # "n"

\* The line that goes on at a byte starts at one place.
LEMMA LineStartIs ==
  ASSUME NEW bytes, NEW i \in Nat \ {0}
  PROVE  /\ LineStart(bytes, i) \in 1 .. i
         /\ StartsAt(bytes, i, LineStart(bytes, i))
         /\ \A m \in 1 .. i : StartsAt(bytes, i, m) => m = LineStart(bytes, i)
<1> DEFINE B == { k \in 0 .. i - 1 : i - k = 1 \/ bytes[i - k - 1] = "n" }
<1>1. \E m \in 1 .. i : StartsAt(bytes, i, m)
  <2>1. B \subseteq Nat /\ B # {}
    <3>1. i - 1 \in B
      OBVIOUS
    <3> QED
      BY <3>1
  <2>2. PICK k \in B : \A y \in B : k <= y
    <3> HIDE DEF B
    <3> QED
      BY <2>1, LeastNatural, Zenon
  <2>3. i - k \in 1 .. i /\ (i - k = 1 \/ bytes[i - k - 1] = "n")
    OBVIOUS
  <2>4. ASSUME NEW j \in i - k .. i - 1, bytes[j] = "n" PROVE FALSE
    <3>1. i - (j + 1) \in 0 .. i - 1 /\ i - (i - (j + 1)) - 1 = j /\ i - (j + 1) < k
      BY <2>3
    <3>2. i - (j + 1) \in B
      BY <2>4, <3>1
    <3> QED
      BY <2>2, <3>1, <3>2
  <2>5. StartsAt(bytes, i, i - k)
    BY <2>3, <2>4 DEF StartsAt
  <2> QED
    BY <2>3, <2>5
<1>2. LineStart(bytes, i) = CHOOSE m \in 1 .. i : StartsAt(bytes, i, m)
  BY Zenon DEF LineStart, StartsAt
<1>3. LineStart(bytes, i) \in 1 .. i /\ StartsAt(bytes, i, LineStart(bytes, i))
  BY <1>1, <1>2, Zenon
<1>4. ASSUME NEW a \in 1 .. i, NEW b \in 1 .. i, StartsAt(bytes, i, a), StartsAt(bytes, i, b), a < b
      PROVE FALSE
  <2>1. b # 1 /\ b - 1 \in a .. i - 1
    BY <1>4
  <2> QED
    BY <1>4, <2>1 DEF StartsAt
<1>5. ASSUME NEW m \in 1 .. i, StartsAt(bytes, i, m) PROVE m = LineStart(bytes, i)
  <2>1. ~(m < LineStart(bytes, i)) /\ ~(LineStart(bytes, i) < m)
    BY <1>3, <1>4, <1>5, Zenon
  <2> QED
    BY <1>3, <2>1
<1> QED
  BY <1>3, <1>5

\* Where a line starts does not depend on what comes later.
LEMMA LineStartAgrees ==
  ASSUME NEW b, NEW c, NEW i \in Nat \ {0}, \A j \in 1 .. i - 1 : b[j] = c[j]
  PROVE  LineStart(b, i) = LineStart(c, i)
<1>1. LineStart(b, i) \in 1 .. i /\ StartsAt(b, i, LineStart(b, i))
  BY LineStartIs
<1>2. StartsAt(c, i, LineStart(b, i))
  BY <1>1 DEF StartsAt
<1> QED
  BY <1>1, <1>2, LineStartIs, Zenon

\* A line feed starts a line, any other byte goes on with one.
LEMMA LineStartStep ==
  ASSUME NEW b, NEW i \in Nat \ {0}
  PROVE  LineStart(b, i + 1) = IF b[i] = "n" THEN i + 1 ELSE LineStart(b, i)
<1>1. LineStart(b, i) \in 1 .. i /\ StartsAt(b, i, LineStart(b, i))
  BY LineStartIs
<1>2. i + 1 \in Nat \ {0}
  OBVIOUS
<1>3. CASE b[i] = "n"
  <2>1. StartsAt(b, i + 1, i + 1) /\ i + 1 \in 1 .. i + 1
    BY <1>3 DEF StartsAt
  <2> QED
    BY <1>2, <1>3, <2>1, LineStartIs, Zenon
<1>4. CASE b[i] # "n"
  <2>1. StartsAt(b, i + 1, LineStart(b, i)) /\ LineStart(b, i) \in 1 .. i + 1
    <3>1. ASSUME NEW j \in LineStart(b, i) .. i + 1 - 1 PROVE b[j] # "n"
      BY <1>1, <1>4 DEF StartsAt
    <3> QED
      BY <1>1, <3>1 DEF StartsAt
  <2> QED
    BY <1>2, <1>4, <2>1, LineStartIs, Zenon
<1> QED
  BY <1>3, <1>4, Zenon

Bytes == Seq(Byte)
Lines == Seq(Bytes)

IsStretch(u, s, a, b) ==
  /\ Len(u) = IF a <= b THEN b - a + 1 ELSE 0
  /\ \A i \in 1 .. b - a + 1 : u[i] = s[a + i - 1]

\* A stretch of a sequence.
LEMMA Stretch ==
  ASSUME NEW S, NEW s \in Seq(S), NEW a \in Nat \ {0}, NEW b \in 0 .. Len(s)
  PROVE  SubSeq(s, a, b) \in Seq(S) /\ IsStretch(SubSeq(s, a, b), s, a, b)
<1>1. a \in Int /\ b \in Int /\ \A i \in a .. b : s[i] \in S
  OBVIOUS
<1> QED
  BY <1>1, SubSeqProperties DEF IsStretch

\* Two sequences that agree on a stretch have the same stretch.
LEMMA SameStretch ==
  ASSUME NEW S, NEW s \in Seq(S), NEW t \in Seq(S),
         NEW a \in Nat \ {0}, NEW b \in Nat, b <= Len(s), b <= Len(t),
         \A i \in a .. b : s[i] = t[i]
  PROVE  SubSeq(s, a, b) = SubSeq(t, a, b)
<1>1. b \in 0 .. Len(s) /\ b \in 0 .. Len(t)
  OBVIOUS
<1> DEFINE u == SubSeq(s, a, b)
           v == SubSeq(t, a, b)
<1>2. u \in Seq(S) /\ IsStretch(u, s, a, b)
  BY <1>1, Stretch, Zenon
<1>3. v \in Seq(S) /\ IsStretch(v, t, a, b)
  BY <1>1, Stretch, Zenon
<1> HIDE DEF u, v
<1>4. ASSUME NEW i \in 1 .. b - a + 1 PROVE u[i] = v[i]
  <2>1. u[i] = s[a + i - 1] /\ v[i] = t[a + i - 1]
    BY <1>2, <1>3, Zenon DEF IsStretch
  <2>2. a + i - 1 \in a .. b
    OBVIOUS
  <2> QED
    BY <2>1, <2>2, Zenon
<1>5. Len(u) = Len(v) /\ \A i \in 1 .. Len(u) : u[i] = v[i]
  BY <1>2, <1>3, <1>4 DEF IsStretch
<1>6. u = v
  BY <1>2, <1>3, <1>5, SeqEqual
<1> QED
  BY <1>6 DEF u, v

\* TrimSuffix gives bytes.
LEMMA TrimCRType ==
  ASSUME NEW line \in Bytes
  PROVE  TrimCR(line) \in Bytes
<1>1. CASE line # <<>>
  <2>1. line \in Seq(Byte) /\ Len(line) - 1 \in 0 .. Len(line) /\ 1 \in Nat \ {0}
    BY <1>1 DEF Bytes
  <2>2. SubSeq(line, 1, Len(line) - 1) \in Bytes
    BY <2>1, Stretch, Zenon DEF Bytes
  <2> QED
    BY <2>2, Zenon DEF TrimCR
<1>2. CASE line = <<>>
  BY <1>2, Zenon DEF TrimCR
<1> QED
  BY <1>1, <1>2

\* One byte more.
LEMMA Extended ==
  ASSUME NEW b \in Bytes, NEW x \in Byte
  PROVE  /\ b \in Seq(Byte) /\ Len(b) \in Nat
         /\ Append(b, x) \in Seq(Byte) /\ Append(b, x) \in Bytes
         /\ Len(Append(b, x)) = Len(b) + 1
         /\ Append(b, x)[Len(b) + 1] = x
         /\ \A j \in 1 .. Len(b) : Append(b, x)[j] = b[j]
BY AppendProperties DEF Bytes

\* What follows the last line feed, after one byte more.
LEMMA EndingAppend ==
  ASSUME NEW b \in Bytes, NEW x \in Byte
  PROVE  /\ Ending(b) \in Bytes
         /\ Ending(Append(b, x)) = IF x = "n" THEN <<>> ELSE Append(Ending(b), x)
<1> DEFINE c == Append(b, x)
           n == Len(b)
           m == LineStart(b, n + 1)
<1>1. /\ b \in Seq(Byte) /\ n \in Nat /\ c \in Seq(Byte) /\ Len(c) = n + 1 /\ c[n + 1] = x
      /\ \A j \in 1 .. n : c[j] = b[j]
  BY Extended, Zenon
<1> HIDE DEF c, n
<1>2. n + 1 \in Nat \ {0} /\ n + 1 - 1 = n /\ n \in 0 .. n
  BY <1>1
<1>3. m \in 1 .. n + 1
  BY <1>2, LineStartIs, Zenon
<1>4. LineStart(c, n + 1) = m
  BY <1>1, <1>2, LineStartAgrees
<1> HIDE DEF m
<1>5. LineStart(c, n + 1 + 1) = IF x = "n" THEN n + 1 + 1 ELSE m
  BY <1>1, <1>2, <1>4, LineStartStep, Zenon
<1>6. Ending(b) = SubSeq(b, m, n)
  BY Zenon DEF Ending, m, n
<1>7. Ending(c) = SubSeq(c, IF x = "n" THEN n + 1 + 1 ELSE m, n + 1)
  BY <1>1, <1>5, Zenon DEF Ending
<1>8. m \in Nat \ {0} /\ n \in 0 .. Len(b)
  BY <1>1, <1>2, <1>3 DEF n
<1>9. SubSeq(b, m, n) \in Bytes
  BY <1>1, <1>8, Stretch, Zenon DEF Bytes
<1>10. CASE x = "n"
  <2>1. n + 1 + 1 \in Int /\ n + 1 \in Int /\ n + 1 < n + 1 + 1
    BY <1>1
  <2>2. SubSeq(c, n + 1 + 1, n + 1) = <<>>
    BY <2>1, SubSeqEmpty, Zenon
  <2> QED
    BY <1>6, <1>7, <1>9, <1>10, <2>2, Zenon DEF c
<1>11. CASE x # "n"
  <2>1. m \in 1 .. Len(c) /\ n + 1 \in m .. Len(c) /\ n <= Len(b) /\ n <= Len(c)
        /\ \A i \in m .. n : c[i] = b[i]
    BY <1>1, <1>3 DEF n
  <2>2. SubSeq(c, m, n + 1) = SubSeq(c, m, n + 1 - 1) \o <<c[n + 1]>>
    BY <1>1, <2>1, SubSeqRecursiveSecond
  <2>3. SubSeq(c, m, n) = SubSeq(b, m, n)
    BY <1>1, <1>8, <2>1, SameStretch, ZenonT(40)
  <2>4. Append(SubSeq(b, m, n), x) = SubSeq(b, m, n) \o <<x>>
    BY <1>9, AppendIsConcat, Zenon DEF Bytes
  <2> QED
    BY <1>1, <1>2, <1>6, <1>7, <1>9, <1>11, <2>2, <2>3, <2>4, Zenon DEF c
<1> QED
  BY <1>10, <1>11

\* Nothing follows the last line feed of no bytes.
LEMMA EndingNone == Ending(<<>>) = <<>>
<1>1. Len(<<>>) = 0 /\ 0 + 1 = 1 /\ 1 \in Nat \ {0} /\ 1 .. 1 = {1}
  OBVIOUS
<1>2. LineStart(<<>>, 1) = 1
  BY <1>1, LineStartIs
<1>3. SubSeq(<<>>, 1, 0) = <<>>
  BY SubSeqEmpty
<1> QED
  BY <1>1, <1>2, <1>3, Zenon DEF Ending

LineTurn(acc, bytes, i) ==
  IF bytes[i] = "n"
  THEN Append(acc, TrimCR(SubSeq(bytes, LineStart(bytes, i), i - 1)))
  ELSE acc

LineLoop(f, bytes) ==
  f = [i \in 0 .. Len(bytes) |-> IF i = 0 THEN <<>> ELSE LineTurn(f[i - 1], bytes, i)]

LEMMA CompleteIsLoop ==
  ASSUME NEW bytes
  PROVE  Complete(bytes) = (CHOOSE f : LineLoop(f, bytes))[Len(bytes)]
BY Zenon DEF Complete, LineLoop, LineTurn

LEMMA LineLoopTurn ==
  ASSUME NEW bytes, NEW f, LineLoop(f, bytes), NEW i \in 0 .. Len(bytes)
  PROVE  f[i] = IF i = 0 THEN <<>> ELSE LineTurn(f[i - 1], bytes, i)
BY Zenon DEF LineLoop

LEMMA LineTurnType ==
  ASSUME NEW bytes \in Bytes, NEW i \in 1 .. Len(bytes), NEW acc \in Lines
  PROVE  LineTurn(acc, bytes, i) \in Lines
<1>1. bytes \in Seq(Byte) /\ i \in Nat \ {0} /\ i - 1 \in 0 .. Len(bytes)
  BY DEF Bytes
<1>2. LineStart(bytes, i) \in 1 .. i
  BY <1>1, LineStartIs, Zenon
<1>3. LineStart(bytes, i) \in Nat \ {0}
  BY <1>1, <1>2
<1>4. SubSeq(bytes, LineStart(bytes, i), i - 1) \in Bytes
  BY <1>1, <1>3, Stretch, Zenon DEF Bytes
<1>5. TrimCR(SubSeq(bytes, LineStart(bytes, i), i - 1)) \in Bytes
  BY <1>4, TrimCRType, Zenon
<1>6. Append(acc, TrimCR(SubSeq(bytes, LineStart(bytes, i), i - 1))) \in Lines
  BY <1>5, AppendProperties, Zenon DEF Lines
<1> QED
  BY <1>6, Zenon DEF LineTurn

LEMMA LineLoopExists ==
  ASSUME NEW bytes \in Bytes
  PROVE  \E f : LineLoop(f, bytes) /\ f \in [0 .. Len(bytes) -> Lines]
<1> DEFINE n == Len(bytes)
           turn == [i \in 1 .. n |-> [acc \in Lines |-> LineTurn(acc, bytes, i)]]
<1>1. <<>> \in Lines
  BY DEF Lines
<1>2. ASSUME NEW i \in 1 .. n, NEW acc \in Lines PROVE LineTurn(acc, bytes, i) \in Lines
  BY LineTurnType, Zenon
<1>3. turn \in Turns(Lines, n)
  BY <1>2, Zenon DEF Turns
<1>4. n \in Nat
  BY DEF Bytes
<1> HIDE DEF n, turn
<1>5. PICK f : Iterates(f, Lines, n, <<>>, turn)
  BY <1>1, <1>3, <1>4, LoopHasValues, Zenon
<1>6. ASSUME NEW i \in 0 .. n, i # 0 PROVE f[i] = LineTurn(f[i - 1], bytes, i)
  <2>1. i \in 1 .. n /\ i - 1 \in 0 .. n
    BY <1>4, <1>6
  <2>2. f[i - 1] \in Lines /\ f[i] = turn[i][f[i - 1]]
    BY <1>5, <2>1 DEF Iterates
  <2>3. turn[i] = [acc \in Lines |-> LineTurn(acc, bytes, i)]
    BY <2>1, Zenon DEF turn
  <2> QED
    BY <2>2, <2>3, Zenon
<1>7. f = [i \in 0 .. n |-> IF i = 0 THEN <<>> ELSE LineTurn(f[i - 1], bytes, i)]
  BY <1>5, <1>6, Zenon DEF Iterates
<1> QED
  BY <1>5, <1>7, Zenon DEF LineLoop, Iterates, n

\* The loop for given bytes.
LEMMA TheLineLoop ==
  ASSUME NEW bytes \in Bytes
  PROVE  \E f : /\ LineLoop(f, bytes) /\ Complete(bytes) = f[Len(bytes)]
                /\ f[0] = <<>> /\ Complete(bytes) \in Lines
<1> DEFINE f == CHOOSE f : LineLoop(f, bytes)
<1>1. LineLoop(f, bytes)
  BY LineLoopExists, Zenon
<1>2. Complete(bytes) = f[Len(bytes)]
  BY CompleteIsLoop, Zenon
<1> HIDE DEF f
<1>3. 0 \in 0 .. Len(bytes) /\ Len(bytes) \in Nat
  BY DEF Bytes
<1>4. f[0] = <<>>
  BY <1>1, <1>3, LineLoopTurn
<1>5. Complete(bytes) \in Lines
  <2> DEFINE B == { i \in 0 .. Len(bytes) : f[i] \notin Lines }
  <2>1. ASSUME B # {} PROVE FALSE
    <3>1. B \subseteq Nat
      OBVIOUS
    <3>2. PICK k \in B : \A y \in B : k <= y
      <4> HIDE DEF B
      <4> QED
        BY <2>1, <3>1, LeastNatural, Zenon
    <3>3. <<>> \in Lines
      BY DEF Lines
    <3>4. k \in 1 .. Len(bytes) /\ k - 1 \in 0 .. Len(bytes) /\ k # 0 /\ k - 1 < k /\ k \in 0 .. Len(bytes)
      BY <1>3, <1>4, <3>3
    <3>5. f[k - 1] \in Lines
      BY <3>2, <3>4
    <3>6. f[k] = LineTurn(f[k - 1], bytes, k)
      BY <1>1, <3>4, LineLoopTurn, Zenon
    <3>7. f[k] \in Lines
      BY <3>4, <3>5, <3>6, LineTurnType, Zenon
    <3> QED
      BY <3>7
  <2> QED
    BY <1>2, <1>3, <2>1
<1> QED
  BY <1>1, <1>2, <1>4, <1>5, Zenon

\* The complete lines, after one byte more.
LEMMA CompleteAppend ==
  ASSUME NEW b \in Bytes, NEW x \in Byte
  PROVE  Complete(Append(b, x)) = IF x = "n" THEN Append(Complete(b), TrimCR(Ending(b)))
                                  ELSE Complete(b)
<1> DEFINE c == Append(b, x)
           n == Len(b)
<1>1. /\ b \in Seq(Byte) /\ n \in Nat /\ c \in Seq(Byte) /\ c \in Bytes
      /\ Len(c) = n + 1 /\ c[n + 1] = x
      /\ \A j \in 1 .. n : c[j] = b[j]
  BY Extended, Zenon
<1> HIDE DEF c
<1>2. PICK f : LineLoop(f, b) /\ Complete(b) = f[n] /\ f[0] = <<>>
  BY TheLineLoop, Zenon
<1>3. PICK g : LineLoop(g, c) /\ Complete(c) = g[n + 1] /\ g[0] = <<>>
  BY <1>1, TheLineLoop, Zenon
<1> HIDE DEF n
<1>4. ASSUME NEW i \in 1 .. n + 1
      PROVE  /\ i \in Nat \ {0} /\ LineStart(c, i) = LineStart(b, i)
             /\ SubSeq(c, LineStart(c, i), i - 1) = SubSeq(b, LineStart(b, i), i - 1)
  <2>1. i \in Nat \ {0} /\ i - 1 \in Nat /\ i - 1 <= Len(b) /\ i - 1 <= Len(c)
        /\ \A j \in 1 .. i - 1 : b[j] = c[j]
    BY <1>1 DEF n
  <2>2. LineStart(b, i) = LineStart(c, i)
    BY <2>1, LineStartAgrees, Zenon
  <2>3. LineStart(b, i) \in 1 .. i
    BY <2>1, LineStartIs, Zenon
  <2> DEFINE m == LineStart(b, i)
  <2> HIDE DEF m
  <2>4. m \in Nat \ {0} /\ \A j \in m .. i - 1 : c[j] = b[j]
    <3>1. m \in 1 .. i
      BY <2>3, Zenon DEF m
    <3> QED
      BY <2>1, <3>1
  <2>5. SubSeq(c, m, i - 1) = SubSeq(b, m, i - 1)
    BY <1>1, <2>1, <2>4, SameStretch, ZenonT(40)
  <2> QED
    BY <2>1, <2>2, <2>5, Zenon DEF m
<1>5. ASSUME NEW i \in 1 .. n, f[i - 1] = g[i - 1] PROVE f[i] = g[i]
  <2>1. i \in 0 .. Len(b) /\ i \in 0 .. Len(c) /\ i # 0 /\ i \in 1 .. n + 1
    BY <1>1 DEF n
  <2>2. f[i] = LineTurn(f[i - 1], b, i)
    BY <1>2, <2>1, LineLoopTurn, Zenon
  <2>3. g[i] = LineTurn(g[i - 1], c, i)
    BY <1>3, <2>1, LineLoopTurn, Zenon
  <2>4. c[i] = b[i]
    BY <1>1, Zenon
  <2> QED
    BY <1>4, <1>5, <2>1, <2>2, <2>3, <2>4, Zenon DEF LineTurn
<1>6. f[n] = g[n]
  <2> DEFINE B == { i \in 0 .. n : f[i] # g[i] }
  <2>1. ASSUME B # {} PROVE FALSE
    <3>1. B \subseteq Nat
      OBVIOUS
    <3>2. PICK k \in B : \A y \in B : k <= y
      <4> HIDE DEF B
      <4> QED
        BY <2>1, <3>1, LeastNatural, Zenon
    <3>3. k \in 1 .. n /\ k - 1 \in 0 .. n /\ k - 1 < k
      BY <1>1, <1>2, <1>3
    <3>4. f[k - 1] = g[k - 1]
      BY <3>2, <3>3
    <3> QED
      BY <1>5, <3>3, <3>4
  <2> QED
    BY <1>1, <2>1
<1> DEFINE k == n + 1
<1>7. k \in 0 .. Len(c) /\ k # 0 /\ k \in 1 .. n + 1 /\ k - 1 = n
  BY <1>1
<1>8. Complete(c) = g[k] /\ c[k] = x
  BY <1>1, <1>3
<1>9. Ending(b) = SubSeq(b, LineStart(b, k), n)
  BY Zenon DEF Ending, n
<1> HIDE DEF k
<1>10. g[k] = LineTurn(g[n], c, k)
  BY <1>3, <1>7, LineLoopTurn, Zenon
<1>11. SubSeq(c, LineStart(c, k), n) = Ending(b)
  BY <1>4, <1>7, <1>9, Zenon
<1>12. LineTurn(g[n], c, k) = IF x = "n" THEN Append(g[n], TrimCR(Ending(b))) ELSE g[n]
  BY <1>7, <1>8, <1>11, Zenon DEF LineTurn
<1> QED
  BY <1>2, <1>6, <1>8, <1>10, <1>12, Zenon DEF c

-----------------------------------------------------------------------------
(* The loop of the decoder.                                                *)

CutTurn(acc, chunk, i) ==
  IF chunk[i] = "n"
  THEN [lines |-> Append(acc.lines, TrimCR(acc.rest)), rest |-> <<>>]
  ELSE [lines |-> acc.lines, rest |-> Append(acc.rest, chunk[i])]

CutStart(buffered) == [lines |-> <<>>, rest |-> buffered]

CutLoop(f, buffered, chunk) ==
  f = [i \in 0 .. Len(chunk) |-> IF i = 0 THEN CutStart(buffered) ELSE CutTurn(f[i - 1], chunk, i)]

LEMMA CutLinesIsLoop ==
  ASSUME NEW buffered, NEW chunk
  PROVE  CutLines(buffered, chunk) = (CHOOSE f : CutLoop(f, buffered, chunk))[Len(chunk)]
BY Zenon DEF CutLines, CutLoop, CutTurn, CutStart

LEMMA CutLoopTurn ==
  ASSUME NEW buffered, NEW chunk, NEW f, CutLoop(f, buffered, chunk), NEW i \in 0 .. Len(chunk)
  PROVE  f[i] = IF i = 0 THEN CutStart(buffered) ELSE CutTurn(f[i - 1], chunk, i)
BY Zenon DEF CutLoop

LEMMA CutLoopExists ==
  ASSUME NEW buffered \in Bytes, NEW chunk \in Bytes
  PROVE  \E f : CutLoop(f, buffered, chunk)
<1> DEFINE n == Len(chunk)
           V == [lines : Lines, rest : Bytes]
           turn == [i \in 1 .. n |-> [acc \in V |-> CutTurn(acc, chunk, i)]]
<1>0. <<>> \in Lines /\ <<>> \in Bytes
  BY DEF Lines, Bytes
<1>1. CutStart(buffered) \in V
  BY <1>0 DEF CutStart
<1>2. ASSUME NEW i \in 1 .. n, NEW acc \in V PROVE CutTurn(acc, chunk, i) \in V
  <2>1. acc.lines \in Lines /\ acc.rest \in Bytes /\ chunk[i] \in Byte
    BY DEF Bytes
  <2>2. TrimCR(acc.rest) \in Bytes
    BY <2>1, TrimCRType, Zenon
  <2>3. Append(acc.lines, TrimCR(acc.rest)) \in Lines
    BY <2>1, <2>2, AppendProperties, Zenon DEF Lines
  <2>4. Append(acc.rest, chunk[i]) \in Bytes
    BY <2>1, AppendProperties, Zenon DEF Bytes
  <2> QED
    BY <1>0, <2>1, <2>3, <2>4 DEF CutTurn
<1>3. turn \in Turns(V, n)
  BY <1>2, Zenon DEF Turns
<1>4. n \in Nat
  BY DEF Bytes
<1> HIDE DEF n, turn, V
<1>5. PICK f : Iterates(f, V, n, CutStart(buffered), turn)
  BY <1>1, <1>3, <1>4, LoopHasValues, Zenon
<1>6. ASSUME NEW i \in 0 .. n, i # 0 PROVE f[i] = CutTurn(f[i - 1], chunk, i)
  <2>1. i \in 1 .. n /\ i - 1 \in 0 .. n
    BY <1>4, <1>6
  <2>2. f[i - 1] \in V /\ f[i] = turn[i][f[i - 1]]
    BY <1>5, <2>1 DEF Iterates
  <2>3. turn[i] = [acc \in V |-> CutTurn(acc, chunk, i)]
    BY <2>1, Zenon DEF turn
  <2> QED
    BY <2>2, <2>3, Zenon
<1>7. f = [i \in 0 .. n |-> IF i = 0 THEN CutStart(buffered) ELSE CutTurn(f[i - 1], chunk, i)]
  BY <1>5, <1>6, Zenon DEF Iterates
<1> QED
  BY <1>7, Zenon DEF CutLoop, n

\* Bytes and their first part.
LEMMA PrefixGrows ==
  ASSUME NEW b \in Bytes, NEW chunk \in Bytes, NEW i \in 1 .. Len(chunk)
  PROVE  /\ b \o SubSeq(chunk, 1, i) = Append(b \o SubSeq(chunk, 1, i - 1), chunk[i])
         /\ b \o SubSeq(chunk, 1, i - 1) \in Bytes /\ chunk[i] \in Byte
<1>1. b \in Seq(Byte) /\ chunk \in Seq(Byte) /\ chunk[i] \in Byte
  BY DEF Bytes
<1> DEFINE p == SubSeq(chunk, 1, i - 1)
<1>2. 1 \in 1 .. Len(chunk) /\ i \in 1 .. Len(chunk) /\ 1 \in Nat \ {0} /\ i - 1 \in 0 .. Len(chunk)
  BY <1>1
<1>3. SubSeq(chunk, 1, i) = p \o <<chunk[i]>>
  BY <1>1, <1>2, SubSeqRecursiveSecond
<1>4. p \in Seq(Byte) /\ <<chunk[i]>> \in Seq(Byte)
  <2>1. p \in Seq(Byte)
    BY <1>1, <1>2, Stretch, Zenon
  <2> QED
    BY <1>1, <2>1
<1> HIDE DEF p
<1>5. b \o (p \o <<chunk[i]>>) = (b \o p) \o <<chunk[i]>>
  BY <1>1, <1>4, ConcatAssociative, SMTT(40)
<1>6. b \o p \in Seq(Byte)
  BY <1>1, <1>4, ConcatProperties, Zenon
<1>7. Append(b \o p, chunk[i]) = (b \o p) \o <<chunk[i]>>
  BY <1>1, <1>6, AppendIsConcat, Zenon
<1> QED
  BY <1>1, <1>3, <1>5, <1>6, <1>7, Zenon DEF p, Bytes

Associates(a, b, c) == a \o (b \o c) = (a \o b) \o c

\* Lines put together.
LEMMA LinesJoin ==
  ASSUME NEW a \in Lines, NEW b \in Lines, NEW c \in Lines
  PROVE  a \o b \in Lines /\ b \o c \in Lines /\ Associates(a, b, c)
BY ConcatProperties, ConcatAssociative, SMTT(40) DEF Lines, Associates

\* One line more.
LEMMA LinesAppend ==
  ASSUME NEW a \in Lines, NEW b \in Lines, NEW l \in Bytes
  PROVE  Append(b, l) \in Lines /\ Append(a \o b, l) = a \o Append(b, l)
<1>1. <<l>> \in Lines
  BY DEF Lines
<1>2. a \o b \in Lines /\ b \o <<l>> \in Lines /\ Associates(a, b, <<l>>)
  BY <1>1, LinesJoin, Zenon
<1>3. Append(a \o b, l) = (a \o b) \o <<l>>
  BY <1>2, AppendIsConcat, Zenon DEF Lines
<1>4. Append(b, l) = b \o <<l>>
  BY AppendIsConcat, Zenon DEF Lines
<1> QED
  BY <1>2, <1>3, <1>4, Zenon DEF Associates

\* What a chunk adds, if what was buffered follows the last line feed: the lines it
\* completes, and what follows its last line feed.
LEMMA CutExact ==
  ASSUME NEW b \in Bytes, NEW chunk \in Bytes
  PROVE  /\ CutLines(Ending(b), chunk).lines \in Lines
         /\ CutLines(Ending(b), chunk).rest = Ending(b \o chunk)
         /\ Complete(b \o chunk) = Complete(b) \o CutLines(Ending(b), chunk).lines
<1> DEFINE f == CHOOSE f : CutLoop(f, Ending(b), chunk)
           n == Len(chunk)
           Good(i) == /\ f[i].lines \in Lines
                      /\ f[i].rest = Ending(b \o SubSeq(chunk, 1, i))
                      /\ Complete(b \o SubSeq(chunk, 1, i)) = Complete(b) \o f[i].lines
           B == { i \in 0 .. n : ~Good(i) }
<1>0. "n" \in Byte
  BY DEF Byte
<1>1. Ending(b) \in Bytes /\ n \in Nat /\ 0 \in 0 .. n
  BY <1>0, EndingAppend DEF Bytes
<1>2. CutLoop(f, Ending(b), chunk)
  BY <1>1, CutLoopExists, Zenon
<1>3. CutLines(Ending(b), chunk) = f[n]
  BY CutLinesIsLoop, Zenon
<1> HIDE DEF f
<1>4. Complete(b) \in Lines
  BY TheLineLoop, Zenon
<1>5. Good(0)
  <2>1. f[0] = CutStart(Ending(b))
    BY <1>1, <1>2, CutLoopTurn, Zenon
  <2>2. f[0].lines = <<>> /\ f[0].rest = Ending(b) /\ <<>> \in Lines
    BY <2>1 DEF CutStart, Lines
  <2>3. SubSeq(chunk, 1, 0) = <<>>
    BY SubSeqEmpty
  <2>4. b \o <<>> = b
    BY ConcatEmptySeq DEF Bytes
  <2>5. Complete(b) \o <<>> = Complete(b)
    BY <1>4, ConcatEmptySeq DEF Lines
  <2> QED
    BY <2>2, <2>3, <2>4, <2>5, Zenon
<1>6. ASSUME NEW i \in 1 .. n, Good(i - 1) PROVE Good(i)
  <2> DEFINE p == b \o SubSeq(chunk, 1, i - 1)
             q == b \o SubSeq(chunk, 1, i)
             a == f[i - 1]
  <2>1. q = Append(p, chunk[i]) /\ p \in Bytes /\ chunk[i] \in Byte
    BY PrefixGrows, Zenon
  <2>2. a.lines \in Lines /\ a.rest = Ending(p) /\ Complete(p) = Complete(b) \o a.lines
    BY <1>6, Zenon
  <2>3. i \in 0 .. Len(chunk) /\ i # 0
    BY <1>1
  <2>4. f[i] = CutTurn(a, chunk, i)
    <3> HIDE DEF Good
    <3>1. f[i] = IF i = 0 THEN CutStart(Ending(b)) ELSE CutTurn(f[i - 1], chunk, i)
      BY <1>2, <2>3, CutLoopTurn
    <3> QED
      BY <2>3, <3>1, Zenon
  <2> HIDE DEF p, q, a
  <2>5. /\ Ending(p) \in Bytes
        /\ Ending(q) = IF chunk[i] = "n" THEN <<>> ELSE Append(Ending(p), chunk[i])
    BY <2>1, EndingAppend, Zenon
  <2>6. Complete(q) = IF chunk[i] = "n" THEN Append(Complete(p), TrimCR(Ending(p))) ELSE Complete(p)
    BY <2>1, CompleteAppend, Zenon
  <2>7. TrimCR(Ending(p)) \in Bytes
    BY <2>5, TrimCRType, Zenon
  <2> DEFINE l == TrimCR(Ending(p))
  <2>8. /\ Append(Complete(b) \o a.lines, l) = Complete(b) \o Append(a.lines, l)
        /\ Append(a.lines, l) \in Lines
    BY <1>4, <2>2, <2>7, LinesAppend, Zenon
  <2> HIDE DEF l
  <2>10. CASE chunk[i] = "n"
    <3>1. f[i].lines = Append(a.lines, l) /\ f[i].rest = <<>>
      BY <2>2, <2>4, <2>10 DEF CutTurn, l
    <3> QED
      BY <2>2, <2>5, <2>6, <2>8, <2>10, <3>1, Zenon DEF q, l
  <2>11. CASE chunk[i] # "n"
    <3>1. f[i].lines = a.lines /\ f[i].rest = Append(a.rest, chunk[i])
      BY <2>4, <2>11 DEF CutTurn
    <3> QED
      BY <2>2, <2>5, <2>6, <2>11, <3>1, Zenon DEF q
  <2> QED
    BY <2>10, <2>11, Zenon
<1> HIDE DEF Good
<1>7. ASSUME B # {} PROVE FALSE
  <2>0. B \subseteq Nat
    OBVIOUS
  <2>1. PICK m \in B : \A k \in B : m <= k
    <3> HIDE DEF B
    <3> QED
      BY <1>7, <2>0, LeastNatural, Zenon
  <2>2. m \in 1 .. n /\ m - 1 \in 0 .. n
    BY <1>1, <1>5
  <2>3. m - 1 \notin B
    BY <2>1, <2>2
  <2> QED
    BY <1>6, <2>2, <2>3
<1>8. Good(n)
  BY <1>1, <1>7
<1>9. SubSeq(chunk, 1, n) = chunk
  BY SubSeqFull DEF Bytes
<1> QED
  BY <1>3, <1>8, <1>9, Zenon DEF Good

-----------------------------------------------------------------------------
(* The decoder.                                                            *)

Exact(st, o, bytes, trimmed) ==
  LET all == Complete(bytes) \o Unfinished(bytes, trimmed)
  IN /\ st = "reading" => o = Complete(bytes)
     /\ st = "ended" => o = all
     /\ st = "failed" => IsPrefixOf(o, all)

\* While the decoder reads, each buffer holds what follows the last line feed of the
\* bytes delivered on its stream.
LinesInv ==
  /\ state \in {"reading", "ended", "failed"}
  /\ fed \in [Streams -> Bytes] /\ buffers \in [Streams -> Bytes] /\ out \in [Streams -> Lines]
  /\ \A s \in Streams : buffers[s] = Ending(fed[s]) /\ Exact(state, out[s], fed[s], tty)

\* The types of the lines of a byte sequence.
LEMMA LineTypes ==
  ASSUME NEW b \in Bytes, NEW trimmed
  PROVE  Complete(b) \in Lines /\ Ending(b) \in Bytes /\ Unfinished(b, trimmed) \in Lines
<1>1. Complete(b) \in Lines
  BY TheLineLoop, Zenon
<1>2. Ending(b) \in Bytes
  <2>1. "n" \in Byte
    BY DEF Byte
  <2> QED
    BY <2>1, EndingAppend, Zenon
<1>3. TrimCR(Ending(b)) \in Bytes
  BY <1>2, TrimCRType, Zenon
<1>4. Unfinished(b, trimmed) \in Lines
  BY <1>2, <1>3 DEF Unfinished, Lines
<1> QED
  BY <1>1, <1>2, <1>4, Zenon

\* A sequence is a prefix of what begins with it.
LEMMA PrefixOfConcat ==
  ASSUME NEW a \in Lines, NEW b \in Lines
  PROVE  IsPrefixOf(a, a \o b)
<1> DEFINE c == a \o b
<1>1. /\ a \in Seq(Bytes) /\ c \in Seq(Bytes) /\ Len(a) \in Nat /\ Len(a) <= Len(c)
      /\ \A i \in 1 .. Len(a) : c[i] = a[i]
  BY ConcatProperties DEF Lines
<1> HIDE DEF c
<1>2. SubSeq(c, 1, Len(a)) = SubSeq(a, 1, Len(a))
  BY <1>1, SameStretch
<1>3. SubSeq(a, 1, Len(a)) = a
  BY <1>1, SubSeqFull
<1> QED
  BY <1>1, <1>2, <1>3, Zenon DEF IsPrefixOf, c

\* So are the first lines of a chunk, after what was sent before.
LEMMA PrefixOfSent ==
  ASSUME NEW a \in Lines, NEW l \in Lines, NEW u \in Lines, NEW k \in 0 .. Len(l)
  PROVE  Sent(l, k) \in Lines /\ IsPrefixOf(a \o Sent(l, k), (a \o l) \o u)
<1> DEFINE p == SubSeq(l, 1, k)
           q == SubSeq(l, k + 1, Len(l))
<1>1. l \in Seq(Bytes) /\ Len(l) \in 0 .. Len(l)
      /\ 1 \in Nat \ {0} /\ k + 1 \in Nat \ {0} /\ 1 \in 1 .. Len(l) + 1 /\ k \in 1 - 1 .. Len(l)
      /\ Len(l) \in k .. Len(l)
  BY DEF Lines
<1>2. p \in Lines /\ q \in Lines
  BY <1>1, Stretch, Zenon DEF Lines
<1>3. p \o q = l
  <2>1. SubSeq(l, 1, k) \o SubSeq(l, k + 1, Len(l)) = SubSeq(l, 1, Len(l))
    BY <1>1, ConcatAdjacentSubSeq, Zenon
  <2>2. SubSeq(l, 1, Len(l)) = l
    BY <1>1, SubSeqFull
  <2> QED
    BY <2>1, <2>2, Zenon
<1> HIDE DEF p, q
<1>4. a \o p \in Lines /\ Associates(a, p, q)
  BY <1>2, LinesJoin, Zenon
<1>5. q \o u \in Lines /\ Associates(a \o p, q, u)
  BY <1>2, <1>4, LinesJoin, Zenon
<1>6. IsPrefixOf(a \o p, (a \o p) \o (q \o u))
  BY <1>4, <1>5, PrefixOfConcat, Zenon
<1> QED
  BY <1>2, <1>3, <1>4, <1>5, <1>6, Zenon DEF Sent, Associates, p

LEMMA LinesInit == DecoderInit => LinesInv
<1> SUFFICES ASSUME DecoderInit PROVE LinesInv
  OBVIOUS
<1>1. <<>> \in Bytes /\ <<>> \in Lines
  BY DEF Bytes, Lines
<1>2. Complete(<<>>) = <<>>
  <2>1. PICK f : LineLoop(f, <<>>) /\ Complete(<<>>) = f[Len(<<>>)] /\ f[0] = <<>>
    BY <1>1, TheLineLoop, Zenon
  <2> QED
    BY <2>1
<1>3. state = "reading" /\ \A s \in Streams : fed[s] = <<>> /\ out[s] = <<>> /\ buffers[s] = <<>>
  BY DEF DecoderInit
<1>4. fed \in [Streams -> Bytes] /\ buffers \in [Streams -> Bytes] /\ out \in [Streams -> Lines]
  BY <1>1 DEF DecoderInit
<1> QED
  BY <1>2, <1>3, <1>4, EndingNone DEF LinesInv, Exact

\* The chunks of the model are byte sequences.
LEMMA ChunkBytes ==
  ASSUME NEW chunk \in Chunks
  PROVE  chunk \in Bytes
BY DEF Chunks, Bytes

\* A decoder that read so far has sent a prefix of the lines.
LEMMA ExactSoFar ==
  ASSUME NEW o, NEW b \in Bytes, NEW trimmed, Exact("reading", o, b, trimmed)
  PROVE  o = Complete(b) /\ Exact("failed", o, b, trimmed)
<1>1. o = Complete(b)
  BY DEF Exact
<1>2. IsPrefixOf(o, Complete(b) \o Unfinished(b, trimmed))
  BY <1>1, LineTypes, PrefixOfConcat, Zenon
<1> QED
  BY <1>1, <1>2 DEF Exact

\* The unfinished line, sent at the end or before a failure.
LEMMA ExactAtEnd ==
  ASSUME NEW b \in Bytes, NEW trimmed
  PROVE  /\ Complete(b) \o Unfinished(b, trimmed) \in Lines
         /\ Exact("ended", Complete(b) \o Unfinished(b, trimmed), b, trimmed)
         /\ Exact("failed", Complete(b) \o Unfinished(b, trimmed), b, trimmed)
<1> DEFINE all == Complete(b) \o Unfinished(b, trimmed)
<1>1. Complete(b) \in Lines /\ Unfinished(b, trimmed) \in Lines /\ <<>> \in Lines
  BY LineTypes DEF Lines
<1>2. all \in Lines
  BY <1>1, LinesJoin, Zenon
<1>3. all \o <<>> = all
  BY <1>2, ConcatEmptySeq, Zenon DEF Lines
<1>4. IsPrefixOf(all, all)
  BY <1>1, <1>2, <1>3, PrefixOfConcat, Zenon
<1> QED
  BY <1>2, <1>4 DEF Exact

LEMMA LinesRead ==
  ASSUME LinesInv, NEW s \in Streams, NEW chunk \in Chunks, Read(s, chunk)
  PROVE  LinesInv'
<1> DEFINE b == fed[s]
           cut == CutLines(Ending(b), chunk)
<1>1. /\ state = "reading" /\ b \in Bytes /\ chunk \in Bytes /\ tty' = tty
      /\ buffers[s] = Ending(b)
      /\ fed \in [Streams -> Bytes] /\ buffers \in [Streams -> Bytes] /\ out \in [Streams -> Lines]
      /\ \A r \in Streams : buffers[r] = Ending(fed[r]) /\ Exact("reading", out[r], fed[r], tty)
  BY ChunkBytes DEF LinesInv, Read
<1>2. /\ fed' = [fed EXCEPT ![s] = b \o chunk] /\ buffers' = [buffers EXCEPT ![s] = cut.rest]
      /\ \/ out' = [out EXCEPT ![s] = out[s] \o cut.lines] /\ state' = state
         \/ \E k \in 0 .. Len(cut.lines) - 1 :
              out' = [out EXCEPT ![s] = out[s] \o Sent(cut.lines, k)] /\ state' = "failed"
  BY <1>1, Zenon DEF Read, Emit
<1> HIDE DEF b
<1>3. /\ cut.lines \in Lines /\ cut.rest = Ending(b \o chunk)
      /\ Complete(b \o chunk) = Complete(b) \o cut.lines
  BY <1>1, CutExact, Zenon
<1> HIDE DEF cut
<1>4. b \o chunk \in Bytes
  BY <1>1, ConcatProperties, Zenon DEF Bytes
<1>5. Ending(b \o chunk) \in Bytes /\ Unfinished(b \o chunk, tty) \in Lines /\ Complete(b) \in Lines
  BY <1>1, <1>4, LineTypes, Zenon
<1>6. out[s] = Complete(b)
  BY <1>1, ExactSoFar DEF b
<1>7. /\ fed' \in [Streams -> Bytes] /\ buffers' \in [Streams -> Bytes]
      /\ fed'[s] = b \o chunk /\ buffers'[s] = Ending(b \o chunk)
      /\ \A r \in Streams \ {s} : fed'[r] = fed[r] /\ buffers'[r] = buffers[r]
  BY <1>1, <1>2, <1>3, <1>4, <1>5
<1>8. \A r \in Streams : buffers'[r] = Ending(fed'[r])
  BY <1>1, <1>7, Zenon
<1>9. ASSUME NEW o \in Lines, out' = [out EXCEPT ![s] = o], state' \in {"reading", "failed"},
             Exact(state', o, b \o chunk, tty)
      PROVE  LinesInv'
  <2>1. out' \in [Streams -> Lines] /\ out'[s] = o /\ \A r \in Streams \ {s} : out'[r] = out[r]
    BY <1>1, <1>9
  <2>2. ASSUME NEW r \in Streams PROVE Exact(state', out'[r], fed'[r], tty')
    <3>1. CASE r = s
      BY <1>1, <1>7, <1>9, <2>1, <3>1, Zenon
    <3>2. CASE r # s
      <4>1. out'[r] = out[r] /\ fed'[r] = fed[r] /\ fed[r] \in Bytes
        BY <1>1, <1>7, <2>1, <3>2
      <4>2. Exact("reading", out[r], fed[r], tty)
        BY <1>1
      <4>3. Exact("failed", out[r], fed[r], tty)
        BY <4>1, <4>2, ExactSoFar
      <4> QED
        BY <1>1, <1>9, <4>1, <4>2, <4>3
    <3> QED
      BY <3>1, <3>2
  <2> QED
    BY <1>7, <1>8, <1>9, <2>1, <2>2 DEF LinesInv
<1>10. CASE out' = [out EXCEPT ![s] = out[s] \o cut.lines] /\ state' = state
  <2>1. out[s] \o cut.lines \in Lines
    BY <1>3, <1>5, <1>6, LinesJoin, Zenon
  <2>2. Exact("reading", out[s] \o cut.lines, b \o chunk, tty)
    BY <1>3, <1>6 DEF Exact
  <2> QED
    BY <1>1, <1>9, <1>10, <2>1, <2>2, Zenon
<1>11. ASSUME NEW k \in 0 .. Len(cut.lines) - 1,
              out' = [out EXCEPT ![s] = out[s] \o Sent(cut.lines, k)], state' = "failed"
       PROVE  LinesInv'
  <2>1. k \in 0 .. Len(cut.lines)
    BY <1>3 DEF Lines
  <2> DEFINE o == Complete(b) \o Sent(cut.lines, k)
  <2>2. /\ Sent(cut.lines, k) \in Lines
        /\ IsPrefixOf(o, (Complete(b) \o cut.lines) \o Unfinished(b \o chunk, tty))
    BY <1>3, <1>5, <2>1, PrefixOfSent, Zenon
  <2>3. o \in Lines
    BY <1>5, <2>2, LinesJoin, Zenon
  <2> HIDE DEF o
  <2>4. Exact("failed", o, b \o chunk, tty)
    BY <1>3, <2>2 DEF Exact
  <2> QED
    BY <1>6, <1>9, <1>11, <2>3, <2>4, Zenon DEF o
<1> QED
  BY <1>2, <1>10, <1>11, Zenon

\* What is buffered is the unfinished line.
LEMMA RestIsUnfinished ==
  ASSUME LinesInv, NEW s \in Streams
  PROVE  Rest(s) = Unfinished(fed[s], tty)
BY Zenon DEF LinesInv, Rest, Unfinished

LEMMA LinesStop ==
  ASSUME LinesInv, ReadFails \/ EOF
  PROVE  LinesInv'
<1>1. /\ state = "reading" /\ tty' = tty /\ buffers' = buffers /\ fed' = fed
      /\ fed \in [Streams -> Bytes] /\ buffers \in [Streams -> Bytes] /\ out \in [Streams -> Lines]
      /\ \A r \in Streams : buffers[r] = Ending(fed[r]) /\ Exact("reading", out[r], fed[r], tty)
  BY DEF LinesInv, ReadFails, EOF
<1>2. ASSUME NEW r \in Streams
      PROVE  /\ fed[r] \in Bytes /\ out[r] = Complete(fed[r])
             /\ Exact("failed", out[r], fed[r], tty)
             /\ out[r] \o Rest(r) \in Lines
             /\ Exact("ended", out[r] \o Rest(r), fed[r], tty)
             /\ Exact("failed", out[r] \o Rest(r), fed[r], tty)
  <2>1. fed[r] \in Bytes /\ Exact("reading", out[r], fed[r], tty)
    BY <1>1
  <2>2. out[r] = Complete(fed[r]) /\ Exact("failed", out[r], fed[r], tty)
    BY <2>1, ExactSoFar
  <2>3. Rest(r) = Unfinished(fed[r], tty)
    BY RestIsUnfinished
  <2> QED
    BY <2>1, <2>2, <2>3, ExactAtEnd, Zenon
<1>3. ASSUME state' \in {"ended", "failed"}, out' \in [Streams -> Lines],
             \A r \in Streams : Exact(state', out'[r], fed[r], tty)
      PROVE  LinesInv'
  BY <1>1, <1>3 DEF LinesInv
<1>4. CASE out' = out /\ state' = "failed"
  BY <1>1, <1>2, <1>3, <1>4
<1>5. CASE out' = [r \in Streams |-> out[r] \o Rest(r)] /\ state' = "ended"
  <2>1. \A r \in Streams : out'[r] = out[r] \o Rest(r)
    BY <1>5
  <2> QED
    BY <1>2, <1>3, <1>5, <2>1
<1>6. ASSUME NEW s \in Streams, out' = [out EXCEPT ![s] = out[s] \o Rest(s)], state' = "failed"
      PROVE  LinesInv'
  <2>1. \A r \in Streams : out'[r] = IF r = s THEN out[r] \o Rest(r) ELSE out[r]
    BY <1>1, <1>6
  <2>2. out' \in [Streams -> Lines]
    BY <1>1, <1>2, <1>6
  <2> QED
    BY <1>2, <1>3, <1>6, <2>1, <2>2
<1>7. 1 \in Streams
  BY DEF Streams
<1> QED
  BY <1>4, <1>5, <1>6, <1>7, Zenon DEF ReadFails, EOF, Emit

LEMMA LinesNext == LinesInv /\ [DecoderNext]_decoderVars => LinesInv'
<1> SUFFICES ASSUME LinesInv, [DecoderNext]_decoderVars PROVE LinesInv'
  OBVIOUS
<1>1. CASE UNCHANGED decoderVars
  BY <1>1 DEF LinesInv, decoderVars
<1>2. ASSUME NEW s \in Streams, NEW chunk \in Chunks, Read(s, chunk) PROVE LinesInv'
  BY <1>2, LinesRead
<1>3. CASE ReadFails \/ EOF
  BY <1>3, LinesStop
<1> QED
  BY <1>1, <1>2, <1>3 DEF DecoderNext

\* However Docker cuts a container's output into frames and interleaves its streams,
\* decodeMultiplexed and decodePlain send the lines of each stream, complete and in
\* order, the unterminated last one at a clean end, and a prefix of them on a failure.
THEOREM DecoderLinesExact == DecoderSpec => []LinesExact
<1>1. LinesInv => LinesExact
  <2> SUFFICES ASSUME LinesInv, NEW s \in Streams
               PROVE  LET all == Complete(fed[s]) \o Unfinished(fed[s], tty)
                      IN CASE state = "reading" -> out[s] = Complete(fed[s])
                           [] state = "ended"   -> out[s] = all
                           [] state = "failed"  -> IsPrefixOf(out[s], all)
    BY Zenon DEF LinesExact
  <2>1. state \in {"reading", "ended", "failed"} /\ Exact(state, out[s], fed[s], tty)
    BY DEF LinesInv
  <2> QED
    BY <2>1, Zenon DEF Exact
<1> QED
  BY <1>1, LinesInit, LinesNext, PTL DEF DecoderSpec
=============================================================================
