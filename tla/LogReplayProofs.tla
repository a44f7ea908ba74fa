-------------------------- MODULE LogReplayProofs --------------------------
(***************************************************************************)
(* Proofs about LogReplay for every number of lines, containers, crashes,  *)
(* reconnections and rotations, and every window, overlap and channel.     *)
(* All but the last two theorems assume that no two lines of a container   *)
(* share a timestamp and that no stream that ends inside a line sends a    *)
(* piece of it.  Their invariant is stated over the world that only grows: *)
(* Docker's logs L, the oldest lines F, the processed lines P and the last *)
(* initial start S.                                                        *)
(***************************************************************************)
EXTENDS LogReplay, WellFoundedInduction, TLAPS

LineRec == [id : Containers, ts : Nat, text : Texts \cup Pieces, pos : Nat]

LineAt(L, c, i) == [id |-> c, ts |-> L[c][i].ts, text |-> L[c][i].text, pos |-> i]

Real(L, l) ==
  /\ l \in LineRec
  /\ l.pos \in 1 .. Len(L[l.id])
  /\ l = LineAt(L, l.id, l.pos)

(* Line i of c is not owed any more, or it has been processed.             *)
Safe(L, F, P, S, c, i) ==
  i >= F[c] /\ (S = None \/ L[c][i].ts >= S) => LineAt(L, c, i) \in P

SafeTo(L, F, P, S, c, n) == \A i \in 1 .. n : Safe(L, F, P, S, c, i)

(* A checkpoint that covers only processed lines.                          *)
Point(L, F, P, S, cp) == Real(L, cp) /\ SafeTo(L, F, P, S, cp.id, cp.pos)

GateOK(L, F, P, S, g) ==
  /\ g \in [checkpoint : LineRec, looking : BOOLEAN, buffered : Seq(LineRec)]
  /\ Point(L, F, P, S, g.checkpoint)
  /\ \A k \in 1 .. Len(g.buffered) :
       /\ Real(L, g.buffered[k])
       /\ g.buffered[k].id = g.checkpoint.id
       /\ g.buffered[k].pos <= g.checkpoint.pos

(* Everything before a line of the batch is safe.                          *)
BatchOK(L, F, P, S, b) ==
  /\ b \in Seq(LineRec)
  /\ \A k \in 1 .. Len(b) :
       Real(L, b[k]) /\ SafeTo(L, F, P, S, b[k].id, b[k].pos - 1)

(* Line i of c is safe, among the first k lines of the channel, or in the  *)
(* batch.                                                                  *)
Ahead(L, F, P, S, b, q, k, c, i) ==
  \/ Safe(L, F, P, S, c, i)
  \/ \E m \in 1 .. k : q[m] = LineAt(L, c, i)
  \/ \E m \in 1 .. Len(b) : b[m] = LineAt(L, c, i)

LogsOK(L, F, P, S, b, q) ==
  /\ q \in Seq(LineRec)
  /\ \A k \in 1 .. Len(q) :
       /\ Real(L, q[k])
       /\ \A i \in 1 .. q[k].pos - 1 : Ahead(L, F, P, S, b, q, k - 1, q[k].id, i)

SrcRec == [pc : {"discover", "load", "gate", "start", "stream"}, id : Containers,
           cp : LineRec \cup {None}, pos : Nat]

(* The stream skips no line that is owed.                                  *)
SentOK(L, F, P, S, b, q, c, n) ==
  /\ n \in 1 .. Len(L[c]) + 1
  /\ \A i \in 1 .. n - 1 : Ahead(L, F, P, S, b, q, Len(q), c, i)

StreamOK(L, F, P, S, b, q, s) ==
  s.pc = "stream" => SentOK(L, F, P, S, b, q, s.id, s.pos)

PointOrNone(L, F, P, S, cp) == cp # None => Point(L, F, P, S, cp)

GateOrNone(L, F, P, S, g) == g # None => GateOK(L, F, P, S, g)

ProcessedOK(L, P) == \A l \in P : Real(L, l)

AckedOK(P, b, a) == a => b # <<>> /\ b[1] \in P

Entry == [ts : Nat, text : Texts]

(* Docker's logs: time runs forward within a container and from one        *)
(* container of the name to the next.                                      *)
DockerOK ==
  /\ now \in 1 .. MaxTime /\ cur \in Containers
  /\ log \in [Containers -> Seq(Entry)]
  /\ first \in [Containers -> Nat \ {0}]
  /\ \A c \in Containers : first[c] <= Len(log[c]) + 1
  /\ \A c \in Containers : c > cur => log[c] = <<>>
  /\ \A c \in Containers : \A i \in 1 .. Len(log[c]) : log[c][i].ts \in 1 .. now
  /\ \A c \in Containers : \A i, j \in 1 .. Len(log[c]) :
       i < j => log[c][i].ts < log[c][j].ts
  /\ \A c, d \in Containers : c < d =>
       \A i \in 1 .. Len(log[c]), j \in 1 .. Len(log[d]) : log[c][i].ts <= log[d][j].ts

StateOK ==
  /\ mem \in [{Name} -> LineRec \cup {None}] /\ disk \in [{Name} -> LineRec \cup {None}]
  /\ src \in SrcRec
  /\ acked \in BOOLEAN
  /\ Len(logs) <= ChannelSize
  /\ initialStart \in Int \cup {None} /\ lastStart \in Int \cup {None}
  /\ initialStart # None => lastStart = initialStart
  /\ lastStart # None => lastStart <= now - Window

PointsOK ==
  /\ PointOrNone(log, first, processed, lastStart, mem[Name])
  /\ PointOrNone(log, first, processed, lastStart, disk[Name])
  /\ PointOrNone(log, first, processed, lastStart, src.cp)
  /\ GateOrNone(log, first, processed, lastStart, gate)

PipeOK ==
  /\ ProcessedOK(log, processed)
  /\ BatchOK(log, first, processed, lastStart, batch)
  /\ LogsOK(log, first, processed, lastStart, batch, logs)
  /\ StreamOK(log, first, processed, lastStart, batch, logs, src)
  /\ AckedOK(processed, batch, acked)

IInv == DockerOK /\ StateOK /\ PointsOK /\ PipeOK

-----------------------------------------------------------------------------
(* What a step of Docker or of the processor does to the world.            *)

World(L, F, S) ==
  /\ L \in [Containers -> Seq(Entry)]
  /\ F \in [Containers -> Nat \ {0}]
  /\ S \in Int \cup {None}

Grew(L, F, P, S, L2, F2, P2, S2) ==
  /\ World(L, F, S) /\ World(L2, F2, S2)
  /\ \A c \in Containers :
       Len(L[c]) <= Len(L2[c]) /\ \A i \in 1 .. Len(L[c]) : L2[c][i] = L[c][i]
  /\ \A c \in Containers : F[c] <= F2[c]
  /\ P \subseteq P2
  /\ S = None \/ (S2 # None /\ S2 >= S)

\* A line of the old log is the same line of the new one, and safe if it was.
LEMMA GrewLine ==
  ASSUME NEW L, NEW F, NEW P, NEW S, NEW L2, NEW F2, NEW P2, NEW S2,
         Grew(L, F, P, S, L2, F2, P2, S2)
  PROVE  \A c \in Containers : \A i \in 1 .. Len(L[c]) :
           /\ LineAt(L2, c, i) = LineAt(L, c, i) /\ i \in 1 .. Len(L2[c])
           /\ Safe(L, F, P, S, c, i) => Safe(L2, F2, P2, S2, c, i)
<1> TAKE c \in Containers
<1> TAKE i \in 1 .. Len(L[c])
<1>1. /\ L2[c][i] = L[c][i] /\ Len(L[c]) \in Nat /\ Len(L2[c]) \in Nat
      /\ Len(L[c]) <= Len(L2[c]) /\ F[c] \in Nat /\ F2[c] \in Nat /\ F[c] <= F2[c]
      /\ L[c][i].ts \in Nat
  <2>1. L[c] \in Seq(Entry) /\ L2[c] \in Seq(Entry) /\ F[c] \in Nat /\ F2[c] \in Nat
    BY DEF Grew, World
  <2>2. L2[c][i] = L[c][i] /\ Len(L[c]) <= Len(L2[c]) /\ F[c] <= F2[c]
    BY Zenon DEF Grew
  <2>3. L[c][i] \in Entry /\ Len(L[c]) \in Nat /\ Len(L2[c]) \in Nat
    BY <2>1
  <2>4. L[c][i].ts \in Nat
    BY <2>3, Zenon DEF Entry
  <2> QED
    BY <2>1, <2>2, <2>3, <2>4, Zenon
<1>2. LineAt(L2, c, i) = LineAt(L, c, i) /\ i \in 1 .. Len(L2[c])
  BY <1>1 DEF LineAt
<1>3. ASSUME i >= F2[c] /\ (S2 = None \/ L2[c][i].ts >= S2)
      PROVE  i >= F[c] /\ (S = None \/ L[c][i].ts >= S)
  BY <1>1, <1>3 DEF Grew, World
<1>4. P \subseteq P2
  BY Zenon DEF Grew
<1> QED
  BY <1>2, <1>3, <1>4, Zenon DEF Safe

\* What holds of the watcher's state still holds in a world that grew.
LEMMA GrewKeeps ==
  ASSUME NEW L, NEW F, NEW P, NEW S, NEW L2, NEW F2, NEW P2, NEW S2,
         Grew(L, F, P, S, L2, F2, P2, S2)
  PROVE  /\ \A l : Real(L, l) => Real(L2, l)
         /\ \A cp : PointOrNone(L, F, P, S, cp) => PointOrNone(L2, F2, P2, S2, cp)
         /\ \A g : GateOrNone(L, F, P, S, g) => GateOrNone(L2, F2, P2, S2, g)
         /\ \A b : BatchOK(L, F, P, S, b) => BatchOK(L2, F2, P2, S2, b)
         /\ \A b, q : LogsOK(L, F, P, S, b, q) => LogsOK(L2, F2, P2, S2, b, q)
         /\ \A b, q, s : s \in SrcRec /\ StreamOK(L, F, P, S, b, q, s) =>
              StreamOK(L2, F2, P2, S2, b, q, s)
         /\ \A b, a : AckedOK(P, b, a) => AckedOK(P2, b, a)
<1>0. \A c \in Containers : \A i \in 1 .. Len(L[c]) :
        /\ LineAt(L2, c, i) = LineAt(L, c, i) /\ i \in 1 .. Len(L2[c])
        /\ Safe(L, F, P, S, c, i) => Safe(L2, F2, P2, S2, c, i)
  BY GrewLine, Zenon
<1>1. ASSUME NEW l, Real(L, l)
      PROVE  /\ Real(L2, l)
             /\ l.id \in Containers /\ l.pos \in 1 .. Len(L[l.id])
  <2>1. l.id \in Containers /\ l.pos \in 1 .. Len(L[l.id])
    BY <1>1, Zenon DEF Real, LineRec
  <2>2. LineAt(L2, l.id, l.pos) = LineAt(L, l.id, l.pos) /\ l.pos \in 1 .. Len(L2[l.id])
    BY <1>0, <2>1, Zenon
  <2> QED
    BY <1>1, <2>1, <2>2, Zenon DEF Real
<1>2. ASSUME NEW c \in Containers, NEW n \in Int, n <= Len(L[c]), SafeTo(L, F, P, S, c, n)
      PROVE  SafeTo(L2, F2, P2, S2, c, n)
  <2> SUFFICES ASSUME NEW i \in 1 .. n PROVE Safe(L2, F2, P2, S2, c, i)
    BY Zenon DEF SafeTo
  <2>1. Len(L[c]) \in Nat
    BY DEF Grew, World
  <2>2. i \in 1 .. Len(L[c])
    BY <1>2, <2>1
  <2> QED
    BY <1>0, <1>2, <2>2, Zenon DEF SafeTo
<1>3. ASSUME NEW cp, Point(L, F, P, S, cp) PROVE Point(L2, F2, P2, S2, cp)
  <2>1. Real(L2, cp) /\ cp.id \in Containers /\ cp.pos \in 1 .. Len(L[cp.id])
    BY <1>1, <1>3, Zenon DEF Point
  <2>2. cp.pos \in Int /\ cp.pos <= Len(L[cp.id])
    BY <2>1 DEF Grew, World
  <2> QED
    BY <1>2, <1>3, <2>1, <2>2, Zenon DEF Point
<1>4. ASSUME NEW g, GateOK(L, F, P, S, g) PROVE GateOK(L2, F2, P2, S2, g)
  BY <1>1, <1>3, <1>4, Zenon DEF GateOK
<1>5. ASSUME NEW b, BatchOK(L, F, P, S, b) PROVE BatchOK(L2, F2, P2, S2, b)
  <2> SUFFICES ASSUME NEW k \in 1 .. Len(b)
               PROVE  Real(L2, b[k]) /\ SafeTo(L2, F2, P2, S2, b[k].id, b[k].pos - 1)
    BY <1>5, Zenon DEF BatchOK
  <2>1. Real(L, b[k]) /\ SafeTo(L, F, P, S, b[k].id, b[k].pos - 1)
    BY <1>5, Zenon DEF BatchOK
  <2>2. Real(L2, b[k]) /\ b[k].id \in Containers /\ b[k].pos \in 1 .. Len(L[b[k].id])
    BY <1>1, <2>1, Zenon
  <2>3. b[k].pos - 1 \in Int /\ b[k].pos - 1 <= Len(L[b[k].id])
    BY <2>2 DEF Grew, World
  <2> QED
    BY <1>2, <2>1, <2>2, <2>3, Zenon
<1>6. ASSUME NEW b, NEW q, NEW k, NEW c \in Containers, NEW i \in 1 .. Len(L[c]),
             Ahead(L, F, P, S, b, q, k, c, i)
      PROVE  Ahead(L2, F2, P2, S2, b, q, k, c, i)
  <2>1. /\ LineAt(L2, c, i) = LineAt(L, c, i)
        /\ Safe(L, F, P, S, c, i) => Safe(L2, F2, P2, S2, c, i)
    BY <1>0, Zenon
  <2> QED
    BY <1>6, <2>1, Zenon DEF Ahead
<1>7. ASSUME NEW b, NEW q, LogsOK(L, F, P, S, b, q) PROVE LogsOK(L2, F2, P2, S2, b, q)
  <2> SUFFICES ASSUME NEW k \in 1 .. Len(q), NEW i \in 1 .. q[k].pos - 1
               PROVE  Ahead(L2, F2, P2, S2, b, q, k - 1, q[k].id, i)
    BY <1>1, <1>7, Zenon DEF LogsOK
  <2>1. Real(L, q[k]) /\ Ahead(L, F, P, S, b, q, k - 1, q[k].id, i)
    BY <1>7, Zenon DEF LogsOK
  <2>2. q[k].id \in Containers /\ q[k].pos \in 1 .. Len(L[q[k].id])
    BY <1>1, <2>1, Zenon
  <2>3. i \in 1 .. Len(L[q[k].id])
    BY <2>2 DEF Grew, World
  <2> QED
    BY <1>6, <2>1, <2>2, <2>3, Zenon
<1>8. ASSUME NEW b, NEW q, NEW s \in SrcRec, SentOK(L, F, P, S, b, q, s.id, s.pos)
      PROVE  SentOK(L2, F2, P2, S2, b, q, s.id, s.pos)
  <2>1. s.id \in Containers
    BY Zenon DEF SrcRec
  <2>2. /\ Len(L[s.id]) \in Nat /\ Len(L2[s.id]) \in Nat /\ Len(L[s.id]) <= Len(L2[s.id])
        /\ s.pos \in 1 .. Len(L[s.id]) + 1
    BY <1>8, <2>1 DEF Grew, World, SentOK
  <2>3. s.pos \in 1 .. Len(L2[s.id]) + 1 /\ \A i \in 1 .. s.pos - 1 : i \in 1 .. Len(L[s.id])
    BY <2>2
  <2> QED
    BY <1>6, <1>8, <2>1, <2>3, Zenon DEF SentOK
<1>9. P \subseteq P2
  BY Zenon DEF Grew
<1>10. \A b, a : AckedOK(P, b, a) => AckedOK(P2, b, a)
  BY <1>9, Zenon DEF AckedOK
<1>11. /\ \A cp : PointOrNone(L, F, P, S, cp) => PointOrNone(L2, F2, P2, S2, cp)
       /\ \A g : GateOrNone(L, F, P, S, g) => GateOrNone(L2, F2, P2, S2, g)
       /\ \A b, q, s : s \in SrcRec /\ StreamOK(L, F, P, S, b, q, s) =>
            StreamOK(L2, F2, P2, S2, b, q, s)
  BY <1>3, <1>4, <1>8, Zenon DEF PointOrNone, GateOrNone, StreamOK
<1> QED
  BY <1>1, <1>5, <1>7, <1>10, <1>11, Zenon

-----------------------------------------------------------------------------
(* The channel and the batch.                                              *)

(* Whatever was in batch b or was line h is in batch b2, or safe.          *)
Passed(L, F, P, S, b, h, b2) ==
  \A c \in Containers : \A i \in 1 .. Len(L[c]) :
    h = LineAt(L, c, i) \/ (\E m \in 1 .. Len(b) : b[m] = LineAt(L, c, i)) =>
      Safe(L, F, P, S, c, i) \/ \E m \in 1 .. Len(b2) : b2[m] = LineAt(L, c, i)

\* The lines in front of a line of the channel are lines of the same log.
LEMMA InFront ==
  ASSUME NEW L, NEW F, NEW S, World(L, F, S), NEW l, Real(L, l), NEW i \in 1 .. l.pos - 1
  PROVE  l.id \in Containers /\ i \in 1 .. Len(L[l.id])
<1>1. l.id \in Containers /\ l.pos \in 1 .. Len(L[l.id])
  BY Zenon DEF Real, LineRec
<1>2. Len(L[l.id]) \in Nat
  BY <1>1 DEF World
<1> QED
  BY <1>1, <1>2

\* The first line leaves the channel.
LEMMA HeadLeaves ==
  ASSUME NEW L, NEW F, NEW P, NEW S, World(L, F, S), NEW b, NEW b2, NEW q, q # <<>>,
         LogsOK(L, F, P, S, b, q), Passed(L, F, P, S, b, q[1], b2)
  PROVE  /\ LogsOK(L, F, P, S, b2, Tail(q))
         /\ \A c \in Containers, n \in Nat :
              SentOK(L, F, P, S, b, q, c, n) => SentOK(L, F, P, S, b2, Tail(q), c, n)
<1>1. /\ q \in Seq(LineRec) /\ Len(q) \in Nat \ {0}
      /\ Tail(q) \in Seq(LineRec) /\ Len(Tail(q)) = Len(q) - 1
      /\ \A k \in 1 .. Len(q) - 1 : Tail(q)[k] = q[k + 1]
  BY DEF LogsOK
<1>2. ASSUME NEW k \in 1 .. Len(q), NEW c \in Containers, NEW i \in 1 .. Len(L[c]),
             Ahead(L, F, P, S, b, q, k, c, i)
      PROVE  Ahead(L, F, P, S, b2, Tail(q), k - 1, c, i)
  <2>1. CASE \E m \in 1 .. k : q[m] = LineAt(L, c, i)
    <3>1. PICK m \in 1 .. k : q[m] = LineAt(L, c, i)
      BY <2>1, Zenon
    <3>2. CASE m = 1
      BY <3>1, <3>2, Zenon DEF Ahead, Passed
    <3>3. CASE m # 1
      <4>1. m - 1 \in 1 .. k - 1 /\ m - 1 \in 1 .. Len(q) - 1 /\ (m - 1) + 1 = m
        BY <1>1, <3>3
      <4>2. Tail(q)[m - 1] = LineAt(L, c, i)
        BY <1>1, <3>1, <4>1
      <4> QED
        BY <4>1, <4>2, Zenon DEF Ahead
    <3> QED
      BY <3>2, <3>3
  <2>2. CASE Safe(L, F, P, S, c, i) \/ \E m \in 1 .. Len(b) : b[m] = LineAt(L, c, i)
    BY <2>2, Zenon DEF Ahead, Passed
  <2> QED
    BY <1>2, <2>1, <2>2, Zenon DEF Ahead
<1>3. ASSUME NEW k \in 1 .. Len(q) - 1
      PROVE  /\ Real(L, Tail(q)[k])
             /\ \A i \in 1 .. Tail(q)[k].pos - 1 :
                  Ahead(L, F, P, S, b2, Tail(q), k - 1, Tail(q)[k].id, i)
  <2>1. k + 1 \in 1 .. Len(q) /\ k \in 1 .. Len(q) /\ (k + 1) - 1 = k
    BY <1>1
  <2>2. Tail(q)[k] = q[k + 1]
    BY <1>1
  <2>3. /\ Real(L, q[k + 1])
        /\ \A i \in 1 .. q[k + 1].pos - 1 : Ahead(L, F, P, S, b, q, (k + 1) - 1, q[k + 1].id, i)
    BY <2>1, Zenon DEF LogsOK
  <2>4. ASSUME NEW i \in 1 .. q[k + 1].pos - 1
        PROVE  Ahead(L, F, P, S, b2, Tail(q), k - 1, q[k + 1].id, i)
    <3>1. q[k + 1].id \in Containers /\ i \in 1 .. Len(L[q[k + 1].id])
      BY <2>3, InFront, Zenon
    <3>2. Ahead(L, F, P, S, b, q, k, q[k + 1].id, i)
      BY <2>1, <2>3
    <3> QED
      BY <1>2, <2>1, <3>1, <3>2, Zenon
  <2> QED
    BY <2>2, <2>3, <2>4, Zenon
<1>4. LogsOK(L, F, P, S, b2, Tail(q))
  BY <1>1, <1>3 DEF LogsOK
<1>5. ASSUME NEW c \in Containers, NEW n \in Nat, SentOK(L, F, P, S, b, q, c, n)
      PROVE  SentOK(L, F, P, S, b2, Tail(q), c, n)
  <2>1. Len(L[c]) \in Nat /\ n \in 1 .. Len(L[c]) + 1
    BY <1>5 DEF World, SentOK
  <2>2. \A i \in 1 .. n - 1 : i \in 1 .. Len(L[c])
    BY <2>1
  <2>3. \A i \in 1 .. n - 1 : Ahead(L, F, P, S, b2, Tail(q), Len(q) - 1, c, i)
    BY <1>1, <1>2, <1>5, <2>2 DEF SentOK
  <2> QED
    BY <1>1, <2>1, <2>3 DEF SentOK
<1> QED
  BY <1>4, <1>5, Zenon

\* The batch changes while the channel does not.
LEMMA BatchMoves ==
  ASSUME NEW L, NEW F, NEW P, NEW S, World(L, F, S), NEW b, NEW b2, NEW h, NEW q,
         LogsOK(L, F, P, S, b, q), Passed(L, F, P, S, b, h, b2)
  PROVE  /\ LogsOK(L, F, P, S, b2, q)
         /\ \A c \in Containers, n \in Nat :
              SentOK(L, F, P, S, b, q, c, n) => SentOK(L, F, P, S, b2, q, c, n)
<1>1. ASSUME NEW k, NEW c \in Containers, NEW i \in 1 .. Len(L[c]),
             Ahead(L, F, P, S, b, q, k, c, i)
      PROVE  Ahead(L, F, P, S, b2, q, k, c, i)
  BY <1>1, Zenon DEF Ahead, Passed
<1>2. ASSUME NEW k \in 1 .. Len(q), NEW i \in 1 .. q[k].pos - 1
      PROVE  Ahead(L, F, P, S, b2, q, k - 1, q[k].id, i)
  <2>1. Real(L, q[k]) /\ Ahead(L, F, P, S, b, q, k - 1, q[k].id, i)
    BY Zenon DEF LogsOK
  <2>2. q[k].id \in Containers /\ i \in 1 .. Len(L[q[k].id])
    BY <2>1, InFront, Zenon
  <2> QED
    BY <1>1, <2>1, <2>2, Zenon
<1>3. LogsOK(L, F, P, S, b2, q)
  BY <1>2, Zenon DEF LogsOK
<1>4. ASSUME NEW c \in Containers, NEW n \in Nat, SentOK(L, F, P, S, b, q, c, n)
      PROVE  SentOK(L, F, P, S, b2, q, c, n)
  <2>1. Len(L[c]) \in Nat /\ n \in 1 .. Len(L[c]) + 1
    BY <1>4 DEF World, SentOK
  <2>2. \A i \in 1 .. n - 1 : i \in 1 .. Len(L[c])
    BY <2>1
  <2> QED
    BY <1>1, <1>4, <2>2, Zenon DEF SentOK
<1> QED
  BY <1>3, <1>4, Zenon

Following(F, c, n) == IF n < F[c] THEN F[c] ELSE n

\* Emit: the stream's next line goes to the end of the channel.
LEMMA LineEmitted ==
  ASSUME NEW L, NEW F, NEW P, NEW S, World(L, F, S), NEW b, NEW q,
         LogsOK(L, F, P, S, b, q),
         NEW c \in Containers, NEW n \in Nat, SentOK(L, F, P, S, b, q, c, n),
         NEW m, m = Following(F, c, n), m <= Len(L[c])
  PROVE  /\ LogsOK(L, F, P, S, b, Append(q, LineAt(L, c, m)))
         /\ m + 1 \in Nat
         /\ SentOK(L, F, P, S, b, Append(q, LineAt(L, c, m)), c, m + 1)
<1> DEFINE l == LineAt(L, c, m)
           r == Append(q, l)
<1>1. /\ Len(L[c]) \in Nat /\ F[c] \in Nat \ {0} /\ n \in 1 .. Len(L[c]) + 1
      /\ m \in 1 .. Len(L[c]) /\ L[c] \in Seq(Entry)
  BY DEF World, SentOK, Following
<1>2. L[c][m] \in Entry
  BY <1>1
<1>3. Real(L, l)
  <2>1. l \in LineRec
    <3>1. L[c][m].ts \in Nat /\ L[c][m].text \in Texts
      BY <1>2, Zenon DEF Entry
    <3>2. m \in Nat
      BY <1>1
    <3> QED
      BY <3>1, <3>2 DEF LineAt, LineRec
  <2>2. l.id = c /\ l.pos = m
    BY DEF LineAt
  <2> QED
    BY <1>1, <2>1, <2>2, Zenon DEF Real
<1>4. /\ q \in Seq(LineRec) /\ Len(q) \in Nat /\ r \in Seq(LineRec) /\ Len(r) = Len(q) + 1
      /\ r[Len(q) + 1] = l /\ \A k \in 1 .. Len(q) : r[k] = q[k]
  <2>1. l \in LineRec /\ q \in Seq(LineRec)
    BY <1>3, Zenon DEF Real, LogsOK
  <2> HIDE DEF l
  <2> QED
    BY <2>1
<1> HIDE DEF r
<1>5. ASSUME NEW k \in 0 .. Len(q), NEW d, NEW i, Ahead(L, F, P, S, b, q, k, d, i)
      PROVE  Ahead(L, F, P, S, b, r, k, d, i)
  <2>1. \A j \in 1 .. k : r[j] = q[j]
    BY <1>4
  <2> QED
    BY <1>5, <2>1, Zenon DEF Ahead
<1>6. ASSUME NEW i \in 1 .. m - 1 PROVE Ahead(L, F, P, S, b, r, Len(q), c, i)
  <2>1. CASE i < n
    <3>1. i \in 1 .. n - 1 /\ Len(q) \in 0 .. Len(q)
      BY <1>1, <1>4, <2>1
    <3> QED
      BY <1>5, <3>1, Zenon DEF SentOK
  <2>2. CASE ~(i < n)
    <3>1. ~(i >= F[c])
      BY <1>1, <2>2 DEF Following
    <3> QED
      BY <3>1, Zenon DEF Ahead, Safe
  <2> QED
    BY <2>1, <2>2
<1>7. ASSUME NEW k \in 1 .. Len(r)
      PROVE  /\ Real(L, r[k])
             /\ \A i \in 1 .. r[k].pos - 1 : Ahead(L, F, P, S, b, r, k - 1, r[k].id, i)
  <2>1. CASE k \in 1 .. Len(q)
    <3>1. k - 1 \in 0 .. Len(q) /\ r[k] = q[k]
      BY <1>4, <2>1
    <3>2. Real(L, q[k]) /\ \A i \in 1 .. q[k].pos - 1 : Ahead(L, F, P, S, b, q, k - 1, q[k].id, i)
      BY <2>1, Zenon DEF LogsOK
    <3> QED
      BY <1>5, <3>1, <3>2, Zenon
  <2>2. CASE k = Len(q) + 1
    <3>1. r[k] = l /\ k - 1 = Len(q) /\ l.pos = m /\ l.id = c
      BY <1>4, <2>2 DEF LineAt
    <3> QED
      BY <1>3, <1>6, <3>1, Zenon
  <2> QED
    BY <1>4, <2>1, <2>2
<1>8. LogsOK(L, F, P, S, b, r)
  BY <1>4, <1>7, Zenon DEF LogsOK
<1>9. ASSUME NEW i \in 1 .. (m + 1) - 1 PROVE Ahead(L, F, P, S, b, r, Len(r), c, i)
  <2>1. CASE i = m
    <3>1. Len(r) \in 1 .. Len(r) /\ r[Len(r)] = LineAt(L, c, i)
      BY <1>4, <2>1
    <3> QED
      BY <3>1, Zenon DEF Ahead
  <2>2. CASE i # m
    <3>1. i \in 1 .. m - 1 /\ \A j \in 1 .. Len(q) : j \in 1 .. Len(r)
      BY <1>1, <1>4, <2>2
    <3> QED
      BY <1>6, <3>1, Zenon DEF Ahead
  <2> QED
    BY <2>1, <2>2
<1>10. m + 1 \in Nat /\ m + 1 \in 1 .. Len(L[c]) + 1
  BY <1>1
<1>11. SentOK(L, F, P, S, b, r, c, m + 1)
  BY <1>9, <1>10, Zenon DEF SentOK
<1> QED
  BY <1>8, <1>10, <1>11, Zenon DEF r

-----------------------------------------------------------------------------
(* The gate.                                                               *)

Rising(L) ==
  \A c \in Containers : \A i, j \in 1 .. Len(L[c]) : i < j => L[c][i].ts < L[c][j].ts

GateRec == [checkpoint : LineRec, looking : BOOLEAN, buffered : Seq(LineRec)]

\* Within a container a line that is not younger is not further down the log.
LEMMA NotYounger ==
  ASSUME NEW L, NEW F, NEW S, World(L, F, S), Rising(L),
         NEW l, NEW cp, Real(L, l), Real(L, cp), l.id = cp.id, ~(l.ts > cp.ts)
  PROVE  l.pos <= cp.pos
<1>1. /\ l.id \in Containers /\ l.pos \in 1 .. Len(L[l.id])
      /\ cp.pos \in 1 .. Len(L[l.id])
  BY Zenon DEF Real, LineRec
<1>2. l.ts = L[l.id][l.pos].ts /\ cp.ts = L[l.id][cp.pos].ts
  <2>1. l = LineAt(L, l.id, l.pos) /\ cp = LineAt(L, cp.id, cp.pos)
    BY Zenon DEF Real
  <2>2. \A c, i : LineAt(L, c, i).ts = L[c][i].ts
    BY DEF LineAt
  <2> QED
    BY <2>1, <2>2
<1>3. l.ts \in Nat /\ cp.ts \in Nat /\ Len(L[l.id]) \in Nat
  BY <1>1 DEF Real, LineRec, World
<1>4. ASSUME cp.pos < l.pos PROVE FALSE
  <2>1. cp.ts < l.ts
    BY <1>1, <1>2, <1>4, Zenon DEF Rising
  <2> QED
    BY <1>3, <2>1
<1> QED
  BY <1>1, <1>3, <1>4

\* What the gate lets through, and what becomes of it.
LEMMA Accepted ==
  ASSUME NEW L, NEW F, NEW P, NEW S, World(L, F, S), Rising(L),
         NEW g, GateOK(L, F, P, S, g),
         NEW l, Real(L, l), SafeTo(L, F, P, S, l.id, l.pos - 1)
  PROVE  /\ BatchOK(L, F, P, S, AcceptLines(g, l))
         /\ Passed(L, F, P, S, <<>>, l, AcceptLines(g, l))
         /\ GateOK(L, F, P, S, AcceptGate(g, l))
<1> DEFINE cp == g.checkpoint
<1>1. /\ g \in GateRec /\ cp \in LineRec /\ g.buffered \in Seq(LineRec)
      /\ Point(L, F, P, S, cp) /\ Real(L, cp)
  BY Zenon DEF GateOK, GateRec, Point
<1>2. l \in LineRec /\ l.ts \in Nat /\ cp.ts \in Nat
  BY <1>1 DEF Real, LineRec
<1>3. GateOK(L, F, P, S, Opened(g))
  <2>0. FALSE \in BOOLEAN /\ <<>> \in Seq(LineRec)
    OBVIOUS
  <2>1. /\ Opened(g) \in GateRec /\ Opened(g).checkpoint = cp /\ Opened(g).buffered = <<>>
    BY <1>1, <2>0, Zenon DEF Opened, GateRec
  <2> QED
    BY <1>1, <2>1 DEF GateOK, GateRec
<1>4. BatchOK(L, F, P, S, <<l>>) /\ Passed(L, F, P, S, <<>>, l, <<l>>)
  <2>1. <<l>> \in Seq(LineRec) /\ Len(<<l>>) = 1 /\ <<l>>[1] = l /\ Len(<<>>) = 0
    BY <1>2
  <2>2. BatchOK(L, F, P, S, <<l>>)
    BY <2>1 DEF BatchOK
  <2>3. Passed(L, F, P, S, <<>>, l, <<l>>)
    BY <2>1 DEF Passed
  <2> QED
    BY <2>2, <2>3
<1>5. BatchOK(L, F, P, S, <<>>)
  BY DEF BatchOK
<1>6. CASE ~g.looking \/ l.id # cp.id
  <2>1. AcceptLines(g, l) = <<l>> /\ AcceptGate(g, l) \in {g, Opened(g)}
    BY <1>6 DEF AcceptLines, AcceptGate
  <2> QED
    BY <1>3, <1>4, <2>1
<1>7. CASE g.looking /\ l.id = cp.id /\ l.ts > cp.ts
  <2>1. AcceptLines(g, l) = Append(g.buffered, l) /\ AcceptGate(g, l) = Opened(g)
    BY <1>2, <1>7 DEF AcceptLines, AcceptGate, IsMarker
  <2>2. BatchOK(L, F, P, S, Append(g.buffered, l))
    <3> DEFINE r == Append(g.buffered, l)
    <3>1. /\ r \in Seq(LineRec) /\ Len(g.buffered) \in Nat /\ Len(r) = Len(g.buffered) + 1
          /\ r[Len(r)] = l /\ \A k \in 1 .. Len(g.buffered) : r[k] = g.buffered[k]
      BY <1>1, <1>2
    <3>2. ASSUME NEW k \in 1 .. Len(g.buffered)
          PROVE  /\ Real(L, g.buffered[k])
                 /\ SafeTo(L, F, P, S, g.buffered[k].id, g.buffered[k].pos - 1)
      <4>1. /\ Real(L, g.buffered[k]) /\ g.buffered[k].id = cp.id
            /\ g.buffered[k].pos <= cp.pos
        BY Zenon DEF GateOK
      <4>2. g.buffered[k].pos \in Nat /\ cp.pos \in Nat
        BY <1>1, <4>1 DEF Real, LineRec
      <4>3. \A i \in 1 .. g.buffered[k].pos - 1 : i \in 1 .. cp.pos
        BY <4>1, <4>2
      <4> QED
        BY <1>1, <4>1, <4>3, Zenon DEF Point, SafeTo
    <3> HIDE DEF r
    <3>3. ASSUME NEW k \in 1 .. Len(r)
          PROVE  Real(L, r[k]) /\ SafeTo(L, F, P, S, r[k].id, r[k].pos - 1)
      <4>1. CASE k \in 1 .. Len(g.buffered)
        BY <3>1, <3>2, <4>1
      <4>2. CASE k = Len(r)
        BY <3>1, <4>2
      <4> QED
        BY <3>1, <4>1, <4>2
    <3> QED
      BY <3>1, <3>3, Zenon DEF BatchOK, r
  <2>3. Passed(L, F, P, S, <<>>, l, Append(g.buffered, l))
    <3>1. /\ Len(Append(g.buffered, l)) \in 1 .. Len(Append(g.buffered, l))
          /\ Append(g.buffered, l)[Len(Append(g.buffered, l))] = l
      BY <1>1, <1>2
    <3>2. ~\E m \in 1 .. Len(<<>>) : TRUE
      OBVIOUS
    <3> QED
      BY <3>1, <3>2, Zenon DEF Passed
  <2> QED
    BY <1>3, <2>1, <2>2, <2>3
<1>8. CASE g.looking /\ l.id = cp.id /\ ~(l.ts > cp.ts)
  <2>1. l.pos <= cp.pos
    BY <1>1, <1>8, NotYounger, Zenon
  <2>2. /\ AcceptLines(g, l) = <<>>
        /\ AcceptGate(g, l) \in {Opened(g), [g EXCEPT !.buffered = Append(g.buffered, l)]}
    BY <1>8 DEF AcceptLines, AcceptGate
  <2>3. Safe(L, F, P, S, l.id, l.pos)
    <3>1. l.pos \in 1 .. Len(L[l.id]) /\ cp.pos \in Nat
      BY <1>1 DEF Real, LineRec
    <3>2. l.pos \in 1 .. cp.pos
      BY <2>1, <3>1
    <3> QED
      BY <1>1, <1>8, <3>2, Zenon DEF Point, SafeTo
  <2>4. Passed(L, F, P, S, <<>>, l, <<>>)
    <3>1. ASSUME NEW c, NEW i, l = LineAt(L, c, i) PROVE Safe(L, F, P, S, c, i)
      BY <2>3, <3>1 DEF LineAt
    <3>2. ~\E m \in 1 .. Len(<<>>) : TRUE
      OBVIOUS
    <3> QED
      BY <3>1, <3>2, Zenon DEF Passed
  <2>5. GateOK(L, F, P, S, [g EXCEPT !.buffered = Append(g.buffered, l)])
    <3> DEFINE r == Append(g.buffered, l)
               h == [g EXCEPT !.buffered = r]
    <3>1. /\ r \in Seq(LineRec) /\ Len(g.buffered) \in Nat /\ Len(r) = Len(g.buffered) + 1
          /\ r[Len(r)] = l /\ \A k \in 1 .. Len(g.buffered) : r[k] = g.buffered[k]
      BY <1>1, <1>2
    <3> HIDE DEF r
    <3>2. h \in GateRec /\ h.checkpoint = cp /\ h.buffered = r
      BY <1>1, <3>1 DEF GateRec
    <3>3. ASSUME NEW k \in 1 .. Len(r)
          PROVE  Real(L, r[k]) /\ r[k].id = cp.id /\ r[k].pos <= cp.pos
      <4>1. CASE k \in 1 .. Len(g.buffered)
        BY <3>1, <4>1 DEF GateOK
      <4>2. CASE k = Len(r)
        BY <1>8, <2>1, <3>1, <4>2
      <4> QED
        BY <3>1, <4>1, <4>2
    <3> HIDE DEF h
    <3>4. GateOK(L, F, P, S, h)
      BY <1>1, <3>2, <3>3, Zenon DEF GateOK, GateRec
    <3> QED
      BY <3>4 DEF h, r
  <2> QED
    BY <1>3, <1>5, <2>2, <2>4, <2>5
<1>9. g.looking \in BOOLEAN
  BY <1>1 DEF GateRec
<1> QED
  BY <1>6, <1>7, <1>8, <1>9, Zenon

-----------------------------------------------------------------------------
(* Save.                                                                   *)

\* The line saved is a sound checkpoint, and the rest of the batch stays in order.
LEMMA Saved ==
  ASSUME NEW L, NEW F, NEW P, NEW S, World(L, F, S), NEW b, b # <<>>, b[1] \in P,
         BatchOK(L, F, P, S, b)
  PROVE  /\ Point(L, F, P, S, b[1])
         /\ BatchOK(L, F, P, S, Tail(b))
         /\ Passed(L, F, P, S, b, b[1], Tail(b))
<1>1. /\ b \in Seq(LineRec) /\ Len(b) \in Nat \ {0} /\ 1 \in 1 .. Len(b)
      /\ Tail(b) \in Seq(LineRec) /\ Len(Tail(b)) = Len(b) - 1
      /\ \A k \in 1 .. Len(b) - 1 : Tail(b)[k] = b[k + 1]
  BY DEF BatchOK
<1>2. /\ \A k \in 1 .. Len(b) : Real(L, b[k]) /\ SafeTo(L, F, P, S, b[k].id, b[k].pos - 1)
      /\ Real(L, b[1]) /\ SafeTo(L, F, P, S, b[1].id, b[1].pos - 1)
  BY <1>1, Zenon DEF BatchOK
<1>3. Point(L, F, P, S, b[1])
  <2>1. b[1].pos \in 1 .. Len(L[b[1].id]) /\ LineAt(L, b[1].id, b[1].pos) \in P
    BY <1>2, Zenon DEF Real
  <2>2. ASSUME NEW i \in 1 .. b[1].pos PROVE Safe(L, F, P, S, b[1].id, i)
    <3>1. CASE i = b[1].pos
      BY <2>1, <3>1, Zenon DEF Safe
    <3>2. CASE i # b[1].pos
      <4>1. i \in 1 .. b[1].pos - 1
        BY <2>1, <3>2
      <4> QED
        BY <1>2, <4>1, Zenon DEF SafeTo
    <3> QED
      BY <3>1, <3>2
  <2> QED
    BY <1>2, <2>2, Zenon DEF Point, SafeTo
<1>4. BatchOK(L, F, P, S, Tail(b))
  <2>1. ASSUME NEW k \in 1 .. Len(b) - 1
        PROVE  Real(L, Tail(b)[k]) /\ SafeTo(L, F, P, S, Tail(b)[k].id, Tail(b)[k].pos - 1)
    <3>1. k + 1 \in 1 .. Len(b) /\ Tail(b)[k] = b[k + 1]
      BY <1>1
    <3> QED
      BY <1>2, <3>1, Zenon
  <2> QED
    BY <1>1, <2>1 DEF BatchOK
<1>5. Passed(L, F, P, S, b, b[1], Tail(b))
  <2> SUFFICES ASSUME NEW c \in Containers, NEW i \in 1 .. Len(L[c]), NEW m \in 1 .. Len(b),
                      b[m] = LineAt(L, c, i)
               PROVE  \/ Safe(L, F, P, S, c, i)
                      \/ \E j \in 1 .. Len(Tail(b)) : Tail(b)[j] = LineAt(L, c, i)
    BY <1>1, Zenon DEF Passed
  <2>1. CASE m = 1
    BY <2>1, Zenon DEF Safe
  <2>2. CASE m # 1
    <3>1. m - 1 \in 1 .. Len(Tail(b)) /\ Tail(b)[m - 1] = b[m]
      <4>1. m - 1 \in 1 .. Len(b) - 1 /\ (m - 1) + 1 = m
        BY <1>1, <2>2
      <4> QED
        BY <1>1, <4>1
    <3> QED
      BY <3>1, Zenon
  <2> QED
    BY <2>1, <2>2
<1> QED
  BY <1>3, <1>4, <1>5

-----------------------------------------------------------------------------
(* Where a stream opens.                                                   *)

\* A nonempty set of natural numbers has a least one.
LEMMA Smallest ==
  ASSUME NEW T, T \subseteq Nat, NEW e \in T
  PROVE  \E x \in T : \A y \in T : x <= y
<1> DEFINE Less == { p \in Nat \X Nat : p[1] < p[2] }
<1>1. IsWellFoundedOn(Less, Nat)
  BY NatLessThanWellFounded DEF OpToRel
<1>2. PICK x \in T : \A y \in T : ~(<<y, x>> \in Less)
  <2> HIDE DEF Less
  <2> QED
    BY <1>1, WFMin, Zenon
<1>3. ASSUME NEW y \in T, ~(x <= y) PROVE FALSE
  <2>1. <<y, x>> \in Nat \X Nat /\ y < x
    BY <1>3
  <2> QED
    BY <1>2, <2>1
<1> QED
  BY <1>3

(* Docker's logs, whatever their timestamps.                               *)
LogTyped ==
  /\ now \in 1 .. MaxTime /\ cur \in Containers
  /\ log \in [Containers -> Seq(Entry)]
  /\ first \in [Containers -> Nat \ {0}]
  /\ \A c \in Containers : first[c] <= Len(log[c]) + 1
  /\ \A c \in Containers : \A i \in 1 .. Len(log[c]) : log[c][i].ts \in 1 .. now

\* Docker skips only lines that are older than the start it is given.
LEMMA SkipsOlder ==
  ASSUME LogTyped, NEW start \in Int
  PROVE  /\ FirstSince(start) \in first[cur] .. Len(log[cur]) + 1
         /\ \A j \in first[cur] .. FirstSince(start) - 1 : log[cur][j].ts < start
<1> DEFINE f == first[cur]
           n == Len(log[cur]) + 1
           Fits(i) == /\ \A j \in f .. i - 1 : log[cur][j].ts < start
                      /\ i <= Len(log[cur]) => log[cur][i].ts >= start
           Stops == { i \in f .. n : i <= Len(log[cur]) => log[cur][i].ts >= start }
<1>1. /\ f \in Nat \ {0} /\ Len(log[cur]) \in Nat /\ f <= n
      /\ \A i \in 1 .. Len(log[cur]) : log[cur][i].ts \in Nat
  BY DEF LogTyped
<1>2. n \in Stops /\ Stops \subseteq Nat
  BY <1>1
<1>3. PICK x \in Stops : \A y \in Stops : x <= y
  <2> HIDE DEF Stops
  <2> QED
    BY <1>2, Smallest, Zenon
<1>4. x \in f .. n /\ (x <= Len(log[cur]) => log[cur][x].ts >= start)
  OBVIOUS
<1>5. ASSUME NEW j \in f .. x - 1 PROVE log[cur][j].ts < start
  <2>1. j \in f .. n /\ j \in 1 .. Len(log[cur]) /\ ~(x <= j) /\ j <= Len(log[cur])
    BY <1>1, <1>4
  <2>2. ~(j \in Stops)
    BY <1>3, <2>1, Zenon
  <2>3. ~(log[cur][j].ts >= start)
    BY <2>1, <2>2, Zenon
  <2> QED
    BY <1>1, <2>1, <2>3
<1>6. \E i \in f .. n : Fits(i)
  BY <1>4, <1>5, Zenon
<1>7. FirstSince(start) = CHOOSE i \in f .. n : Fits(i)
  BY Zenon DEF FirstSince
<1> HIDE DEF Fits
<1>8. FirstSince(start) \in f .. n /\ Fits(FirstSince(start))
  BY <1>6, <1>7, Zenon
<1> QED
  BY <1>8, Zenon DEF Fits

-----------------------------------------------------------------------------
(* The steps.                                                              *)

watcherVars == <<src, logs, gate, batch, mem, disk>>

\* The invariant gives the lemmas the world they are stated over.
LEMMA TheWorld == IInv => World(log, first, lastStart) /\ Rising(log)
  BY Zenon DEF IInv, DockerOK, StateOK, World, Rising

\* A first start, before anything was written, satisfies the invariant.
LEMMA InitIInv == Init => IInv
<1> SUFFICES ASSUME Init PROVE IInv
  OBVIOUS
<1> USE BoundsAssumption
<1>1. 1 \in Containers /\ 1 \in 1 .. MaxTime
  BY DEF Containers
<1>2. /\ log = [c \in Containers |-> <<>>] /\ log \in [Containers -> Seq(Entry)]
      /\ \A c \in Containers : log[c] = <<>> /\ Len(log[c]) = 0
  BY DEF Init
<1>3. first \in [Containers -> Nat \ {0}] /\ \A c \in Containers : first[c] = 1
  BY DEF Init
<1>4. DockerOK
  BY <1>1, <1>2, <1>3 DEF DockerOK, Init
<1>5. /\ mem \in [{Name} -> LineRec \cup {None}] /\ disk \in [{Name} -> LineRec \cup {None}]
      /\ mem[Name] = None /\ disk[Name] = None
  BY DEF Init
<1>6. src \in SrcRec /\ src.pc = "discover" /\ src.cp = None
  BY <1>1 DEF Init, NewSource, SrcRec
<1>7. StateOK
  <2>1. Len(logs) <= ChannelSize
    BY DEF Init
  <2> QED
    BY <1>5, <1>6, <2>1, Zenon DEF StateOK, Init
<1>8. PointsOK
  BY <1>5, <1>6, Zenon DEF PointsOK, PointOrNone, GateOrNone, Init
<1>9. PipeOK
  <2>1. ProcessedOK(log, processed) /\ AckedOK(processed, batch, acked)
    BY DEF ProcessedOK, AckedOK, Init
  <2>2. /\ BatchOK(log, first, processed, lastStart, batch)
        /\ LogsOK(log, first, processed, lastStart, batch, logs)
    BY DEF BatchOK, LogsOK, Init
  <2>3. StreamOK(log, first, processed, lastStart, batch, logs, src)
    BY <1>6 DEF StreamOK
  <2> QED
    BY <2>1, <2>2, <2>3, Zenon DEF PipeOK
<1> QED
  BY <1>4, <1>7, <1>8, <1>9, Zenon DEF IInv

\* A step that lets the world grow and leaves the watcher's state alone.
LEMMA WorldGrows ==
  ASSUME IInv, UNCHANGED watcherVars, ProcessedOK(log, processed)',
         Grew(log, first, processed, lastStart, log', first', processed', lastStart')
  PROVE  /\ PointsOK'
         /\ AckedOK(processed, batch, acked)' => PipeOK'
<1>1. src \in SrcRec
  BY Zenon DEF IInv, StateOK
<1>2. PointsOK'
  <2>1. /\ PointOrNone(log', first', processed', lastStart', mem[Name])
        /\ PointOrNone(log', first', processed', lastStart', disk[Name])
        /\ PointOrNone(log', first', processed', lastStart', src.cp)
        /\ GateOrNone(log', first', processed', lastStart', gate)
    BY GrewKeeps, Zenon DEF IInv, PointsOK
  <2> QED
    BY <2>1, Zenon DEF PointsOK, watcherVars
<1>3. ASSUME AckedOK(processed, batch, acked)' PROVE PipeOK'
  <2>1. /\ BatchOK(log', first', processed', lastStart', batch)
        /\ LogsOK(log', first', processed', lastStart', batch, logs)
        /\ StreamOK(log', first', processed', lastStart', batch, logs, src)
    BY <1>1, GrewKeeps, Zenon DEF IInv, PipeOK
  <2> QED
    BY <1>3, <2>1, Zenon DEF PipeOK, watcherVars
<1> QED
  BY <1>2, <1>3

\* WriteLine: a new line is younger than all lines of the name.
LEMMA WriteLineKeeps ==
  ASSUME IInv, ~Ties, NEW text \in Texts, WriteLine(text)
  PROVE  IInv'
<1> DEFINE e == [ts |-> now, text |-> text]
           n == Len(log[cur])
<1>1. /\ log' = [log EXCEPT ![cur] = Append(log[cur], e)]
      /\ \A l \in Lines(cur) : l.ts < now
      /\ UNCHANGED <<now, cur, first, acked, initialStart, processed, lastStart>>
      /\ UNCHANGED watcherVars
  BY Zenon DEF WriteLine, history, consVars, storeVars, watcherVars
<1>2. /\ log \in [Containers -> Seq(Entry)] /\ cur \in Containers /\ log[cur] \in Seq(Entry)
      /\ now \in Nat \ {0} /\ e \in Entry /\ n \in Nat
  <2>1. log \in [Containers -> Seq(Entry)] /\ cur \in Containers /\ now \in 1 .. MaxTime
    BY Zenon DEF IInv, DockerOK
  <2>2. now \in Nat \ {0} /\ log[cur] \in Seq(Entry)
    BY <2>1, BoundsAssumption
  <2>3. e \in Entry /\ n \in Nat
    BY <2>2 DEF Entry
  <2> QED
    BY <2>1, <2>2, <2>3
<1>3. ASSUME NEW c \in Containers, c # cur PROVE log'[c] = log[c]
  BY <1>1, <1>2, <1>3
<1>4. /\ log' \in [Containers -> Seq(Entry)]
      /\ log'[cur] = Append(log[cur], e) /\ Len(log'[cur]) = n + 1
      /\ log'[cur][n + 1] = e /\ \A i \in 1 .. n : log'[cur][i] = log[cur][i]
  <2>1. /\ Append(log[cur], e) \in Seq(Entry) /\ Len(Append(log[cur], e)) = n + 1
        /\ Append(log[cur], e)[n + 1] = e
        /\ \A i \in 1 .. n : Append(log[cur], e)[i] = log[cur][i]
    <3> HIDE DEF e
    <3> QED
      BY <1>2
  <2> HIDE DEF e, n
  <2> QED
    BY <1>1, <1>2, <2>1
<1>5. e.ts = now
  OBVIOUS
<1>6. \A i \in 1 .. n : log[cur][i].ts \in 1 .. now /\ log[cur][i].ts < now
  <2>1. \A i \in 1 .. n : Line(cur, i).ts = log[cur][i].ts /\ Line(cur, i) \in Lines(cur)
    BY DEF Line, Lines
  <2>2. \A i \in 1 .. n : log[cur][i].ts \in 1 .. now
    BY <1>2, Zenon DEF IInv, DockerOK
  <2> QED
    BY <1>1, <2>1, <2>2, Zenon
<1> HIDE DEF e, n
<1>7. ASSUME NEW c \in Containers
      PROVE  /\ Len(log'[c]) \in Nat /\ Len(log[c]) \in Nat /\ Len(log[c]) <= Len(log'[c])
             /\ \A i \in 1 .. Len(log[c]) : log'[c][i] = log[c][i]
             /\ c # cur => log'[c] = log[c]
  BY <1>2, <1>3, <1>4 DEF n
<1>8. DockerOK'
  <2>1. \A c \in Containers : first[c] <= Len(log'[c]) + 1
    <3> TAKE c \in Containers
    <3>1. first[c] \in Nat /\ first[c] <= Len(log[c]) + 1
      BY DEF IInv, DockerOK
    <3> QED
      BY <1>7, <3>1
  <2>2. \A c \in Containers : c > cur => log'[c] = <<>>
    <3> TAKE c \in Containers
    <3>1. c > cur => c # cur /\ log[c] = <<>>
      BY <1>2 DEF Containers, IInv, DockerOK
    <3> QED
      BY <1>7, <3>1
  <2>3. \A c \in Containers : \A i \in 1 .. Len(log'[c]) : log'[c][i].ts \in 1 .. now
    <3> TAKE c \in Containers
    <3>1. CASE c # cur
      BY <1>7, <3>1, Zenon DEF IInv, DockerOK
    <3>2. CASE c = cur
      <4> SUFFICES ASSUME NEW i \in 1 .. n + 1 PROVE log'[cur][i].ts \in 1 .. now
        BY <1>4, <3>2, Zenon
      <4>1. CASE i = n + 1
        BY <1>2, <1>4, <1>5, <4>1
      <4>2. CASE i # n + 1
        <5>1. i \in 1 .. n
          BY <1>2, <4>2
        <5> QED
          BY <1>4, <1>6, <5>1, Zenon
      <4> QED
        BY <4>1, <4>2
    <3> QED
      BY <3>1, <3>2
  <2>4. \A c \in Containers : \A i, j \in 1 .. Len(log'[c]) :
          i < j => log'[c][i].ts < log'[c][j].ts
    <3> TAKE c \in Containers
    <3>1. CASE c # cur
      BY <1>7, <3>1, Zenon DEF IInv, DockerOK
    <3>2. CASE c = cur
      <4> SUFFICES ASSUME NEW i \in 1 .. n + 1, NEW j \in 1 .. n + 1, i < j
                   PROVE  log'[cur][i].ts < log'[cur][j].ts
        BY <1>4, <3>2, Zenon
      <4>1. CASE j = n + 1
        BY <1>2, <1>4, <1>5, <1>6, <4>1
      <4>2. CASE j # n + 1
        <5>1. i \in 1 .. n /\ j \in 1 .. n
          BY <1>2, <4>2
        <5>2. log[cur][i].ts < log[cur][j].ts
          BY <1>2, <5>1, Zenon DEF IInv, DockerOK, n
        <5> QED
          BY <1>4, <5>1, <5>2
      <4> QED
        BY <4>1, <4>2
    <3> QED
      BY <3>1, <3>2
  <2>5. \A c, d \in Containers : c < d =>
          \A i \in 1 .. Len(log'[c]), j \in 1 .. Len(log'[d]) : log'[c][i].ts <= log'[d][j].ts
    <3> SUFFICES ASSUME NEW c \in Containers, NEW d \in Containers, c < d,
                        NEW i \in 1 .. Len(log'[c]), NEW j \in 1 .. Len(log'[d])
                 PROVE  log'[c][i].ts <= log'[d][j].ts
      BY Zenon
    <3>1. d <= cur
      <4>1. d > cur => Len(log'[d]) = 0
        BY <2>2
      <4> QED
        BY <1>2, <4>1 DEF Containers
    <3>2. c # cur /\ log'[c] = log[c]
      BY <1>2, <1>7, <3>1 DEF Containers
    <3>3. CASE d # cur
      BY <1>7, <3>2, <3>3, Zenon DEF IInv, DockerOK
    <3>4. CASE d = cur /\ j \in 1 .. n
      <4>1. log[c][i].ts <= log[cur][j].ts
        BY <1>2, <3>2, <3>4, Zenon DEF IInv, DockerOK, n
      <4> QED
        BY <1>4, <3>2, <3>4, <4>1
    <3>5. CASE d = cur /\ j = n + 1
      <4>1. log[c][i].ts \in 1 .. now
        BY <3>2, Zenon DEF IInv, DockerOK
      <4> QED
        BY <1>2, <1>4, <1>5, <3>2, <3>5, <4>1
    <3> QED
      BY <1>2, <1>4, <3>3, <3>4, <3>5
  <2> QED
    BY <1>1, <1>4, <2>1, <2>2, <2>3, <2>4, <2>5, Zenon DEF IInv, DockerOK
<1>9. Grew(log, first, processed, lastStart, log', first', processed', lastStart')
  <2>1. World(log, first, lastStart) /\ World(log', first', lastStart')
    BY <1>1, <1>4, TheWorld, Zenon DEF World
  <2>2. \A c \in Containers : first[c] <= first'[c]
    BY <1>1, <2>1 DEF World
  <2>3. lastStart = None \/ (lastStart' # None /\ lastStart' >= lastStart)
    BY <1>1, <2>1 DEF World
  <2> QED
    BY <1>1, <1>7, <2>1, <2>2, <2>3, Zenon DEF Grew
<1>10. StateOK'
  BY <1>1, Zenon DEF IInv, StateOK, watcherVars
<1>11. ProcessedOK(log, processed)'
  <2>1. \A l : Real(log, l) => Real(log', l)
    BY <1>9, GrewKeeps, Zenon
  <2> QED
    BY <1>1, <2>1, Zenon DEF IInv, PipeOK, ProcessedOK
<1>12. AckedOK(processed, batch, acked)'
  BY <1>1, Zenon DEF IInv, PipeOK, AckedOK, watcherVars
<1> QED
  BY <1>1, <1>8, <1>9, <1>10, <1>11, <1>12, WorldGrows, Zenon DEF IInv

\* Tick: the clock moves on.
LEMMA TickKeeps == IInv /\ Tick => IInv'
<1> SUFFICES ASSUME IInv, Tick PROVE IInv'
  OBVIOUS
<1>1. /\ now < MaxTime /\ now' = now + 1
      /\ UNCHANGED <<log, cur, first, acked, initialStart, processed, lastStart>>
      /\ UNCHANGED watcherVars
  BY Zenon DEF Tick, history, consVars, storeVars, watcherVars
<1>2. now \in 1 .. MaxTime
  BY Zenon DEF IInv, DockerOK
<1>3. now' \in 1 .. MaxTime /\ \A t \in 1 .. now : t \in 1 .. now'
  BY <1>1, <1>2, BoundsAssumption
<1>4. DockerOK'
  BY <1>1, <1>3, Zenon DEF IInv, DockerOK
<1>5. lastStart # None => lastStart <= now' - Window
  <2>1. lastStart \in Int \cup {None} /\ (lastStart # None => lastStart <= now - Window)
    BY Zenon DEF IInv, StateOK
  <2> QED
    BY <1>1, <1>2, <2>1, BoundsAssumption
<1>6. StateOK'
  BY <1>1, <1>5, Zenon DEF IInv, StateOK, watcherVars
<1>7. PointsOK' /\ PipeOK'
  BY <1>1, Zenon DEF IInv, PointsOK, PipeOK, watcherVars
<1> QED
  BY <1>4, <1>6, <1>7, Zenon DEF IInv

\* Recreate: the next container starts with an empty log.
LEMMA RecreateKeeps == IInv /\ Recreate => IInv'
<1> SUFFICES ASSUME IInv, Recreate PROVE IInv'
  OBVIOUS
<1>1. /\ cur < MaxContainers /\ cur' = cur + 1
      /\ UNCHANGED <<log, now, first, acked, initialStart, processed, lastStart>>
      /\ UNCHANGED watcherVars
  BY Zenon DEF Recreate, history, consVars, storeVars, watcherVars
<1>2. cur \in Containers
  BY Zenon DEF IInv, DockerOK
<1>3. cur' \in Containers /\ \A c \in Containers : c > cur' => c > cur
  BY <1>1, <1>2, BoundsAssumption DEF Containers
<1>4. DockerOK'
  BY <1>1, <1>3, Zenon DEF IInv, DockerOK
<1>5. StateOK'
  BY <1>1, Zenon DEF IInv, StateOK, watcherVars
<1>6. PointsOK' /\ PipeOK'
  BY <1>1, Zenon DEF IInv, PointsOK, PipeOK, watcherVars
<1> QED
  BY <1>4, <1>5, <1>6, Zenon DEF IInv

\* Rotate: the oldest line is no longer owed.
LEMMA RotateKeeps == IInv /\ Rotate => IInv'
<1> SUFFICES ASSUME IInv, Rotate PROVE IInv'
  OBVIOUS
<1>1. /\ first[cur] <= Len(log[cur]) /\ first' = [first EXCEPT ![cur] = first[cur] + 1]
      /\ UNCHANGED <<log, now, cur, acked, initialStart, processed, lastStart>>
      /\ UNCHANGED watcherVars
  BY Zenon DEF Rotate, history, consVars, storeVars, watcherVars
<1>2. /\ cur \in Containers /\ first \in [Containers -> Nat \ {0}]
      /\ \A c \in Containers : first[c] <= Len(log[c]) + 1
      /\ \A c \in Containers : Len(log[c]) \in Nat
  BY DEF IInv, DockerOK
<1>3. /\ first' \in [Containers -> Nat \ {0}]
      /\ \A c \in Containers : first[c] <= first'[c] /\ first'[c] <= Len(log[c]) + 1
  BY <1>1, <1>2
<1>4. DockerOK'
  BY <1>1, <1>3, Zenon DEF IInv, DockerOK
<1>5. StateOK'
  BY <1>1, Zenon DEF IInv, StateOK, watcherVars
<1>6. Grew(log, first, processed, lastStart, log', first', processed', lastStart')
  <2>1. World(log, first, lastStart) /\ World(log', first', lastStart')
    BY <1>1, <1>3, TheWorld, Zenon DEF World
  <2>2. lastStart = None \/ (lastStart' # None /\ lastStart' >= lastStart)
    BY <1>1, <2>1 DEF World
  <2>3. \A c \in Containers : Len(log[c]) <= Len(log[c])
    BY <1>2
  <2> QED
    BY <1>1, <1>3, <2>1, <2>2, <2>3, Zenon DEF Grew
<1>7. ProcessedOK(log, processed)' /\ AckedOK(processed, batch, acked)'
  BY <1>1, Zenon DEF IInv, PipeOK, watcherVars
<1> QED
  BY <1>1, <1>4, <1>5, <1>6, <1>7, WorldGrows, Zenon DEF IInv

\* Process: the first line of the batch joins the processed lines.
LEMMA ProcessKeeps == IInv /\ Process => IInv'
<1> SUFFICES ASSUME IInv, Process PROVE IInv'
  OBVIOUS
<1>1. /\ batch # <<>> /\ processed' = processed \cup {Head(batch)} /\ acked' = TRUE
      /\ UNCHANGED <<log, now, cur, first, initialStart, lastStart>>
      /\ UNCHANGED watcherVars
  BY Zenon DEF Process, dockerVars, storeVars, watcherVars
<1>2. DockerOK'
  BY <1>1, Zenon DEF IInv, DockerOK
<1>3. StateOK'
  BY <1>1, Zenon DEF IInv, StateOK, watcherVars
<1>4. batch \in Seq(LineRec) /\ Real(log, batch[1])
  <2>1. batch \in Seq(LineRec)
    BY Zenon DEF IInv, PipeOK, BatchOK
  <2>2. 1 \in 1 .. Len(batch)
    BY <1>1, <2>1
  <2> QED
    BY <2>1, <2>2, Zenon DEF IInv, PipeOK, BatchOK
<1>5. Head(batch) = batch[1]
  BY <1>1, <1>4
<1>6. Grew(log, first, processed, lastStart, log', first', processed', lastStart')
  <2>1. World(log, first, lastStart) /\ World(log', first', lastStart')
    BY <1>1, TheWorld, Zenon DEF World
  <2>2. lastStart = None \/ (lastStart' # None /\ lastStart' >= lastStart)
    BY <1>1, <2>1 DEF World
  <2>3. \A c \in Containers : Len(log[c]) <= Len(log[c]) /\ first[c] <= first[c]
    BY <2>1 DEF World
  <2> QED
    BY <1>1, <2>1, <2>2, <2>3, Zenon DEF Grew
<1>7. ProcessedOK(log, processed)'
  BY <1>1, <1>4, <1>5, Zenon DEF IInv, PipeOK, ProcessedOK
<1>8. AckedOK(processed, batch, acked)'
  BY <1>1, <1>5, Zenon DEF AckedOK, watcherVars
<1> QED
  BY <1>1, <1>2, <1>3, <1>6, <1>7, <1>8, WorldGrows, Zenon DEF IInv

-----------------------------------------------------------------------------
(* The steps of the stream manager.                                        *)

\* A step of the stream manager that leaves the world alone.
LEMMA SourceMoves ==
  ASSUME IInv, UNCHANGED <<dockerVars, logs, consVars, storeVars, history>>,
         initialStart' \in {initialStart, None}, src' \in SrcRec,
         PointOrNone(log, first, processed, lastStart, src'.cp),
         GateOrNone(log, first, processed, lastStart, gate'),
         StreamOK(log, first, processed, lastStart, batch, logs, src')
  PROVE  IInv'
<1>1. UNCHANGED <<now, log, cur, first, logs, batch, acked, mem, disk, processed, lastStart>>
  BY Zenon DEF dockerVars, consVars, storeVars, history
<1>2. DockerOK'
  BY <1>1, Zenon DEF IInv, DockerOK
<1>3. StateOK'
  BY <1>1, Zenon DEF IInv, StateOK
<1>4. PointsOK'
  BY <1>1, Zenon DEF IInv, PointsOK
<1>5. PipeOK'
  BY <1>1, Zenon DEF IInv, PipeOK
<1> QED
  BY <1>2, <1>3, <1>4, <1>5, Zenon DEF IInv

\* Discover: the stream is not open yet.
LEMMA DiscoverKeeps == IInv /\ Discover => IInv'
<1> SUFFICES ASSUME IInv, Discover PROVE IInv'
  OBVIOUS
<1>1. src \in SrcRec /\ cur \in Containers
  BY Zenon DEF IInv, StateOK, DockerOK
<1>2. src' \in SrcRec /\ src'.pc = "load" /\ src'.cp = src.cp
  BY <1>1, Zenon DEF Discover, SrcRec
<1>3. "load" # "stream"
  OBVIOUS
<1>4. /\ PointOrNone(log, first, processed, lastStart, src'.cp)
      /\ GateOrNone(log, first, processed, lastStart, gate')
      /\ StreamOK(log, first, processed, lastStart, batch, logs, src')
  BY <1>2, <1>3, Zenon DEF IInv, PointsOK, StreamOK, Discover
<1> QED
  BY <1>2, <1>4, SourceMoves, Zenon DEF Discover

\* AttachLoad: the checkpoint read is a sound one.
LEMMA AttachLoadKeeps == IInv /\ AttachLoad => IInv'
<1> SUFFICES ASSUME IInv, AttachLoad PROVE IInv'
  OBVIOUS
<1>1. src \in SrcRec /\ mem \in [{Name} -> LineRec \cup {None}]
  BY Zenon DEF IInv, StateOK
<1>2. src' \in SrcRec /\ src'.pc # "stream" /\ src'.cp \in {src.cp, mem[Name]}
  BY <1>1, Zenon DEF AttachLoad, SrcRec
<1>3. /\ PointOrNone(log, first, processed, lastStart, src'.cp)
      /\ GateOrNone(log, first, processed, lastStart, gate')
      /\ StreamOK(log, first, processed, lastStart, batch, logs, src')
  BY <1>2, Zenon DEF IInv, PointsOK, StreamOK, AttachLoad
<1> QED
  BY <1>2, <1>3, SourceMoves, Zenon DEF AttachLoad

\* AttachGate: the new gate has a sound checkpoint and buffers nothing.
LEMMA AttachGateKeeps == IInv /\ AttachGate => IInv'
<1> SUFFICES ASSUME IInv, AttachGate PROVE IInv'
  OBVIOUS
<1>1. src \in SrcRec /\ (src.cp # None => src.cp \in LineRec)
  BY Zenon DEF IInv, StateOK, SrcRec
<1>2. src' \in SrcRec /\ src'.pc # "stream" /\ src'.cp = None
  BY <1>1, Zenon DEF AttachGate, SrcRec
<1>3. GateOrNone(log, first, processed, lastStart, gate')
  <2>1. CASE src.cp = None
    BY <2>1, Zenon DEF AttachGate, GateOrNone
  <2>2. CASE src.cp # None
    <3>1. Point(log, first, processed, lastStart, src.cp)
      BY <2>2, Zenon DEF IInv, PointsOK, PointOrNone
    <3>2. /\ gate' = NewReplayGate(src.cp)
          /\ gate' \in [checkpoint : LineRec, looking : BOOLEAN, buffered : Seq(LineRec)]
          /\ gate'.checkpoint = src.cp /\ gate'.buffered = <<>>
      BY <1>1, <2>2 DEF AttachGate, NewReplayGate
    <3>3. \A k \in 1 .. Len(gate'.buffered) : FALSE
      BY <3>2
    <3> QED
      BY <3>1, <3>2, <3>3, Zenon DEF GateOrNone, GateOK
  <2> QED
    BY <2>1, <2>2
<1>4. /\ PointOrNone(log, first, processed, lastStart, src'.cp)
      /\ StreamOK(log, first, processed, lastStart, batch, logs, src')
  BY <1>2, Zenon DEF PointOrNone, StreamOK
<1> QED
  BY <1>2, <1>3, <1>4, SourceMoves, Zenon DEF AttachGate

\* Without pieces the end of a stream leaves the channel as it is.
LEMMA NothingCut == ASSUME Pieces = {}, Disconnect PROVE logs' = logs
<1>1. \A l : PiecesOf(l) = {}
  BY DEF PiecesOf
<1> QED
  BY <1>1, Zenon DEF Disconnect

\* Disconnect: the channel keeps what was sent.
LEMMA DisconnectKeeps == Pieces = {} /\ IInv /\ Disconnect => IInv'
<1> SUFFICES ASSUME Pieces = {}, IInv, Disconnect PROVE IInv'
  OBVIOUS
<1>0. logs' = logs
  BY NothingCut, Zenon
<1>1. src \in SrcRec
  BY Zenon DEF IInv, StateOK
<1>2. src' \in SrcRec /\ src'.pc # "stream" /\ src'.cp = src.cp
  BY <1>1, Zenon DEF Disconnect, SrcRec
<1>3. /\ PointOrNone(log, first, processed, lastStart, src'.cp)
      /\ GateOrNone(log, first, processed, lastStart, gate')
      /\ StreamOK(log, first, processed, lastStart, batch, logs, src')
  BY <1>2, Zenon DEF IInv, PointsOK, StreamOK, Disconnect
<1> QED
  BY <1>0, <1>2, <1>3, SourceMoves, Zenon DEF Disconnect

\* A stream that opens at a start before which no line is owed skips none.
LEMMA OpensWell ==
  ASSUME IInv, NEW start \in Int, OpenAt(start), NEW S,
         \A j \in first[cur] .. Len(log[cur]) :
           log[cur][j].ts < start => Safe(log, first, processed, S, cur, j)
  PROVE  /\ src' \in SrcRec /\ src'.cp = src.cp
         /\ StreamOK(log, first, processed, S, batch, logs, src')
<1>1. src \in SrcRec /\ DockerOK
  BY Zenon DEF IInv, StateOK
<1>2. CASE src.id # cur
  <2>1. src' \in SrcRec /\ src'.cp = src.cp /\ src'.pc # "stream"
    BY <1>1, <1>2, Zenon DEF OpenAt, SrcRec
  <2> QED
    BY <2>1, Zenon DEF StreamOK
<1>3. CASE src.id = cur
  <2> DEFINE n == FirstSince(start)
  <2>1. /\ n \in first[cur] .. Len(log[cur]) + 1
        /\ \A j \in first[cur] .. n - 1 : log[cur][j].ts < start
    BY <1>1, SkipsOlder, Zenon DEF DockerOK, LogTyped
  <2>2. Len(log[cur]) \in Nat /\ first[cur] \in Nat \ {0}
    BY <1>1 DEF DockerOK
  <2> HIDE DEF n
  <2>3. n \in Nat /\ n \in 1 .. Len(log[cur]) + 1
    BY <2>1, <2>2
  <2>4. /\ src' \in SrcRec /\ src'.cp = src.cp /\ src'.id = cur /\ src'.pos = n
    BY <1>1, <1>3, <2>3, Zenon DEF OpenAt, SrcRec, n
  <2>5. ASSUME NEW i \in 1 .. n - 1
        PROVE  Safe(log, first, processed, S, cur, i)
    <3>1. CASE i < first[cur]
      <4>1. ~(i >= first[cur])
        BY <2>2, <2>3, <3>1
      <4> QED
        BY <4>1, Zenon DEF Safe
    <3>2. CASE ~(i < first[cur])
      <4>1. i \in first[cur] .. n - 1 /\ i \in first[cur] .. Len(log[cur])
        BY <2>2, <2>3, <3>2
      <4> QED
        BY <2>1, <4>1, Zenon
    <3> QED
      BY <3>1, <3>2
  <2>6. SentOK(log, first, processed, S, batch, logs, cur, n)
    BY <2>3, <2>5, Zenon DEF SentOK, Ahead
  <2> QED
    BY <2>4, <2>6, Zenon DEF StreamOK
<1> QED
  BY <1>2, <1>3

\* Lines older than the checkpoint's overlap are behind the checkpoint.
LEMMA StreamFromCheckpointKeeps == IInv /\ StreamFromCheckpoint => IInv'
<1> SUFFICES ASSUME IInv, StreamFromCheckpoint PROVE IInv'
  OBVIOUS
<1> DEFINE cp == mem[Name]
           start == ReplayStart(cp, Overlap)
<1>1. Point(log, first, processed, lastStart, cp) /\ Real(log, cp)
  BY Zenon DEF IInv, PointsOK, PointOrNone, Point, StreamFromCheckpoint
<1>2. cp \in LineRec /\ cp.ts \in Nat /\ cp.id \in Containers /\ cp.pos \in 1 .. Len(log[cp.id])
  BY <1>1 DEF Real, LineRec
<1>3. cp.ts = log[cp.id][cp.pos].ts
  <2>1. cp = LineAt(log, cp.id, cp.pos)
    BY <1>1, Zenon DEF Real
  <2>2. \A c, i : LineAt(log, c, i).ts = log[c][i].ts
    BY DEF LineAt
  <2> QED
    BY <2>1, <2>2
<1>4. start \in Int /\ start <= cp.ts
  BY <1>2, BoundsAssumption DEF ReplayStart
<1>5. /\ cur \in Containers /\ log \in [Containers -> Seq(Entry)]
      /\ Len(log[cur]) \in Nat /\ Len(log[cp.id]) \in Nat /\ first[cur] \in Nat \ {0}
      /\ \A i \in 1 .. Len(log[cur]) : log[cur][i].ts \in 1 .. now
  BY <1>2 DEF IInv, DockerOK
<1> HIDE DEF start, cp
<1>6. ASSUME NEW j \in first[cur] .. Len(log[cur]), log[cur][j].ts < start
      PROVE  Safe(log, first, processed, lastStart, cur, j)
  <2>1. j \in 1 .. Len(log[cur]) /\ log[cur][j].ts \in Int /\ log[cur][j].ts < cp.ts
    <3>1. j \in 1 .. Len(log[cur])
      BY <1>5
    <3>2. log[cur][j].ts \in Int
      BY <1>5, <3>1
    <3> QED
      BY <1>2, <1>4, <1>6, <3>1, <3>2
  <2>2. CASE cp.id = cur
    <3>1. ASSUME ~(j <= cp.pos) PROVE FALSE
      <4>1. cp.pos \in 1 .. Len(log[cur]) /\ cp.pos < j
        BY <1>2, <2>1, <2>2, <3>1
      <4>2. cp.ts < log[cur][j].ts
        BY <1>3, <1>5, <2>1, <2>2, <4>1, Zenon DEF IInv, DockerOK
      <4> QED
        BY <1>2, <2>1, <4>2
    <3>2. j \in 1 .. cp.pos
      BY <1>2, <2>1, <3>1
    <3> QED
      BY <1>1, <2>2, <3>2, Zenon DEF Point, SafeTo
  <2>3. CASE cp.id < cur
    <3>1. cp.ts <= log[cur][j].ts
      BY <1>2, <1>3, <1>5, <2>1, <2>3, Zenon DEF IInv, DockerOK
    <3> QED
      BY <1>2, <2>1, <3>1
  <2>4. CASE cp.id > cur
    <3>1. log[cp.id] = <<>>
      BY <1>2, <2>4, Zenon DEF IInv, DockerOK
    <3> QED
      BY <1>2, <3>1
  <2> QED
    BY <1>2, <1>5, <2>2, <2>3, <2>4 DEF Containers
<1>7. OpenAt(start)
  BY Zenon DEF StreamFromCheckpoint, start, cp
<1>8. /\ src' \in SrcRec /\ src'.cp = src.cp
      /\ StreamOK(log, first, processed, lastStart, batch, logs, src')
  BY <1>4, <1>6, <1>7, OpensWell, Zenon
<1>9. /\ PointOrNone(log, first, processed, lastStart, src'.cp)
      /\ GateOrNone(log, first, processed, lastStart, gate')
  BY <1>8, Zenon DEF IInv, PointsOK, StreamFromCheckpoint
<1> QED
  BY <1>8, <1>9, SourceMoves, Zenon DEF StreamFromCheckpoint

\* StreamWithoutStore: from the zero time Docker skips nothing.
LEMMA StreamWithoutStoreKeeps == IInv /\ StreamWithoutStore => IInv'
<1> SUFFICES ASSUME IInv, StreamWithoutStore PROVE IInv'
  OBVIOUS
<1>1. ASSUME NEW j \in first[cur] .. Len(log[cur]), log[cur][j].ts < 0 PROVE FALSE
  <2>1. /\ Len(log[cur]) \in Nat /\ first[cur] \in Nat \ {0} /\ now \in Nat
        /\ \A i \in 1 .. Len(log[cur]) : log[cur][i].ts \in 1 .. now
    BY DEF IInv, DockerOK
  <2>2. j \in 1 .. Len(log[cur])
    BY <2>1
  <2>3. log[cur][j].ts \in 1 .. now
    BY <2>1, <2>2
  <2> QED
    BY <1>1, <2>1, <2>3
<1>2. OpenAt(0) /\ 0 \in Int
  BY DEF StreamWithoutStore
<1>3. /\ src' \in SrcRec /\ src'.cp = src.cp
      /\ StreamOK(log, first, processed, lastStart, batch, logs, src')
  BY <1>1, <1>2, OpensWell, Zenon
<1>4. /\ PointOrNone(log, first, processed, lastStart, src'.cp)
      /\ GateOrNone(log, first, processed, lastStart, gate')
  BY <1>3, Zenon DEF IInv, PointsOK, StreamWithoutStore
<1> QED
  BY <1>3, <1>4, SourceMoves, Zenon DEF StreamWithoutStore

\* Without a checkpoint, the lines before the start are not owed.
LEMMA StreamInitiallyKeeps == IInv /\ StreamInitially => IInv'
<1> SUFFICES ASSUME IInv, StreamInitially PROVE IInv'
  OBVIOUS
<1> DEFINE start == IF initialStart # None THEN initialStart ELSE now - Window
<1>1. /\ UNCHANGED <<now, log, cur, first, logs, gate, batch, acked, mem, disk, processed>>
      /\ initialStart' = start /\ lastStart' = start /\ OpenAt(start)
  BY Zenon DEF StreamInitially, dockerVars, consVars, storeVars
<1>2. /\ now \in Nat /\ initialStart \in Int \cup {None} /\ lastStart \in Int \cup {None}
      /\ initialStart # None => lastStart = initialStart
      /\ lastStart # None => lastStart <= now - Window
  BY DEF IInv, DockerOK, StateOK
<1>3. /\ start \in Int /\ start # None /\ start <= now - Window
      /\ lastStart # None => start >= lastStart
  BY <1>2, BoundsAssumption
<1> HIDE DEF start
<1>4. \A j \in first[cur] .. Len(log[cur]) :
        log[cur][j].ts < start => Safe(log, first, processed, start, cur, j)
  <2>1. ASSUME NEW j \in first[cur] .. Len(log[cur]), log[cur][j].ts < start
        PROVE  ~(log[cur][j].ts >= start)
    <3>1. /\ Len(log[cur]) \in Nat /\ first[cur] \in Nat \ {0} /\ now \in Nat
          /\ \A i \in 1 .. Len(log[cur]) : log[cur][i].ts \in 1 .. now
      BY DEF IInv, DockerOK
    <3>2. j \in 1 .. Len(log[cur])
      BY <3>1
    <3>3. log[cur][j].ts \in Int
      BY <3>1, <3>2
    <3> QED
      BY <1>3, <2>1, <3>3
  <2> QED
    BY <1>3, <2>1, Zenon DEF Safe
<1>5. /\ src' \in SrcRec /\ src'.cp = src.cp
      /\ StreamOK(log, first, processed, start, batch, logs, src')
  BY <1>1, <1>3, <1>4, OpensWell, Zenon
<1>6. Grew(log, first, processed, lastStart, log, first, processed, start)
  <2>1. World(log, first, lastStart) /\ World(log, first, start)
    BY <1>3, TheWorld, Zenon DEF World
  <2>2. \A c \in Containers : Len(log[c]) <= Len(log[c]) /\ first[c] <= first[c]
    BY <2>1 DEF World
  <2> QED
    BY <1>3, <2>1, <2>2, Zenon DEF Grew
<1>7. DockerOK'
  BY <1>1, Zenon DEF IInv, DockerOK
<1>8. StateOK'
  BY <1>1, <1>3, <1>5, Zenon DEF IInv, StateOK
<1>9. PointsOK'
  <2>1. /\ PointOrNone(log, first, processed, start, mem[Name])
        /\ PointOrNone(log, first, processed, start, disk[Name])
        /\ PointOrNone(log, first, processed, start, src.cp)
        /\ GateOrNone(log, first, processed, start, gate)
    BY <1>6, GrewKeeps, Zenon DEF IInv, PointsOK
  <2> QED
    BY <1>1, <1>5, <2>1, Zenon DEF PointsOK
<1>10. PipeOK'
  <2>1. /\ BatchOK(log, first, processed, start, batch)
        /\ LogsOK(log, first, processed, start, batch, logs)
    BY <1>6, GrewKeeps, Zenon DEF IInv, PipeOK
  <2> QED
    BY <1>1, <1>5, <2>1, Zenon DEF IInv, PipeOK
<1> QED
  BY <1>7, <1>8, <1>9, <1>10, Zenon DEF IInv

\* Emit: the next line Docker holds enters the channel.
LEMMA EmitKeeps == IInv /\ Emit => IInv'
<1> SUFFICES ASSUME IInv, Emit PROVE IInv'
  OBVIOUS
<1>1. /\ UNCHANGED <<now, log, cur, first, gate, initialStart, batch, acked, mem, disk>>
      /\ UNCHANGED <<processed, lastStart>>
      /\ src.pc = "stream" /\ NextLine <= Len(log[src.id]) /\ Len(logs) < ChannelSize
      /\ logs' = Append(logs, Line(src.id, NextLine))
      /\ src' = [src EXCEPT !.pos = NextLine + 1]
  BY Zenon DEF Emit, dockerVars, consVars, storeVars, history
<1>2. /\ src \in SrcRec /\ src.id \in Containers /\ src.pos \in Nat
      /\ LogsOK(log, first, processed, lastStart, batch, logs)
      /\ SentOK(log, first, processed, lastStart, batch, logs, src.id, src.pos)
  BY <1>1, Zenon DEF IInv, StateOK, SrcRec, PipeOK, StreamOK
<1>3. NextLine = Following(first, src.id, src.pos)
  BY Zenon DEF NextLine, Following
<1>4. Line(src.id, NextLine) = LineAt(log, src.id, NextLine)
  BY Zenon DEF Line, LineAt
<1>5. World(log, first, lastStart)
  BY TheWorld, Zenon
<1>6. /\ LogsOK(log, first, processed, lastStart, batch, logs')
      /\ NextLine + 1 \in Nat
      /\ SentOK(log, first, processed, lastStart, batch, logs', src.id, NextLine + 1)
  <2> DEFINE m == NextLine
  <2>1. m = Following(first, src.id, src.pos) /\ m <= Len(log[src.id])
    BY <1>1, <1>3, Zenon
  <2>2. logs' = Append(logs, LineAt(log, src.id, m))
    BY <1>1, <1>4, Zenon
  <2> HIDE DEF m
  <2>3. /\ LogsOK(log, first, processed, lastStart, batch, Append(logs, LineAt(log, src.id, m)))
        /\ m + 1 \in Nat
        /\ SentOK(log, first, processed, lastStart, batch,
                  Append(logs, LineAt(log, src.id, m)), src.id, m + 1)
    BY <1>2, <1>5, <2>1, LineEmitted, Zenon
  <2> QED
    BY <2>2, <2>3, Zenon DEF m
<1>7. src' \in SrcRec /\ src'.cp = src.cp /\ src'.id = src.id /\ src'.pos = NextLine + 1
  BY <1>1, <1>2, <1>6, Zenon DEF SrcRec
<1>8. Len(logs') <= ChannelSize
  <2>1. logs \in Seq(LineRec)
    BY <1>2, Zenon DEF LogsOK
  <2>2. Len(logs') = Len(logs) + 1 /\ Len(logs) \in Nat
    BY <1>1, <2>1
  <2> QED
    BY <1>1, <2>2, BoundsAssumption
<1>9. DockerOK' /\ StateOK'
  BY <1>1, <1>7, <1>8, Zenon DEF IInv, DockerOK, StateOK
<1>10. PointsOK'
  BY <1>1, <1>7, Zenon DEF IInv, PointsOK
<1>11. PipeOK'
  BY <1>1, <1>6, <1>7, Zenon DEF IInv, PipeOK, StreamOK
<1> QED
  BY <1>9, <1>10, <1>11, Zenon DEF IInv

-----------------------------------------------------------------------------
(* The steps of the consumer and of the store.                             *)

\* With an empty batch, what is in front of the channel's first line is safe.
LEMMA FirstInLine ==
  ASSUME NEW L, NEW F, NEW P, NEW S, NEW q, q # <<>>, LogsOK(L, F, P, S, <<>>, q)
  PROVE  /\ Head(q) = q[1] /\ Real(L, q[1])
         /\ SafeTo(L, F, P, S, q[1].id, q[1].pos - 1)
         /\ BatchOK(L, F, P, S, <<q[1]>>)
         /\ Passed(L, F, P, S, <<>>, q[1], <<q[1]>>)
<1>1. q \in Seq(LineRec)
  BY Zenon DEF LogsOK
<1>2. Head(q) = q[1] /\ 1 \in 1 .. Len(q) /\ q[1] \in LineRec
  BY <1>1
<1>3. Real(L, q[1]) /\ \A i \in 1 .. q[1].pos - 1 : Ahead(L, F, P, S, <<>>, q, 1 - 1, q[1].id, i)
  BY <1>2, Zenon DEF LogsOK
<1>4. (\A m \in 1 .. 1 - 1 : FALSE) /\ (\A m \in 1 .. Len(<<>>) : FALSE)
  OBVIOUS
<1>5. SafeTo(L, F, P, S, q[1].id, q[1].pos - 1)
  BY <1>3, <1>4, Zenon DEF SafeTo, Ahead
<1>6. /\ <<q[1]>> \in Seq(LineRec) /\ <<q[1]>>[1] = q[1] /\ 1 \in 1 .. Len(<<q[1]>>)
      /\ \A k \in 1 .. Len(<<q[1]>>) : <<q[1]>>[k] = q[1]
  BY <1>2
<1>7. BatchOK(L, F, P, S, <<q[1]>>)
  BY <1>3, <1>5, <1>6, Zenon DEF BatchOK
<1>8. Passed(L, F, P, S, <<>>, q[1], <<q[1]>>)
  BY <1>4, <1>6, Zenon DEF Passed
<1> QED
  BY <1>2, <1>3, <1>5, <1>7, <1>8, Zenon

\* Receive hands the first line on, through the gate if there is one.
LEMMA ReceiveKeeps == IInv /\ Receive => IInv'
<1> SUFFICES ASSUME IInv, Receive PROVE IInv'
  OBVIOUS
<1>1. /\ UNCHANGED <<now, log, cur, first, src, initialStart, acked, mem, disk, processed>>
      /\ lastStart' = lastStart /\ batch = <<>> /\ logs # <<>> /\ logs' = Tail(logs)
      /\ IF gate = None
         THEN batch' = <<Head(logs)>> /\ gate' = gate
         ELSE batch' = AcceptLines(gate, Head(logs)) /\ gate' = AcceptGate(gate, Head(logs))
  BY Zenon DEF Receive, dockerVars, storeVars, history
<1>2. World(log, first, lastStart) /\ Rising(log)
  BY TheWorld, Zenon
<1>3. /\ LogsOK(log, first, processed, lastStart, <<>>, logs)
      /\ GateOrNone(log, first, processed, lastStart, gate)
      /\ src \in SrcRec /\ src.id \in Containers /\ src.pos \in Nat
      /\ src.pc = "stream" =>
           SentOK(log, first, processed, lastStart, <<>>, logs, src.id, src.pos)
  BY <1>1, Zenon DEF IInv, StateOK, SrcRec, PointsOK, PipeOK, StreamOK
<1>4. /\ Head(logs) = logs[1] /\ Real(log, logs[1])
      /\ SafeTo(log, first, processed, lastStart, logs[1].id, logs[1].pos - 1)
      /\ BatchOK(log, first, processed, lastStart, <<logs[1]>>)
      /\ Passed(log, first, processed, lastStart, <<>>, logs[1], <<logs[1]>>)
  BY <1>1, <1>3, FirstInLine, Zenon
<1>5. /\ BatchOK(log, first, processed, lastStart, batch')
      /\ Passed(log, first, processed, lastStart, <<>>, logs[1], batch')
      /\ GateOrNone(log, first, processed, lastStart, gate')
  <2>1. CASE gate = None
    BY <1>1, <1>3, <1>4, <2>1, Zenon
  <2>2. CASE gate # None
    <3>1. GateOK(log, first, processed, lastStart, gate)
      BY <1>3, <2>2, Zenon DEF GateOrNone
    <3>2. batch' = AcceptLines(gate, logs[1]) /\ gate' = AcceptGate(gate, logs[1])
      BY <1>1, <1>4, <2>2, Zenon
    <3>3. /\ BatchOK(log, first, processed, lastStart, AcceptLines(gate, logs[1]))
          /\ Passed(log, first, processed, lastStart, <<>>, logs[1], AcceptLines(gate, logs[1]))
          /\ GateOK(log, first, processed, lastStart, AcceptGate(gate, logs[1]))
      BY <1>2, <1>4, <3>1, Accepted, Zenon
    <3> QED
      BY <3>2, <3>3, Zenon DEF GateOrNone
  <2> QED
    BY <2>1, <2>2
<1>6. /\ LogsOK(log, first, processed, lastStart, batch', logs')
      /\ src.pc = "stream" =>
           SentOK(log, first, processed, lastStart, batch', logs', src.id, src.pos)
  BY <1>1, <1>2, <1>3, <1>5, HeadLeaves, Zenon
<1>7. Len(logs') <= ChannelSize
  <2>1. logs \in Seq(LineRec) /\ Len(logs) <= ChannelSize
    BY <1>3, Zenon DEF LogsOK, IInv, StateOK
  <2>2. Len(logs') = Len(logs) - 1 /\ Len(logs) \in Nat
    BY <1>1, <2>1
  <2> QED
    BY <2>1, <2>2, BoundsAssumption
<1>8. DockerOK' /\ StateOK'
  BY <1>1, <1>7, Zenon DEF IInv, DockerOK, StateOK
<1>9. PointsOK'
  BY <1>1, <1>5, Zenon DEF IInv, PointsOK
<1>10. AckedOK(processed, batch, acked)'
  BY <1>1, Zenon DEF IInv, PipeOK, AckedOK
<1>11. PipeOK'
  BY <1>1, <1>5, <1>6, <1>10, Zenon DEF IInv, PipeOK, StreamOK
<1> QED
  BY <1>8, <1>9, <1>11, Zenon DEF IInv

\* Save takes the line just processed, as it has a timestamp.
LEMMA SaveTakes ==
  ASSUME IInv, SaveCheckpoint
  PROVE  mem' = [mem EXCEPT ![Name] = Head(batch)] /\ disk' \in {disk, mem'}
<1>1. /\ acked /\ batch # <<>> /\ batch \in Seq(LineRec)
      /\ \A k \in 1 .. Len(batch) : Real(log, batch[k])
  BY Zenon DEF SaveCheckpoint, IInv, PipeOK, AckedOK, BatchOK
<1>2. Head(batch) = batch[1] /\ 1 \in 1 .. Len(batch) /\ now \in Nat
  BY <1>1 DEF IInv, DockerOK
<1>3. /\ Real(log, batch[1]) /\ batch[1].id \in Containers
      /\ batch[1].pos \in 1 .. Len(log[batch[1].id])
      /\ batch[1] = LineAt(log, batch[1].id, batch[1].pos)
  BY <1>1, <1>2, Zenon DEF Real, LineRec
<1>4. batch[1].ts = log[batch[1].id][batch[1].pos].ts
  <2>1. LineAt(log, batch[1].id, batch[1].pos).ts = log[batch[1].id][batch[1].pos].ts
    BY DEF LineAt
  <2> QED
    BY <1>3, <2>1
<1>5. batch[1].ts \in 1 .. now
  BY <1>3, <1>4, Zenon DEF IInv, DockerOK
<1>6. Head(batch).ts # 0
  BY <1>2, <1>5
<1> QED
  BY <1>6, Zenon DEF SaveCheckpoint, Store!Put

\* SaveCheckpoint stores the line just processed.
LEMMA SaveCheckpointKeeps == IInv /\ SaveCheckpoint => IInv'
<1> SUFFICES ASSUME IInv, SaveCheckpoint PROVE IInv'
  OBVIOUS
<1>1. /\ UNCHANGED <<now, log, cur, first, src, logs, gate, initialStart, processed, lastStart>>
      /\ acked /\ batch' = Tail(batch) /\ acked' = FALSE
      /\ mem' = [mem EXCEPT ![Name] = Head(batch)] /\ disk' \in {disk, mem'}
  BY SaveTakes, Zenon DEF SaveCheckpoint, dockerVars, history
<1>2. World(log, first, lastStart)
  BY TheWorld, Zenon
<1>3. /\ batch # <<>> /\ batch[1] \in processed
      /\ BatchOK(log, first, processed, lastStart, batch)
      /\ LogsOK(log, first, processed, lastStart, batch, logs)
      /\ src \in SrcRec /\ src.id \in Containers /\ src.pos \in Nat
      /\ src.pc = "stream" =>
           SentOK(log, first, processed, lastStart, batch, logs, src.id, src.pos)
  BY <1>1, Zenon DEF IInv, StateOK, SrcRec, PipeOK, StreamOK, AckedOK
<1>4. /\ Point(log, first, processed, lastStart, batch[1])
      /\ BatchOK(log, first, processed, lastStart, Tail(batch))
      /\ Passed(log, first, processed, lastStart, batch, batch[1], Tail(batch))
  BY <1>2, <1>3, Saved, Zenon
<1>5. /\ LogsOK(log, first, processed, lastStart, Tail(batch), logs)
      /\ src.pc = "stream" =>
           SentOK(log, first, processed, lastStart, Tail(batch), logs, src.id, src.pos)
  BY <1>2, <1>3, <1>4, BatchMoves, Zenon
<1>6. Head(batch) = batch[1] /\ batch[1] \in LineRec
  <2>1. batch \in Seq(LineRec)
    BY <1>3, Zenon DEF BatchOK
  <2> QED
    BY <1>3, <2>1
<1>7. /\ mem \in [{Name} -> LineRec \cup {None}] /\ disk \in [{Name} -> LineRec \cup {None}]
  BY Zenon DEF IInv, StateOK
<1>8. /\ mem' \in [{Name} -> LineRec \cup {None}] /\ disk' \in [{Name} -> LineRec \cup {None}]
      /\ mem'[Name] = batch[1] /\ disk'[Name] \in {disk[Name], batch[1]}
  BY <1>1, <1>6, <1>7, Zenon
<1>9. DockerOK' /\ StateOK'
  <2>1. acked' \in BOOLEAN
    BY <1>1, Zenon
  <2> QED
    BY <1>1, <1>8, <2>1, Zenon DEF IInv, DockerOK, StateOK
<1>10. PointsOK'
  BY <1>1, <1>4, <1>8, Zenon DEF IInv, PointsOK, PointOrNone
<1>11. PipeOK'
  BY <1>1, <1>4, <1>5, Zenon DEF IInv, PipeOK, StreamOK, AckedOK
<1> QED
  BY <1>9, <1>10, <1>11, Zenon DEF IInv

\* Flush: the database takes over a sound checkpoint.
LEMMA FlushKeeps == IInv /\ Flush => IInv'
<1> SUFFICES ASSUME IInv, Flush PROVE IInv'
  OBVIOUS
<1>1. /\ UNCHANGED <<now, log, cur, first, src, logs, gate, initialStart, batch, acked, mem>>
      /\ UNCHANGED <<processed, lastStart>> /\ disk' = mem
  BY Zenon DEF Flush, Store!Sync, dockerVars, consVars, history
<1>2. DockerOK' /\ StateOK'
  BY <1>1, Zenon DEF IInv, DockerOK, StateOK
<1>3. PointsOK' /\ PipeOK'
  BY <1>1, Zenon DEF IInv, PointsOK, PipeOK
<1> QED
  BY <1>2, <1>3, Zenon DEF IInv

\* A restarted watcher has an empty pipe and the checkpoint of the database.
LEMMA CrashKeeps == IInv /\ Crash => IInv'
<1> SUFFICES ASSUME IInv, Crash PROVE IInv'
  OBVIOUS
<1>1. /\ UNCHANGED <<now, log, cur, first, disk, processed, lastStart>> /\ mem' = disk
      /\ src' = NewSource /\ logs' = <<>> /\ gate' = None /\ initialStart' = None
      /\ batch' = <<>> /\ acked' = FALSE
  BY Zenon DEF Crash, Store!Reopen, dockerVars, history
<1>2. 1 \in Containers
  BY BoundsAssumption DEF Containers
<1>3. src' \in SrcRec /\ src'.pc = "discover" /\ src'.cp = None
  BY <1>1, <1>2 DEF NewSource, SrcRec
<1>4. Len(logs') <= ChannelSize
  BY <1>1, BoundsAssumption
<1>5. DockerOK' /\ StateOK'
  BY <1>1, <1>3, <1>4, Zenon DEF IInv, DockerOK, StateOK
<1>6. PointsOK'
  BY <1>1, <1>3, Zenon DEF IInv, PointsOK, PointOrNone, GateOrNone
<1>7. /\ BatchOK(log, first, processed, lastStart, <<>>)
      /\ LogsOK(log, first, processed, lastStart, <<>>, <<>>)
  BY DEF BatchOK, LogsOK
<1>8. StreamOK(log, first, processed, lastStart, batch, logs, src)'
  BY <1>3 DEF StreamOK
<1>9. PipeOK'
  BY <1>1, <1>7, <1>8, Zenon DEF IInv, PipeOK, AckedOK
<1> QED
  BY <1>5, <1>6, <1>9, Zenon DEF IInv

\* A stuttering step changes nothing.
LEMMA StutteringKeeps == IInv /\ UNCHANGED vars => IInv'
<1> SUFFICES ASSUME IInv, UNCHANGED vars PROVE IInv'
  OBVIOUS
<1>1. /\ UNCHANGED <<now, log, cur, first, src, logs, gate, initialStart, batch, acked, mem, disk>>
      /\ UNCHANGED <<processed, lastStart>>
  BY Zenon DEF vars, dockerVars, consVars, storeVars, history
<1>2. DockerOK' /\ StateOK'
  BY <1>1, Zenon DEF IInv, DockerOK, StateOK
<1>3. PointsOK' /\ PipeOK'
  BY <1>1, Zenon DEF IInv, PointsOK, PipeOK
<1> QED
  BY <1>2, <1>3, Zenon DEF IInv

-----------------------------------------------------------------------------
\* IInv is inductive: every step of Docker, the source, the consumer and the store
\* keeps it.
LEMMA NextIInv == ~Ties /\ Pieces = {} /\ IInv /\ [Next]_vars => IInv'
<1> SUFFICES ASSUME ~Ties, Pieces = {}, IInv, [Next]_vars PROVE IInv'
  OBVIOUS
<1>1. CASE \E text \in Texts : WriteLine(text)
  BY <1>1, WriteLineKeeps, Zenon
<1>2. CASE Tick \/ Recreate \/ Rotate
  BY <1>2, TickKeeps, RecreateKeeps, RotateKeeps, Zenon
<1>3. CASE Source \/ Disconnect
  BY <1>3, DiscoverKeeps, AttachLoadKeeps, AttachGateKeeps, StreamFromCheckpointKeeps,
     StreamInitiallyKeeps, StreamWithoutStoreKeeps, EmitKeeps, DisconnectKeeps, Zenon DEF Source
<1>4. CASE Consumer
  BY <1>4, ReceiveKeeps, ProcessKeeps, SaveCheckpointKeeps, Zenon DEF Consumer
<1>5. CASE Flush \/ Crash
  BY <1>5, FlushKeeps, CrashKeeps, Zenon
<1>6. CASE UNCHANGED vars
  BY <1>6, StutteringKeeps, Zenon
<1> QED
  BY <1>1, <1>2, <1>3, <1>4, <1>5, <1>6 DEF Next

\* IInv holds in every reachable state when no two lines of a container tie and none
\* is cut.
LEMMA Invariance ==
  ASSUME ~Ties, Pieces = {} PROVE Spec => []IInv
<1>1. IInv /\ [Next]_vars => IInv'
  BY NextIInv
<1> QED
  BY <1>1, InitIInv, PTL DEF Spec

\* An owed line that is safe has been processed.
LEMMA SafeIsConsumed ==
  ASSUME NEW c \in Containers, NEW l \in OwedLines(c),
         Safe(log, first, processed, lastStart, c, l.pos)
  PROVE  Consumed(l)
<1>1. PICK i \in 1 .. Len(log[c]) : l = Line(c, i)
  BY Zenon DEF OwedLines, Lines
<1>2. l.pos = i /\ l.ts = log[c][i].ts /\ l = LineAt(log, c, i)
  BY <1>1 DEF Line, LineAt
<1>3. i >= first[c] /\ lastStart # None /\ log[c][i].ts >= lastStart
  BY <1>2, Zenon DEF OwedLines, Covered
<1>4. l \in processed
  BY <1>2, <1>3, Zenon DEF Safe
<1> QED
  BY <1>4, Zenon DEF Consumed, Handled

\* Whatever processRaw, a reconnection's replay, a rotation or a crash did, every
\* line up to the stored position that is still owed was consumed (NoGap), for logs
\* in which no two lines of a container share a timestamp, when no stream sends a
\* piece of a line.
THEOREM ReplayNoGap ==
  ASSUME ~Ties, Pieces = {} PROVE Spec => []NoGap
<1>1. IInv => NoGap
  <2> SUFFICES ASSUME IInv, NEW cp \in {mem[Name], disk[Name]} \ {None},
                      NEW l \in OwedLines(cp.id), l.pos <= cp.pos
               PROVE  Consumed(l)
    BY Zenon DEF NoGap
  <2>1. Point(log, first, processed, lastStart, cp)
    <3>1. cp # None /\ (cp = mem[Name] \/ cp = disk[Name])
      OBVIOUS
    <3> QED
      BY <3>1 DEF IInv, PointsOK, PointOrNone
  <2>2. cp.id \in Containers /\ cp.pos \in 1 .. Len(log[cp.id])
    BY <2>1, Zenon DEF Point, Real, LineRec
  <2>3. PICK i \in 1 .. Len(log[cp.id]) : l = Line(cp.id, i)
    BY Zenon DEF OwedLines, Lines
  <2>4. l.pos = i
    BY <2>3 DEF Line
  <2>5. log[cp.id] \in Seq(Entry)
    BY <2>2, Zenon DEF IInv, DockerOK
  <2>6. l.pos \in 1 .. cp.pos
    BY <2>2, <2>4, <2>5
  <2>7. Safe(log, first, processed, lastStart, cp.id, l.pos)
    BY <2>1, <2>6, Zenon DEF Point, SafeTo
  <2> QED
    BY <2>2, <2>7, SafeIsConsumed, Zenon
<1> QED
  BY <1>1, Invariance, PTL

\* No line of the current container slips between the gate, the channel and the
\* streams (NothingLost), for logs in which no two lines of a container share a
\* timestamp, when no stream sends a piece of a line.
THEOREM ReplayNothingLost ==
  ASSUME ~Ties, Pieces = {} PROVE Spec => []NothingLost
<1>1. IInv => NothingLost
  <2> SUFFICES ASSUME IInv, NEW l \in OwedLines(cur), ~ToBeSent(l)
               PROVE  Consumed(l) \/ l \in InFlight
    BY Zenon DEF NothingLost
  <2>1. cur \in Containers /\ log \in [Containers -> Seq(Entry)] /\ src \in SrcRec /\ src.pos \in Nat
    BY Zenon DEF IInv, DockerOK, StateOK, SrcRec
  <2>2. PICK i \in 1 .. Len(log[cur]) : l = Line(cur, i)
    BY Zenon DEF OwedLines, Lines
  <2>3. l.pos = i /\ l.id = cur /\ l = LineAt(log, cur, i)
    BY <2>2 DEF Line, LineAt
  <2>4. src.id = cur /\ src.pc = "stream" /\ ~(src.pos <= i)
    BY <2>3, Zenon DEF ToBeSent
  <2>5. i \in 1 .. src.pos - 1
    BY <2>1, <2>4
  <2>6. Ahead(log, first, processed, lastStart, batch, logs, Len(logs), cur, i)
    BY <2>4, <2>5, Zenon DEF IInv, PipeOK, StreamOK, SentOK
  <2>7. CASE Safe(log, first, processed, lastStart, cur, i)
    BY <2>1, <2>3, <2>7, SafeIsConsumed, Zenon
  <2>8. CASE \E m \in 1 .. Len(logs) : logs[m] = LineAt(log, cur, i)
    BY <2>3, <2>8, Zenon DEF InFlight, Elements
  <2>9. CASE \E m \in 1 .. Len(batch) : batch[m] = LineAt(log, cur, i)
    BY <2>3, <2>9, Zenon DEF InFlight, Elements
  <2> QED
    BY <2>6, <2>7, <2>8, <2>9, Zenon DEF Ahead
<1> QED
  BY <1>1, Invariance, PTL

-----------------------------------------------------------------------------
(* Lines in flight.  IInv says nothing of a line that Docker rotated away  *)
(* and that is still in the channel.  JInv states the invariant again for  *)
(* logs that are never rotated (F is 1 everywhere); what was rotated away  *)
(* counts as processed, unless it is in flight.                            *)
Whole == [c \in Containers |-> 1]

Past == { l \in LineRec : l \in processed \/ (l.pos < first[l.id] /\ l \notin InFlight) }

Held(L, P, S, m, d, s, g, b, q) ==
  /\ PointOrNone(L, Whole, P, S, m)
  /\ PointOrNone(L, Whole, P, S, d)
  /\ PointOrNone(L, Whole, P, S, s)
  /\ GateOrNone(L, Whole, P, S, g)
  /\ BatchOK(L, Whole, P, S, b)
  /\ LogsOK(L, Whole, P, S, b, q)

JInv ==
  /\ crashes \in Nat
  /\ Held(log, Past, lastStart, mem[Name], disk[Name], src.cp, gate, batch, logs)

\* The lemmas above apply to logs that are never rotated.
LEMMA WholeWorld == IInv => World(log, Whole, lastStart)
<1>1. Whole \in [Containers -> Nat \ {0}]
  BY DEF Whole
<1> QED
  BY <1>1, TheWorld, Zenon DEF World

\* A buffered line that is owed has been processed.
LEMMA BufferedProcessed ==
  ASSUME IInv, JInv, gate # None, NEW l \in Elements(gate.buffered),
         lastStart = None \/ l.ts >= lastStart
  PROVE  l \in processed
<1>1. GateOK(log, Whole, Past, lastStart, gate)
  BY Zenon DEF JInv, Held, GateOrNone
<1> DEFINE cp == gate.checkpoint
<1>2. Real(log, l) /\ l.id = cp.id /\ l.pos <= cp.pos /\ Point(log, Whole, Past, lastStart, cp)
  BY <1>1, Zenon DEF GateOK, Elements
<1>3. /\ l.id \in Containers /\ l.pos \in 1 .. Len(log[l.id]) /\ l = LineAt(log, l.id, l.pos)
      /\ cp.pos \in 1 .. Len(log[l.id])
  BY <1>2, Zenon DEF Real, LineRec, Point
<1>4. Len(log[l.id]) \in Nat
  BY <1>3 DEF IInv, DockerOK
<1>5. l.pos \in 1 .. cp.pos /\ l.pos >= Whole[l.id]
  BY <1>2, <1>3, <1>4 DEF Whole
<1>6. Safe(log, Whole, Past, lastStart, l.id, l.pos)
  BY <1>2, <1>5, Zenon DEF Point, SafeTo
<1>7. l.ts = log[l.id][l.pos].ts
  <2>1. \A c, i : LineAt(log, c, i).ts = log[c][i].ts
    BY DEF LineAt
  <2> QED
    BY <1>3, <2>1, Zenon
<1>8. l \in Past
  BY <1>3, <1>5, <1>6, <1>7, Zenon DEF Safe
<1>9. l \in InFlight
  BY Zenon DEF InFlight
<1> QED
  BY <1>8, <1>9, Zenon DEF Past

\* A line that was safe because it is rotated away is still ahead of the stream.
LEMMA AheadOfStream ==
  ASSUME IInv, JInv, NEW c \in Containers, NEW i \in 1 .. Len(log[c]),
         Ahead(log, first, processed, lastStart, batch, logs, Len(logs), c, i)
  PROVE  Ahead(log, Whole, Past, lastStart, batch, logs, Len(logs), c, i)
<1> DEFINE l == LineAt(log, c, i)
<1>1. /\ log \in [Containers -> Seq(Entry)] /\ first[c] \in Nat /\ Len(log[c]) \in Nat
  BY DEF IInv, DockerOK
<1>2. l \in LineRec /\ l.pos = i /\ l.id = c /\ l.ts = log[c][i].ts
  <2>1. log[c][i] \in Entry /\ i \in Nat
    BY <1>1
  <2>2. log[c][i].ts \in Nat /\ log[c][i].text \in Texts
    BY <2>1, Zenon DEF Entry
  <2> QED
    BY <2>1, <2>2 DEF LineAt, LineRec
<1> SUFFICES ASSUME Safe(log, first, processed, lastStart, c, i),
                    lastStart = None \/ log[c][i].ts >= lastStart,
                    ~ \E m \in 1 .. Len(logs) : logs[m] = l,
                    ~ \E m \in 1 .. Len(batch) : batch[m] = l
             PROVE  l \in Past
  BY Zenon DEF Ahead, Safe
<1> HIDE DEF l
<1>3. CASE i >= first[c]
  <2>1. l \in processed
    BY <1>3, Zenon DEF Safe, l
  <2> QED
    BY <1>2, <2>1, Zenon DEF Past
<1>4. CASE ~(i >= first[c])
  <2>1. l.pos < first[l.id]
    BY <1>1, <1>2, <1>4
  <2>2. l \notin Elements(logs) \cup Elements(batch)
    BY Zenon DEF Elements
  <2>3. CASE gate # None /\ l \in Elements(gate.buffered)
    <3>1. l \in processed
      BY <1>2, <2>3, BufferedProcessed, Zenon
    <3> QED
      BY <1>2, <3>1, Zenon DEF Past
  <2>4. CASE ~(gate # None /\ l \in Elements(gate.buffered))
    <3>1. l \notin InFlight
      BY <2>2, <2>4, Zenon DEF InFlight
    <3> QED
      BY <1>2, <2>1, <3>1, Zenon DEF Past
  <2> QED
    BY <2>3, <2>4
<1> QED
  BY <1>3, <1>4

\* What a step may do to the world, seen without rotation.
Grows ==
  /\ processed \subseteq processed'
  /\ \A c \in Containers : first[c] <= first'[c]
  /\ \A c \in Containers :
       Len(log[c]) <= Len(log'[c]) /\ \A i \in 1 .. Len(log[c]) : log'[c][i] = log[c][i]
  /\ lastStart = None \/ (lastStart' # None /\ lastStart' >= lastStart)
  /\ \A l \in InFlight' : l \in InFlight \/ ~(l.pos < first[l.id])

\* A line once past stays past, so the lemmas on a growing world apply.
LEMMA PastGrows ==
  ASSUME IInv, IInv', Grows
  PROVE  Grew(log, Whole, Past, lastStart, log', Whole, Past', lastStart')
<1>1. World(log, Whole, lastStart) /\ World(log', Whole, lastStart')
  <2>1. World(log', first', lastStart')
    BY Zenon DEF IInv, DockerOK, StateOK, World
  <2> QED
    BY <2>1, WholeWorld, Zenon DEF World
<1>2. first \in [Containers -> Nat \ {0}] /\ first' \in [Containers -> Nat \ {0}]
  BY Zenon DEF IInv, DockerOK
<1>3. \A c \in Containers : Whole[c] <= Whole[c]
  BY DEF Whole
<1>4. ASSUME NEW l \in Past PROVE l \in Past'
  <2>1. l \in LineRec /\ l.id \in Containers /\ l.pos \in Nat
    BY Zenon DEF Past, LineRec
  <2>2. CASE l \in processed
    BY <2>1, <2>2, Zenon DEF Past, Grows
  <2>3. CASE l.pos < first[l.id] /\ l \notin InFlight
    <3>1. l \notin InFlight'
      BY <2>3, Zenon DEF Grows
    <3>2. first[l.id] <= first'[l.id]
      BY <2>1, Zenon DEF Grows
    <3>3. l.pos < first'[l.id]
      BY <1>2, <2>1, <2>3, <3>2
    <3> QED
      BY <2>1, <3>1, <3>3, Zenon DEF Past
  <2> QED
    BY <2>2, <2>3, Zenon DEF Past
<1> QED
  BY <1>1, <1>3, <1>4, Zenon DEF Grew, Grows

\* A step is seen in two halves: what it does in the old world, and the world growing.
LEMMA HeldOn ==
  ASSUME IInv, IInv', Grows, crashes' \in Nat,
         Held(log, Past, lastStart, mem'[Name], disk'[Name], src'.cp, gate', batch', logs')
  PROVE  JInv'
<1>1. Grew(log, Whole, Past, lastStart, log', Whole, Past', lastStart')
  BY PastGrows, Zenon
<1>2. Held(log', Past', lastStart', mem'[Name], disk'[Name], src'.cp, gate', batch', logs')
  BY <1>1, GrewKeeps, Zenon DEF Held
<1> QED
  BY <1>2, Zenon DEF JInv

SameFlight == UNCHANGED <<logs, gate, batch, crashes>>

\* The parts of Grows that most steps leave alone.
LEMMA SameWorld ==
  ASSUME IInv, UNCHANGED <<log, first, processed, lastStart>>,
         \A l \in InFlight' : l \in InFlight \/ ~(l.pos < first[l.id])
  PROVE  Grows
<1>1. \A c \in Containers : first[c] <= first[c] /\ Len(log[c]) <= Len(log[c])
  BY DEF IInv, DockerOK
<1>2. lastStart = None \/ lastStart >= lastStart
  BY DEF IInv, StateOK
<1> QED
  BY <1>1, <1>2, Zenon DEF Grows

\* The lines in flight are those of the channel, the batch and the gate.
LEMMA SameLines == ASSUME SameFlight PROVE InFlight' = InFlight
BY Zenon DEF SameFlight, InFlight, Elements


\* What is kept of the lines in flight.
Kept == \A l \in InFlight : Covered(l) => l \in InFlight' \/ l \in processed'

\* A step that leaves the lines in flight where they are.
LEMMA QuietStep ==
  ASSUME IInv, IInv', JInv, SameFlight, Grows,
         mem'[Name] = mem[Name], disk'[Name] \in {disk[Name], mem[Name]},
         src'.cp \in {src.cp, mem[Name]}
  PROVE  JInv' /\ Kept
<1>1. crashes' \in Nat
  BY Zenon DEF JInv, SameFlight
<1>2. Held(log, Past, lastStart, mem'[Name], disk'[Name], src'.cp, gate', batch', logs')
  BY Zenon DEF JInv, Held, SameFlight
<1>3. Kept
  BY SameLines, Zenon DEF Kept
<1> QED
  BY <1>1, <1>2, <1>3, HeldOn, Zenon

\* WriteLine, Rotate and Process change the world only.
LEMMA WorldSteps ==
  ASSUME IInv, IInv', JInv, (\E text \in Texts : WriteLine(text)) \/ Rotate \/ Process
  PROVE  JInv' /\ Kept
<1>1. /\ SameFlight /\ mem' = mem /\ disk' = disk /\ src' = src /\ lastStart' = lastStart
  BY Zenon DEF WriteLine, Rotate, Process, consVars, storeVars, history, dockerVars, SameFlight
<1>2. /\ log \in [Containers -> Seq(Entry)] /\ cur \in Containers
      /\ first \in [Containers -> Nat \ {0}] /\ now \in Nat
      /\ \A c \in Containers : first[c] <= first[c] /\ Len(log[c]) <= Len(log[c])
  <2>1. /\ log \in [Containers -> Seq(Entry)] /\ cur \in Containers
        /\ first \in [Containers -> Nat \ {0}] /\ now \in 1 .. MaxTime
    BY Zenon DEF IInv, DockerOK
  <2> QED
    BY <2>1
<1>3. lastStart = None \/ (lastStart' # None /\ lastStart' >= lastStart)
  BY <1>1 DEF IInv, StateOK
<1>4. \A l \in InFlight' : l \in InFlight
  BY <1>1, SameLines, Zenon
<1>5. CASE \E text \in Texts : WriteLine(text)
  <2>1. PICK text \in Texts : WriteLine(text)
    BY <1>5
  <2>2. /\ log' = [log EXCEPT ![cur] = Append(log[cur], [ts |-> now, text |-> text])]
        /\ UNCHANGED <<first, processed>>
    BY <2>1, Zenon DEF WriteLine, history
  <2>3. [ts |-> now, text |-> text] \in Entry /\ log[cur] \in Seq(Entry)
    BY <1>2, Zenon DEF Entry
  <2> DEFINE e == [ts |-> now, text |-> text]
  <2> HIDE DEF e
  <2>4. /\ Len(log[cur]) <= Len(Append(log[cur], e))
        /\ \A i \in 1 .. Len(log[cur]) : Append(log[cur], e)[i] = log[cur][i]
    BY <2>3 DEF e
  <2>5. \A c \in Containers :
          log'[c] = IF c = cur THEN Append(log[cur], e) ELSE log[c]
    BY <1>2, <2>2, Zenon DEF e
  <2>6. \A c \in Containers :
          Len(log[c]) <= Len(log'[c]) /\ \A i \in 1 .. Len(log[c]) : log'[c][i] = log[c][i]
    <3> TAKE c \in Containers
    <3>1. CASE c = cur
      BY <2>4, <2>5, <3>1, Zenon
    <3>2. CASE c # cur
      BY <1>2, <2>5, <3>2, Zenon
    <3> QED
      BY <3>1, <3>2
  <2>7. Grows
    BY <1>2, <1>3, <1>4, <2>2, <2>6, Zenon DEF Grows
  <2> QED
    BY <1>1, <2>7, QuietStep, Zenon
<1>6. CASE Rotate
  <2>1. first' = [first EXCEPT ![cur] = first[cur] + 1] /\ UNCHANGED <<log, processed>>
    BY <1>6, Zenon DEF Rotate, history
  <2>2. \A c \in Containers : first[c] <= first'[c]
    BY <1>2, <2>1
  <2>3. Grows
    BY <1>2, <1>3, <1>4, <2>1, <2>2, Zenon DEF Grows
  <2> QED
    BY <1>1, <2>3, QuietStep, Zenon
<1>7. CASE Process
  <2>1. processed \subseteq processed' /\ UNCHANGED <<log, first>>
    BY <1>7, Zenon DEF Process, dockerVars
  <2>2. Grows
    BY <1>2, <1>3, <1>4, <2>1, Zenon DEF Grows
  <2> QED
    BY <1>1, <2>2, QuietStep, Zenon
<1> QED
  BY <1>5, <1>6, <1>7

\* The clock, a replaced container, a discovery, a load, the end of a stream and a
\* flush change neither the world nor the lines in flight.
LEMMA StillSteps ==
  ASSUME Pieces = {}, IInv, IInv', JInv,
         Tick \/ Recreate \/ Discover \/ AttachLoad \/ Disconnect \/ Flush
  PROVE  JInv' /\ Kept
<1>0. Disconnect => logs' = logs
  BY NothingCut, Zenon
<1>1. src \in SrcRec
  BY Zenon DEF IInv, StateOK
<1>2. SameFlight /\ UNCHANGED <<log, first, processed, lastStart>>
  BY <1>0, Zenon DEF Tick, Recreate, Discover, AttachLoad, Disconnect, Flush, Store!Sync, dockerVars,
     consVars, storeVars, history, SameFlight
<1>3. mem' = mem /\ disk' \in {disk, mem}
  BY Zenon DEF Tick, Recreate, Discover, AttachLoad, Disconnect, Flush, Store!Sync, storeVars
<1>4. src'.cp \in {src.cp, mem[Name]}
  BY <1>1, Zenon DEF Tick, Recreate, Discover, AttachLoad, Disconnect, Flush, SrcRec
<1>5. Grows
  BY <1>2, SameWorld, SameLines, Zenon
<1> QED
  BY <1>2, <1>3, <1>4, <1>5, QuietStep, Zenon

\* A stream opens: only the start of the initial window may move, and forward.
LEMMA StreamSteps ==
  ASSUME IInv, IInv', JInv, StreamFromCheckpoint \/ StreamInitially \/ StreamWithoutStore
  PROVE  JInv' /\ Kept
<1>1. src \in SrcRec
  BY Zenon DEF IInv, StateOK
<1>2. /\ SameFlight /\ UNCHANGED <<log, first, processed, mem, disk, now>>
      /\ \E start : OpenAt(start)
  BY Zenon DEF StreamFromCheckpoint, StreamInitially, StreamWithoutStore, dockerVars,
     consVars, storeVars, history, SameFlight
<1>3. src'.cp = src.cp
  BY <1>1, <1>2, Zenon DEF OpenAt, SrcRec
<1>4. lastStart = None \/ (lastStart' # None /\ lastStart' >= lastStart)
  <2>1. /\ now \in Nat /\ initialStart \in Int \cup {None} /\ lastStart \in Int \cup {None}
        /\ initialStart # None => lastStart = initialStart
        /\ lastStart # None => lastStart <= now - Window
    BY DEF IInv, DockerOK, StateOK
  <2>2. CASE lastStart' = lastStart
    BY <2>1, <2>2
  <2>3. CASE lastStart' = IF initialStart # None THEN initialStart ELSE now - Window
    BY <2>1, <2>3, BoundsAssumption
  <2> QED
    BY <2>2, <2>3, ZenonT(40) DEF StreamFromCheckpoint, StreamInitially, StreamWithoutStore, history
<1>5. \A c \in Containers : first[c] <= first[c] /\ Len(log[c]) <= Len(log[c])
  BY DEF IInv, DockerOK
<1>6. Grows
  BY <1>2, <1>4, <1>5, SameLines, Zenon DEF Grows
<1> QED
  BY <1>2, <1>3, <1>6, QuietStep, Zenon


\* A line of the batch, of the channel or of the gate that is owed and that its
\* step let go has been processed.
LEMMA PastProcessed ==
  ASSUME NEW l \in InFlight, Real(log, l), Safe(log, Whole, Past, lastStart, l.id, l.pos), Covered(l)
  PROVE  l \in processed
<1>1. l = LineAt(log, l.id, l.pos) /\ l.id \in Containers /\ l.pos \in Nat \ {0}
  <2>1. l = LineAt(log, l.id, l.pos) /\ l.id \in Containers /\ l.pos \in 1 .. Len(log[l.id])
    BY Zenon DEF Real, LineRec
  <2> QED
    BY <2>1
<1>2. l.ts = log[l.id][l.pos].ts
  <2>1. \A c, i : LineAt(log, c, i).ts = log[c][i].ts
    BY DEF LineAt
  <2> QED
    BY <1>1, <2>1, Zenon
<1>3. l.pos >= Whole[l.id]
  BY <1>1 DEF Whole
<1>4. l \in Past
  BY <1>1, <1>2, <1>3, Zenon DEF Safe, Covered
<1> QED
  BY <1>4, Zenon DEF Past

\* AttachGate: the old gate held back only lines that were processed.
LEMMA AttachGateStep ==
  ASSUME IInv, IInv', JInv, AttachGate
  PROVE  JInv' /\ Kept
<1>1. /\ UNCHANGED <<log, first, processed, lastStart, logs, batch, mem, disk, crashes>>
      /\ gate' = IF src.cp # None THEN NewReplayGate(src.cp) ELSE None
      /\ src' = [src EXCEPT !.pc = "start", !.cp = None]
  BY Zenon DEF AttachGate, dockerVars, consVars, storeVars, history
<1>2. src \in SrcRec /\ (src.cp # None => src.cp \in LineRec)
  BY Zenon DEF IInv, StateOK, SrcRec
<1>3. src'.cp = None
  BY <1>1, <1>2, Zenon DEF SrcRec
<1>4. gate' # None => /\ src.cp # None /\ gate'.checkpoint = src.cp /\ gate'.buffered = <<>>
                      /\ gate' \in [checkpoint : LineRec, looking : BOOLEAN, buffered : Seq(LineRec)]
  BY <1>1, <1>2 DEF NewReplayGate
<1>5. \A k \in 1 .. Len(<<>>) : FALSE
  OBVIOUS
<1>6. GateOrNone(log, Whole, Past, lastStart, gate')
  BY <1>4, <1>5, Zenon DEF GateOrNone, GateOK, JInv, Held, PointOrNone
<1>7. InFlight' = Elements(logs) \cup Elements(batch)
  BY <1>1, <1>4, <1>5, Zenon DEF InFlight, Elements
<1>8. Grows
  BY <1>1, <1>7, SameWorld, Zenon DEF InFlight
<1>9. JInv'
  <2>1. Held(log, Past, lastStart, mem'[Name], disk'[Name], src'.cp, gate', batch', logs')
    BY <1>1, <1>3, <1>6, Zenon DEF JInv, Held, PointOrNone
  <2>2. crashes' \in Nat
    BY <1>1, Zenon DEF JInv
  <2> QED
    BY <1>8, <2>1, <2>2, HeldOn, Zenon
<1>10. Kept
  <2> SUFFICES ASSUME NEW l \in InFlight, Covered(l), l \notin InFlight' PROVE l \in processed'
    BY Zenon DEF Kept
  <2>1. gate # None /\ l \in Elements(gate.buffered)
    BY <1>7, Zenon DEF InFlight
  <2>2. l \in processed
    BY <2>1, BufferedProcessed, Zenon DEF Covered
  <2> QED
    BY <1>1, <2>2, Zenon
<1> QED
  BY <1>9, <1>10

\* Emit: the line sent is one Docker still holds.
LEMMA EmitStep ==
  ASSUME IInv, IInv', JInv, Emit
  PROVE  JInv' /\ Kept
<1> DEFINE c == src.id
           m == NextLine
           l == LineAt(log, c, m)
<1>1. /\ UNCHANGED <<log, first, processed, lastStart, gate, batch, mem, disk, crashes>>
      /\ src.pc = "stream" /\ m <= Len(log[c]) /\ logs' = Append(logs, l)
      /\ src' = [src EXCEPT !.pos = NextLine + 1]
  BY Zenon DEF Emit, dockerVars, consVars, storeVars, history, Line, LineAt
<1>2. /\ src \in SrcRec /\ c \in Containers /\ src.pos \in Nat
      /\ SentOK(log, first, processed, lastStart, batch, logs, c, src.pos)
  BY <1>1, Zenon DEF IInv, StateOK, SrcRec, PipeOK, StreamOK
<1>3. src'.cp = src.cp
  BY <1>1, <1>2, Zenon DEF SrcRec
<1>4. /\ World(log, Whole, lastStart) /\ Len(log[c]) \in Nat /\ first[c] \in Nat \ {0}
      /\ src.pos \in 1 .. Len(log[c]) + 1
  <2>1. log \in [Containers -> Seq(Entry)] /\ first \in [Containers -> Nat \ {0}]
    BY Zenon DEF IInv, DockerOK
  <2> QED
    BY <1>2, <2>1, WholeWorld DEF SentOK
<1>5. /\ m \in 1 .. Len(log[c]) /\ ~(m < first[c]) /\ m = Following(Whole, c, m)
      /\ m \in Nat /\ m \in 1 .. Len(log[c]) + 1
      /\ \A i \in 1 .. m - 1 : i \in 1 .. Len(log[c]) /\ (i \in 1 .. src.pos - 1 \/ ~(i >= first[c]))
  BY <1>1, <1>2, <1>4, SMTT(40) DEF NextLine, Following, Whole
<1> HIDE DEF c, m
<1>6. SentOK(log, Whole, Past, lastStart, batch, logs, c, m)
  <2>1. ASSUME NEW i \in 1 .. m - 1
        PROVE  Ahead(log, Whole, Past, lastStart, batch, logs, Len(logs), c, i)
    <3>1. i \in 1 .. Len(log[c])
      BY <1>5, Zenon
    <3>2. Ahead(log, first, processed, lastStart, batch, logs, Len(logs), c, i)
      BY <1>2, <1>5, Zenon DEF SentOK, Ahead, Safe
    <3> QED
      BY <1>2, <3>1, <3>2, AheadOfStream, Zenon
  <2> QED
    BY <1>5, <2>1, Zenon DEF SentOK
<1>7. LogsOK(log, Whole, Past, lastStart, batch, logs) /\ m \in Nat
  BY <1>5, Zenon DEF JInv, Held
<1>8. LogsOK(log, Whole, Past, lastStart, batch, logs')
  BY <1>1, <1>2, <1>4, <1>5, <1>6, <1>7, LineEmitted, Zenon
<1>9. l.id = c /\ l.pos = m
  BY DEF LineAt
<1> HIDE DEF l
<1>10. Elements(logs') \subseteq Elements(logs) \cup {l} /\ Elements(logs) \subseteq Elements(logs')
  <2>1. logs \in Seq(LineRec) /\ logs' \in Seq(LineRec)
    BY <1>7, <1>8, Zenon DEF LogsOK
  <2>2. /\ Len(logs) \in Nat /\ Len(logs') = Len(logs) + 1 /\ logs'[Len(logs) + 1] = l
        /\ \A k \in 1 .. Len(logs) : logs'[k] = logs[k]
    BY <1>1, <2>1
  <2>3. /\ \A k \in 1 .. Len(logs') : k \in 1 .. Len(logs) \/ k = Len(logs) + 1
        /\ \A k \in 1 .. Len(logs) : k \in 1 .. Len(logs')
    BY <2>2
  <2> QED
    BY <2>2, <2>3, Zenon DEF Elements
<1>11. Kept /\ \A e \in InFlight' : e \in InFlight \/ e = l
  BY <1>1, <1>10, Zenon DEF InFlight, Kept
<1>12. Grows
  BY <1>1, <1>5, <1>9, <1>11, SameWorld, Zenon
<1>13. JInv'
  <2>1. Held(log, Past, lastStart, mem'[Name], disk'[Name], src'.cp, gate', batch', logs')
    BY <1>1, <1>3, <1>8, Zenon DEF JInv, Held
  <2>2. crashes' \in Nat
    BY <1>1, Zenon DEF JInv
  <2> QED
    BY <1>12, <2>1, <2>2, HeldOn, Zenon
<1> QED
  BY <1>11, <1>13


\* What the tail of a sequence leaves out is its head.
LEMMA TailElements ==
  ASSUME NEW s \in Seq(LineRec), s # <<>>
  PROVE  /\ Elements(Tail(s)) \subseteq Elements(s) /\ s[1] \in Elements(s)
         /\ Elements(s) \subseteq Elements(Tail(s)) \cup {s[1]}
<1> DEFINE r == Tail(s)
<1>1. /\ Len(s) \in Nat \ {0} /\ Len(r) = Len(s) - 1
      /\ \A k \in 1 .. Len(s) - 1 : r[k] = s[k + 1]
  OBVIOUS
<1> HIDE DEF r
<1>2. 1 \in 1 .. Len(s)
  BY <1>1
<1>3. ASSUME NEW x \in Elements(r) PROVE x \in Elements(s)
  <2>1. PICK k \in 1 .. Len(r) : x = r[k]
    BY Zenon DEF Elements
  <2>2. k + 1 \in 1 .. Len(s) /\ x = s[k + 1]
    BY <1>1, <2>1
  <2> QED
    BY <2>2, Zenon DEF Elements
<1>4. ASSUME NEW x \in Elements(s), x # s[1] PROVE x \in Elements(r)
  <2>1. PICK k \in 1 .. Len(s) : x = s[k]
    BY Zenon DEF Elements
  <2>2. k # 1
    BY <1>4, <2>1
  <2>3. k - 1 \in 1 .. Len(r) /\ (k - 1) + 1 = k
    BY <1>1, <2>2
  <2>4. x = r[k - 1]
    BY <1>1, <2>1, <2>3
  <2> QED
    BY <2>3, <2>4, Zenon DEF Elements
<1>5. s[1] \in Elements(s)
  BY <1>2, Zenon DEF Elements
<1> QED
  BY <1>3, <1>4, <1>5, Zenon DEF r

\* The lines of the gate and of what it lets through come from the gate and the line.
LEMMA GateLines ==
  ASSUME NEW g, g.buffered \in Seq(LineRec), g \in GateRec, NEW l \in LineRec
  PROVE  /\ Elements(AcceptLines(g, l)) \subseteq Elements(g.buffered) \cup {l}
         /\ Elements(AcceptGate(g, l).buffered) \subseteq Elements(g.buffered) \cup {l}
<1> DEFINE r == Append(g.buffered, l)
<1>1. Elements(r) \subseteq Elements(g.buffered) \cup {l}
  <2>1. /\ Len(g.buffered) \in Nat /\ Len(r) = Len(g.buffered) + 1 /\ r[Len(g.buffered) + 1] = l
        /\ \A k \in 1 .. Len(g.buffered) : r[k] = g.buffered[k]
    OBVIOUS
  <2>2. \A k \in 1 .. Len(r) : k \in 1 .. Len(g.buffered) \/ k = Len(g.buffered) + 1
    BY <2>1
  <2> HIDE DEF r
  <2> QED
    BY <2>1, <2>2, Zenon DEF Elements
<1>2. Elements(<<>>) = {} /\ Elements(<<l>>) = {l}
  BY DEF Elements
<1> HIDE DEF r
<1>3. AcceptLines(g, l) \in {<<l>>, r, <<>>}
  BY Zenon DEF AcceptLines, r
<1>4. AcceptGate(g, l).buffered \in {g.buffered, <<>>, r}
  BY Zenon DEF AcceptGate, Opened, GateRec, r
<1> QED
  BY <1>1, <1>2, <1>3, <1>4, Zenon

\* Receive: the line taken from the channel goes on, waits in the gate or was
\* processed before; the gate lets go of processed lines only.
LEMMA ReceiveStep ==
  ASSUME IInv, IInv', JInv, Receive
  PROVE  JInv' /\ Kept
<1> DEFINE h == logs[1]
<1>1. /\ UNCHANGED <<log, first, processed, lastStart, src, mem, disk, crashes>>
      /\ batch = <<>> /\ logs # <<>> /\ logs' = Tail(logs)
      /\ IF gate = None
         THEN batch' = <<Head(logs)>> /\ gate' = gate
         ELSE batch' = AcceptLines(gate, Head(logs)) /\ gate' = AcceptGate(gate, Head(logs))
  BY Zenon DEF Receive, dockerVars, storeVars, history
<1>2. World(log, Whole, lastStart) /\ Rising(log)
  BY WholeWorld, TheWorld, Zenon
<1>3. /\ LogsOK(log, Whole, Past, lastStart, <<>>, logs) /\ logs \in Seq(LineRec)
      /\ GateOrNone(log, Whole, Past, lastStart, gate)
  BY <1>1, Zenon DEF JInv, Held, LogsOK
<1>4. /\ Head(logs) = h /\ Real(log, h)
      /\ SafeTo(log, Whole, Past, lastStart, h.id, h.pos - 1)
      /\ BatchOK(log, Whole, Past, lastStart, <<h>>)
      /\ Passed(log, Whole, Past, lastStart, <<>>, h, <<h>>)
  BY <1>1, <1>3, FirstInLine, Zenon
<1>5. gate # None => /\ batch' = AcceptLines(gate, h) /\ gate' = AcceptGate(gate, h)
                     /\ GateOK(log, Whole, Past, lastStart, gate)
  BY <1>1, <1>3, <1>4, Zenon DEF GateOrNone
<1>6. /\ BatchOK(log, Whole, Past, lastStart, batch')
      /\ Passed(log, Whole, Past, lastStart, <<>>, h, batch')
      /\ GateOrNone(log, Whole, Past, lastStart, gate')
  <2>1. CASE gate = None
    BY <1>1, <1>3, <1>4, <2>1, Zenon
  <2>2. CASE gate # None
    <3>1. /\ BatchOK(log, Whole, Past, lastStart, AcceptLines(gate, h))
          /\ Passed(log, Whole, Past, lastStart, <<>>, h, AcceptLines(gate, h))
          /\ GateOK(log, Whole, Past, lastStart, AcceptGate(gate, h))
      BY <1>2, <1>4, <1>5, <2>2, Accepted, Zenon
    <3> QED
      BY <1>5, <2>2, <3>1, Zenon DEF GateOrNone
  <2> QED
    BY <2>1, <2>2
<1>7. LogsOK(log, Whole, Past, lastStart, batch', logs')
  BY <1>1, <1>2, <1>3, <1>6, HeadLeaves, Zenon
<1>8. /\ Elements(Tail(logs)) \subseteq Elements(logs) /\ h \in Elements(logs)
      /\ Elements(logs) \subseteq Elements(Tail(logs)) \cup {h}
  BY <1>1, <1>3, TailElements, Zenon
<1> HIDE DEF h
<1>9. h \in LineRec
  BY <1>4, Zenon DEF Real
<1>10. Elements(batch') \subseteq InFlight /\ (gate' # None => Elements(gate'.buffered) \subseteq InFlight)
  <2>1. h \in InFlight
    BY <1>8, Zenon DEF InFlight
  <2>2. CASE gate = None
    <3>1. gate' = None /\ batch' = <<h>> /\ Elements(<<h>>) = {h}
      BY <1>1, <1>4, <2>2 DEF Elements
    <3> QED
      BY <2>1, <3>1, Zenon
  <2>3. CASE gate # None
    <3>1. gate \in GateRec /\ gate.buffered \in Seq(LineRec)
      BY <1>5, <2>3, Zenon DEF GateOK, GateRec
    <3>2. /\ Elements(AcceptLines(gate, h)) \subseteq Elements(gate.buffered) \cup {h}
          /\ Elements(AcceptGate(gate, h).buffered) \subseteq Elements(gate.buffered) \cup {h}
      BY <1>9, <3>1, GateLines, Zenon
    <3>3. Elements(gate.buffered) \subseteq InFlight
      BY <2>3, Zenon DEF InFlight
    <3> QED
      BY <1>5, <2>1, <2>3, <3>2, <3>3, Zenon
  <2> QED
    BY <2>2, <2>3
<1>11. \A l \in InFlight' : l \in InFlight
  <2>1. Elements(logs') \subseteq InFlight
    BY <1>1, <1>8, Zenon DEF InFlight
  <2>2. InFlight' = Elements(logs') \cup Elements(batch')
                      \cup (IF gate' = None THEN {} ELSE Elements(gate'.buffered))
    BY Zenon DEF InFlight, Elements
  <2> QED
    BY <1>10, <2>1, <2>2, Zenon
<1>12. Grows
  BY <1>1, <1>11, SameWorld, Zenon
<1>13. JInv'
  <2>1. Held(log, Past, lastStart, mem'[Name], disk'[Name], src'.cp, gate', batch', logs')
    BY <1>1, <1>6, <1>7, Zenon DEF JInv, Held
  <2>2. crashes' \in Nat
    BY <1>1, Zenon DEF JInv
  <2> QED
    BY <1>12, <2>1, <2>2, HeldOn, Zenon
<1>14. Kept
  <2> SUFFICES ASSUME NEW l \in InFlight, Covered(l), l \notin InFlight' PROVE l \in processed'
    BY Zenon DEF Kept
  <2>1. l \notin Elements(logs') /\ l \notin Elements(batch')
    BY Zenon DEF InFlight, Elements
  <2>2. l \notin Elements(batch)
    <3>1. \A k \in 1 .. Len(<<>>) : FALSE
      OBVIOUS
    <3> QED
      BY <1>1, <3>1, Zenon DEF Elements
  <2>3. CASE gate # None /\ l \in Elements(gate.buffered)
    <3>1. l \in processed
      BY <2>3, BufferedProcessed, Zenon DEF Covered
    <3> QED
      BY <1>1, <3>1, Zenon
  <2>4. CASE l \in Elements(logs)
    <3>1. l = h
      BY <1>1, <1>8, <2>1, <2>4, Zenon
    <3>2. l.id \in Containers /\ l.pos \in 1 .. Len(log[l.id]) /\ l = LineAt(log, l.id, l.pos)
      BY <1>4, <3>1, Zenon DEF Real, LineRec
    <3>3. Safe(log, Whole, Past, lastStart, l.id, l.pos)
      <4>1. ~ \E m \in 1 .. Len(batch') : batch'[m] = l
        BY <2>1, Zenon DEF Elements
      <4>2. h = LineAt(log, l.id, l.pos) /\ LineAt(log, l.id, l.pos) = l
        BY <3>1, <3>2, Zenon
      <4>3. \/ Safe(log, Whole, Past, lastStart, l.id, l.pos)
            \/ \E m \in 1 .. Len(batch') : batch'[m] = LineAt(log, l.id, l.pos)
        BY <1>6, <3>2, <4>2, Zenon DEF Passed
      <4> QED
        BY <4>1, <4>2, <4>3
    <3>4. l \in processed
      BY <1>4, <3>1, <3>3, PastProcessed, Zenon
    <3> QED
      BY <1>1, <3>4, Zenon
  <2> QED
    BY <2>2, <2>3, <2>4, Zenon DEF InFlight
<1> QED
  BY <1>13, <1>14

\* SaveCheckpoint: the line that leaves the batch was processed.
LEMMA SaveCheckpointStep ==
  ASSUME IInv, IInv', JInv, SaveCheckpoint
  PROVE  JInv' /\ Kept
<1>1. /\ UNCHANGED <<log, first, processed, lastStart, src, logs, gate, crashes>>
      /\ acked /\ batch' = Tail(batch)
      /\ mem' = [mem EXCEPT ![Name] = Head(batch)] /\ disk' \in {disk, mem'}
  BY SaveTakes, Zenon DEF SaveCheckpoint, dockerVars, history
<1>2. World(log, Whole, lastStart)
  BY WholeWorld, Zenon
<1>3. /\ batch # <<>> /\ batch[1] \in processed /\ batch \in Seq(LineRec)
      /\ BatchOK(log, Whole, Past, lastStart, batch)
      /\ LogsOK(log, Whole, Past, lastStart, batch, logs)
  BY <1>1, Zenon DEF IInv, PipeOK, AckedOK, JInv, Held, BatchOK
<1>4. Head(batch) = batch[1] /\ batch[1] \in LineRec
  BY <1>3
<1>5. batch[1] \in Past
  BY <1>3, <1>4, Zenon DEF Past
<1>6. /\ Point(log, Whole, Past, lastStart, batch[1])
      /\ BatchOK(log, Whole, Past, lastStart, Tail(batch))
      /\ Passed(log, Whole, Past, lastStart, batch, batch[1], Tail(batch))
  BY <1>2, <1>3, <1>5, Saved, Zenon
<1>7. LogsOK(log, Whole, Past, lastStart, Tail(batch), logs)
  BY <1>2, <1>3, <1>6, BatchMoves, Zenon
<1>8. mem'[Name] = batch[1] /\ disk'[Name] \in {disk[Name], batch[1]}
  <2>1. mem \in [{Name} -> LineRec \cup {None}]
    BY Zenon DEF IInv, StateOK
  <2> QED
    BY <1>1, <1>4, <2>1, Zenon
<1>9. /\ Elements(Tail(batch)) \subseteq Elements(batch)
      /\ Elements(batch) \subseteq Elements(Tail(batch)) \cup {batch[1]}
  BY <1>3, TailElements, Zenon
<1>10. InFlight' = Elements(logs) \cup Elements(Tail(batch))
                     \cup (IF gate = None THEN {} ELSE Elements(gate.buffered))
  BY <1>1, Zenon DEF InFlight, Elements
<1>11. Kept /\ \A l \in InFlight' : l \in InFlight
  BY <1>1, <1>3, <1>9, <1>10, Zenon DEF InFlight, Kept
<1>12. Grows
  BY <1>1, <1>11, SameWorld, Zenon
<1>13. JInv'
  <2>1. Held(log, Past, lastStart, mem'[Name], disk'[Name], src'.cp, gate', batch', logs')
    BY <1>1, <1>6, <1>7, <1>8, Zenon DEF JInv, Held, PointOrNone
  <2>2. crashes' \in Nat
    BY <1>1, Zenon DEF JInv
  <2> QED
    BY <1>12, <2>1, <2>2, HeldOn, Zenon
<1> QED
  BY <1>11, <1>13

\* Crash: nothing is in flight, and the count of crashes moves.
LEMMA CrashStep ==
  ASSUME IInv, IInv', JInv, Crash
  PROVE  JInv' /\ crashes' # crashes
<1>1. /\ UNCHANGED <<log, first, processed, lastStart, disk>> /\ mem' = disk
      /\ src' = NewSource /\ logs' = <<>> /\ gate' = None /\ batch' = <<>>
      /\ crashes' = crashes + 1
  BY Zenon DEF Crash, Store!Reopen, dockerVars, history
<1>2. crashes' \in Nat /\ crashes' # crashes
  BY <1>1 DEF JInv
<1>3. /\ BatchOK(log, Whole, Past, lastStart, <<>>)
      /\ LogsOK(log, Whole, Past, lastStart, <<>>, <<>>)
      /\ src'.cp = None
  BY <1>1 DEF BatchOK, LogsOK, NewSource
<1>4. Held(log, Past, lastStart, mem'[Name], disk'[Name], src'.cp, gate', batch', logs')
  BY <1>1, <1>3, Zenon DEF JInv, Held, PointOrNone, GateOrNone
<1>5. \A l \in InFlight' : FALSE
  <2>1. \A k \in 1 .. Len(<<>>) : FALSE
    OBVIOUS
  <2> QED
    BY <1>1, <2>1, Zenon DEF InFlight, Elements
<1>6. Grows
  BY <1>1, <1>5, SameWorld, Zenon
<1> QED
  BY <1>2, <1>4, <1>6, HeldOn, Zenon

\* Every step keeps JInv and, unless it is a crash, the lines in flight.
LEMMA NextJInv ==
  ASSUME Pieces = {}, IInv, IInv', JInv, [Next]_vars
  PROVE  JInv' /\ (crashes' = crashes => Kept)
<1>1. CASE UNCHANGED vars
  <2>1. SameFlight /\ UNCHANGED <<log, first, processed, lastStart, mem, disk, src>>
    BY <1>1, Zenon DEF vars, dockerVars, consVars, storeVars, history, SameFlight
  <2>2. Grows
    BY <2>1, SameWorld, SameLines, Zenon
  <2> QED
    BY <2>1, <2>2, QuietStep, Zenon
<1>2. CASE (\E text \in Texts : WriteLine(text)) \/ Tick \/ Recreate \/ Rotate
  BY <1>2, WorldSteps, StillSteps, Zenon
<1>3. CASE Source \/ Disconnect
  BY <1>3, StillSteps, StreamSteps, AttachGateStep, EmitStep, Zenon DEF Source
<1>4. CASE Consumer
  BY <1>4, ReceiveStep, WorldSteps, SaveCheckpointStep, Zenon DEF Consumer
<1>5. CASE Flush \/ Crash
  BY <1>5, StillSteps, CrashStep, Zenon
<1> QED
  BY <1>1, <1>2, <1>3, <1>4, <1>5, Zenon DEF Next

\* A first start satisfies JInv: nothing is stored and nothing is in flight.
LEMMA InitJInv == Init => JInv
<1> SUFFICES ASSUME Init PROVE JInv
  OBVIOUS
<1>1. /\ mem[Name] = None /\ disk[Name] = None /\ src.cp = None /\ gate = None
      /\ batch = <<>> /\ logs = <<>> /\ crashes \in Nat
  BY DEF Init, NewSource
<1>2. /\ BatchOK(log, Whole, Past, lastStart, <<>>)
      /\ LogsOK(log, Whole, Past, lastStart, <<>>, <<>>)
  BY DEF BatchOK, LogsOK
<1> QED
  BY <1>1, <1>2, Zenon DEF JInv, Held, PointOrNone, GateOrNone

\* A line in flight survives the replacement of its container: unless the watcher
\* crashes it stays in the channel, the batch or the gate until it is processed
\* (AcceptedSurvivesRecreation), for logs in which no two lines of a container
\* share a timestamp, when no stream sends a piece of a line.
THEOREM ReplayAcceptedSurvives ==
  ASSUME ~Ties, Pieces = {} PROVE Spec => AcceptedSurvivesRecreation
<1> DEFINE Inv == IInv /\ JInv
           Survives == crashes' = crashes =>
                         \A l \in InFlight :
                           l \in Lines(l.id) /\ l.id # cur /\ Covered(l)
                             => l \in InFlight' \/ Consumed(l)'
<1>1. Init => Inv
  BY InitIInv, InitJInv, Zenon
<1>2. Inv /\ [Next]_vars => Inv'
  <2> SUFFICES ASSUME IInv, JInv, [Next]_vars PROVE IInv' /\ JInv'
    BY Zenon
  <2>1. IInv'
    BY NextIInv, Zenon
  <2> QED
    BY <2>1, NextJInv, Zenon
<1>3. Inv /\ Inv' /\ [Next]_vars => Survives
  <2> SUFFICES ASSUME IInv, IInv', JInv, [Next]_vars, crashes' = crashes,
                      NEW l \in InFlight, Covered(l)
               PROVE  l \in InFlight' \/ Consumed(l)'
    BY Zenon
  <2>1. l \in InFlight' \/ l \in processed'
    BY NextJInv, Zenon DEF Kept
  <2>2. l \in processed' => Consumed(l)'
    BY Zenon DEF Consumed, Handled
  <2> QED
    BY <2>1, <2>2, Zenon
<1>4. Inv /\ Inv' /\ [Next]_vars => [Survives]_vars
  BY <1>3
<1> HIDE DEF Inv, Survives
<1>5. Spec => [][Survives]_vars
  BY <1>1, <1>2, <1>4, PTL DEF Spec
<1> QED
  BY <1>5 DEF AcceptedSurvivesRecreation, Survives

-----------------------------------------------------------------------------
(* Types, whatever the timestamps and the pieces: every line the watcher   *)
(* has anywhere is a line of its container, or a piece of one.             *)
Shown(L, l) == \E r : Real(L, r) /\ l \in {r} \cup PiecesOf(r)

Known ==
  InFlight \cup processed \cup ({mem[Name], disk[Name], src.cp} \ {None})
    \cup (IF gate = None THEN {} ELSE {gate.checkpoint})

Shapes ==
  /\ src \in SrcRec
  /\ mem \in [{Name} -> LineRec \cup {None}] /\ disk \in [{Name} -> LineRec \cup {None}]
  /\ gate # None => gate \in GateRec
  /\ logs \in Seq(LineRec) /\ Len(logs) <= ChannelSize
  /\ batch \in Seq(LineRec)
  /\ acked \in BOOLEAN /\ (acked => batch # <<>>)
  /\ initialStart \in Int \cup {None} /\ lastStart \in Int \cup {None}

TInv == LogTyped /\ Shapes /\ \A l \in Known : Shown(log, l)

\* The lines the watcher has are those of its parts.
LEMMA KnownParts ==
  /\ Elements(logs) \cup Elements(batch) \cup processed \subseteq Known
  /\ gate # None => Elements(gate.buffered) \cup {gate.checkpoint} \subseteq Known
  /\ \A cp \in {mem[Name], disk[Name], src.cp} : cp # None => cp \in Known
BY Zenon DEF Known, InFlight

\* A first start satisfies the invariant.
LEMMA InitTInv == Init => TInv
<1> SUFFICES ASSUME Init PROVE TInv
  OBVIOUS
<1>1. IInv
  BY InitIInv, Zenon
<1>2. LogTyped
  BY <1>1, Zenon DEF IInv, DockerOK, LogTyped
<1>3. logs = <<>> /\ batch = <<>> /\ gate = None /\ acked = FALSE /\ processed = {}
  BY Zenon DEF Init
<1>4. Shapes
  BY <1>1, <1>3, Zenon DEF IInv, StateOK, PipeOK, BatchOK, LogsOK, Shapes
<1>5. mem[Name] = None /\ disk[Name] = None /\ src.cp = None
  BY DEF Init, NewSource
<1>6. \A k \in 1 .. Len(<<>>) : FALSE
  OBVIOUS
<1>7. Known = {}
  BY <1>3, <1>5, <1>6, Zenon DEF Known, InFlight, Elements
<1> QED
  BY <1>2, <1>4, <1>7, Zenon DEF TInv

\* Docker's steps: the logs grow, the watcher's lines stay.
LEMMA DockerTyped ==
  ASSUME TInv, (\E text \in Texts : WriteLine(text)) \/ Tick \/ Recreate \/ Rotate
  PROVE  TInv'
<1>1. UNCHANGED <<src, logs, gate, initialStart, batch, acked, mem, disk, processed, lastStart>>
  BY Zenon DEF WriteLine, Tick, Recreate, Rotate, consVars, storeVars, history
<1>2. Known' = Known /\ Shapes'
  <2>1. InFlight' = InFlight
    BY <1>1, Zenon DEF InFlight, Elements
  <2>2. Known' = Known
    BY <1>1, <2>1, Zenon DEF Known
  <2>3. Shapes'
    BY <1>1, Zenon DEF TInv, Shapes
  <2> QED
    BY <2>2, <2>3
<1>3. /\ now \in 1 .. MaxTime /\ cur \in Containers /\ log \in [Containers -> Seq(Entry)]
      /\ first \in [Containers -> Nat \ {0}]
      /\ \A c \in Containers : first[c] <= Len(log[c]) + 1
      /\ \A c \in Containers : \A i \in 1 .. Len(log[c]) : log[c][i].ts \in 1 .. now
  BY Zenon DEF TInv, LogTyped
<1>4. CASE \E text \in Texts : WriteLine(text)
  <2>1. PICK text \in Texts : WriteLine(text)
    BY <1>4
  <2> DEFINE e == [ts |-> now, text |-> text]
             n == Len(log[cur])
             r == Append(log[cur], e)
  <2>2. log' = [log EXCEPT ![cur] = r] /\ UNCHANGED <<now, cur, first>>
    BY <2>1, Zenon DEF WriteLine
  <2>3. now \in Nat /\ now \in 1 .. now /\ log[cur] \in Seq(Entry) /\ n \in Nat /\ MaxTime \in Nat
    BY <1>3, BoundsAssumption
  <2>4. e \in Entry /\ e.ts = now
    BY <2>3, Zenon DEF Entry
  <2> HIDE DEF e
  <2>5. /\ r \in Seq(Entry) /\ Len(r) = n + 1 /\ r[n + 1] = e
        /\ \A i \in 1 .. n : r[i] = log[cur][i]
    BY <2>3, <2>4
  <2> HIDE DEF r
  <2>6. /\ log' \in [Containers -> Seq(Entry)]
        /\ log'[cur] = r /\ \A c \in Containers : c # cur => log'[c] = log[c]
    BY <1>3, <2>2, <2>5, Zenon
  <2>7. /\ n <= Len(r) /\ first[cur] <= Len(r) + 1
        /\ \A i \in 1 .. Len(r) : i \in 1 .. n \/ i = n + 1
    <3>1. first[cur] \in Nat /\ first[cur] <= n + 1
      BY <1>3
    <3> QED
      BY <2>3, <2>5, <3>1
  <2>8. \A i \in 1 .. Len(r) : r[i].ts \in 1 .. now
    BY <1>3, <2>3, <2>4, <2>5, <2>7, Zenon
  <2> HIDE DEF n
  <2>9. LogTyped'
    <3>1. \A c \in Containers : first[c] <= Len(log'[c]) + 1
      BY <1>3, <2>6, <2>7, Zenon
    <3>2. \A c \in Containers : \A i \in 1 .. Len(log'[c]) : log'[c][i].ts \in 1 .. now
      BY <1>3, <2>6, <2>8, Zenon
    <3> QED
      BY <1>3, <2>2, <2>6, <3>1, <3>2, Zenon DEF LogTyped
  <2>10. Grew(log, first, {}, None, log', first, {}, None)
    <3>1. \A c \in Containers : Len(log[c]) <= Len(log[c]) /\ first[c] <= first[c]
      BY <1>3
    <3>2. \A c \in Containers :
            Len(log[c]) <= Len(log'[c]) /\ \A i \in 1 .. Len(log[c]) : log'[c][i] = log[c][i]
      BY <2>5, <2>6, <2>7, <3>1, Zenon DEF n
    <3> QED
      BY <1>3, <2>6, <3>1, <3>2, Zenon DEF Grew, World
  <2>11. \A l : Shown(log, l) => Shown(log', l)
    <3>1. \A l : Real(log, l) => Real(log', l)
      BY <2>10, GrewKeeps, Zenon
    <3> QED
      BY <3>1, Zenon DEF Shown
  <2> QED
    BY <1>2, <2>9, <2>11, Zenon DEF TInv
<1>5. CASE Tick \/ Recreate \/ Rotate
  <2>1. log' = log
    BY <1>5, Zenon DEF Tick, Recreate, Rotate
  <2>2. \A c \in Containers : Len(log[c]) \in Nat
    BY <1>3
  <2>3. LogTyped'
    <3>1. CASE Tick
      <4>1. now' = now + 1 /\ now < MaxTime /\ UNCHANGED <<cur, first>>
        BY <3>1, Zenon DEF Tick
      <4>2. now' \in 1 .. MaxTime /\ \A t \in 1 .. now : t \in 1 .. now'
        BY <1>3, <4>1, BoundsAssumption
      <4> QED
        BY <1>3, <2>1, <4>1, <4>2, Zenon DEF LogTyped
    <3>2. CASE Recreate
      <4>1. cur' = cur + 1 /\ cur < MaxContainers /\ UNCHANGED <<now, first>>
        BY <3>2, Zenon DEF Recreate
      <4>2. cur' \in Containers
        BY <1>3, <4>1, BoundsAssumption DEF Containers
      <4> QED
        BY <1>3, <2>1, <4>1, <4>2, Zenon DEF LogTyped
    <3>3. CASE Rotate
      <4>1. /\ first' = [first EXCEPT ![cur] = first[cur] + 1] /\ first[cur] <= Len(log[cur])
            /\ UNCHANGED <<now, cur>>
        BY <3>3, Zenon DEF Rotate
      <4>2. first' \in [Containers -> Nat \ {0}] /\ \A c \in Containers : first'[c] <= Len(log[c]) + 1
        BY <1>3, <2>2, <4>1
      <4> QED
        BY <1>3, <2>1, <4>1, <4>2, Zenon DEF LogTyped
    <3> QED
      BY <1>5, <3>1, <3>2, <3>3
  <2> QED
    BY <1>2, <2>1, <2>3, Zenon DEF TInv
<1> QED
  BY <1>4, <1>5

\* The watcher's steps: a line it has afterwards it had before, or Docker holds it.
LEMMA NothingInvented ==
  ASSUME TInv, UNCHANGED dockerVars, Shapes',
         \A l \in Known' : l \in Known \/ Shown(log, l)
  PROVE  TInv'
<1>1. UNCHANGED <<now, log, cur, first>>
  BY Zenon DEF dockerVars
<1>2. LogTyped'
  BY <1>1, Zenon DEF TInv, LogTyped
<1> QED
  BY <1>1, <1>2, Zenon DEF TInv


\* A step that leaves the lines in flight and the processed ones alone.
LEMMA QuietTyped ==
  ASSUME TInv, UNCHANGED <<dockerVars, logs, gate, batch, acked, processed>>,
         src' \in SrcRec, src'.cp \in {src.cp, mem[Name]},
         mem' = mem, disk' \in {disk, mem},
         initialStart' \in Int \cup {None}, lastStart' \in Int \cup {None}
  PROVE  TInv'
<1>1. Shapes'
  BY Zenon DEF TInv, Shapes
<1>2. InFlight' = InFlight
  BY Zenon DEF InFlight, Elements
<1>3. disk'[Name] \in {disk[Name], mem[Name]} /\ mem'[Name] = mem[Name]
  BY Zenon
<1>4. \A l \in Known' : l \in Known
  <2>1. /\ Known' = InFlight' \cup processed' \cup ({mem'[Name], disk'[Name], src'.cp} \ {None})
                      \cup (IF gate' = None THEN {} ELSE {gate'.checkpoint})
    BY Zenon DEF Known
  <2> QED
    BY <1>2, <1>3, <2>1, Zenon DEF Known
<1> QED
  BY <1>1, <1>4, NothingInvented, Zenon

\* The stream manager up to an open stream and the flush loop.
LEMMA SourceTyped ==
  ASSUME TInv,
         \/ Discover \/ AttachLoad \/ Flush
         \/ StreamFromCheckpoint \/ StreamInitially \/ StreamWithoutStore
         \/ UNCHANGED vars
  PROVE  TInv'
<1>1. /\ src \in SrcRec /\ cur \in Containers /\ now \in 1 .. MaxTime /\ LogTyped
      /\ mem \in [{Name} -> LineRec \cup {None}]
      /\ initialStart \in Int \cup {None} /\ lastStart \in Int \cup {None}
  BY Zenon DEF TInv, Shapes, LogTyped
<1>2. CASE Discover \/ AttachLoad \/ Flush \/ UNCHANGED vars
  <2>1. /\ UNCHANGED <<dockerVars, logs, gate, batch, acked, processed, mem>>
        /\ UNCHANGED <<initialStart, lastStart>> /\ disk' \in {disk, mem}
    BY <1>2, Zenon DEF Discover, AttachLoad, Flush, Store!Sync, vars, consVars,
       storeVars, history
  <2>2. src' \in SrcRec /\ src'.cp \in {src.cp, mem[Name]}
    <3>1. CASE Discover \/ AttachLoad
      BY <1>1, <3>1, Zenon DEF Discover, AttachLoad, SrcRec
    <3>2. CASE src' = src
      BY <1>1, <3>2, Zenon
    <3> QED
      BY <1>2, <3>1, <3>2, Zenon DEF Flush, vars
  <2> QED
    BY <1>1, <2>1, <2>2, QuietTyped, Zenon
<1>3. CASE StreamFromCheckpoint \/ StreamInitially \/ StreamWithoutStore
  <2>1. UNCHANGED <<dockerVars, logs, gate, batch, acked, processed, mem, disk>>
    BY <1>3, Zenon DEF StreamFromCheckpoint, StreamInitially, StreamWithoutStore, consVars,
       storeVars, history
  <2> DEFINE start == IF initialStart # None THEN initialStart ELSE now - Window
  <2>2. start \in Int
    BY <1>1, BoundsAssumption
  <2>3. /\ initialStart' \in {initialStart, None, start} /\ lastStart' \in {lastStart, start}
    BY <1>3, Zenon DEF StreamFromCheckpoint, StreamInitially, StreamWithoutStore, history
  <2>4. \E at \in Int : OpenAt(at)
    <3>1. CASE StreamFromCheckpoint
      <4>1. mem[Name] \in LineRec
        BY <1>1, <3>1, Zenon DEF StreamFromCheckpoint
      <4>2. ReplayStart(mem[Name], Overlap) \in Int
        BY <4>1, BoundsAssumption DEF LineRec, ReplayStart
      <4> QED
        BY <3>1, <4>2, Zenon DEF StreamFromCheckpoint
    <3>2. CASE StreamInitially
      BY <2>2, <3>2, Zenon DEF StreamInitially
    <3>3. CASE StreamWithoutStore
      <4>1. 0 \in Int
        OBVIOUS
      <4> QED
        BY <3>3, <4>1, Zenon DEF StreamWithoutStore
    <3> QED
      BY <1>3, <3>1, <3>2, <3>3
  <2>5. src' \in SrcRec /\ src'.cp = src.cp
    <3>1. PICK at \in Int : OpenAt(at)
      BY <2>4
    <3>2. FirstSince(at) \in first[cur] .. Len(log[cur]) + 1
      BY <1>1, SkipsOlder, Zenon
    <3>3. FirstSince(at) \in Nat
      BY <1>1, <3>2 DEF LogTyped
    <3> QED
      BY <1>1, <3>1, <3>3, Zenon DEF OpenAt, SrcRec
  <2> HIDE DEF start
  <2> QED
    BY <1>1, <2>1, <2>2, <2>3, <2>5, QuietTyped, Zenon
<1> QED
  BY <1>2, <1>3

\* AttachGate takes the loaded checkpoint over.
LEMMA AttachGateTyped == ASSUME TInv, AttachGate PROVE TInv'
<1>1. /\ UNCHANGED <<dockerVars, logs, initialStart, batch, acked, mem, disk, processed, lastStart>>
      /\ gate' = IF src.cp # None THEN NewReplayGate(src.cp) ELSE None
      /\ src' = [src EXCEPT !.pc = "start", !.cp = None]
  BY Zenon DEF AttachGate, consVars, storeVars, history
<1>2. src \in SrcRec /\ (src.cp # None => src.cp \in LineRec)
  BY Zenon DEF TInv, Shapes, SrcRec
<1>3. src' \in SrcRec /\ src'.cp = None
  BY <1>1, <1>2, Zenon DEF SrcRec
<1>4. gate' # None => /\ src.cp # None /\ gate'.checkpoint = src.cp /\ gate'.buffered = <<>>
                      /\ gate' \in GateRec
  BY <1>1, <1>2 DEF NewReplayGate, GateRec
<1>5. Shapes'
  BY <1>1, <1>3, <1>4, Zenon DEF TInv, Shapes
<1>6. \A k \in 1 .. Len(<<>>) : FALSE
  OBVIOUS
<1>7. InFlight' = Elements(logs) \cup Elements(batch)
  BY <1>1, <1>4, <1>6, Zenon DEF InFlight, Elements
<1>8. \A l \in Known' : l \in Known
  <2>1. Known' = InFlight' \cup processed' \cup ({mem'[Name], disk'[Name], src'.cp} \ {None})
                   \cup (IF gate' = None THEN {} ELSE {gate'.checkpoint})
    BY Zenon DEF Known
  <2> QED
    BY <1>1, <1>3, <1>4, <1>7, <2>1, KnownParts, Zenon
<1> QED
  BY <1>1, <1>5, <1>8, NothingInvented, Zenon


\* The line a stream sends next is one of its container's log.
LEMMA NextIsReal ==
  ASSUME TInv, NextLine <= Len(log[src.id])
  PROVE  Real(log, Line(src.id, NextLine)) /\ NextLine \in Nat
<1> DEFINE c == src.id
           m == NextLine
           l == LineAt(log, c, m)
<1>1. /\ c \in Containers /\ src.pos \in Nat
      /\ log \in [Containers -> Seq(Entry)] /\ first \in [Containers -> Nat \ {0}]
  BY Zenon DEF TInv, Shapes, LogTyped, SrcRec
<1>2. log[c] \in Seq(Entry) /\ Len(log[c]) \in Nat /\ first[c] \in Nat \ {0}
  BY <1>1
<1>3. m \in 1 .. Len(log[c]) /\ m \in Nat
  BY <1>1, <1>2, SMTT(30) DEF NextLine
<1>4. l = Line(c, m)
  BY Zenon DEF Line, LineAt
<1> HIDE DEF c, m
<1>5. log[c][m] \in Entry
  BY <1>2, <1>3
<1>6. log[c][m].ts \in Nat /\ log[c][m].text \in Texts \cup Pieces
  BY <1>5, Zenon DEF Entry
<1>7. l \in LineRec /\ l.id = c /\ l.pos = m
  BY <1>1, <1>3, <1>6 DEF LineAt, LineRec
<1>8. Real(log, l)
  BY <1>3, <1>7, Zenon DEF Real
<1> QED
  BY <1>3, <1>4, <1>8, Zenon DEF c, m

\* A line of the log, or a piece of one, enters the channel.
LEMMA AppendTyped ==
  ASSUME TInv, NEW l \in LineRec, Shown(log, l),
         UNCHANGED <<dockerVars, gate, initialStart, batch, acked, mem, disk, processed, lastStart>>,
         Len(logs) < ChannelSize, logs' = Append(logs, l), src' \in SrcRec, src'.cp = src.cp
  PROVE  TInv'
<1>1. logs \in Seq(LineRec)
  BY Zenon DEF TInv, Shapes
<1>2. /\ logs' \in Seq(LineRec) /\ Len(logs) \in Nat /\ Len(logs') = Len(logs) + 1
      /\ logs'[Len(logs) + 1] = l /\ \A k \in 1 .. Len(logs) : logs'[k] = logs[k]
  BY <1>1
<1>3. Len(logs') <= ChannelSize /\ \A k \in 1 .. Len(logs') : k \in 1 .. Len(logs) \/ k = Len(logs) + 1
  BY <1>2, BoundsAssumption
<1>4. Shapes'
  BY <1>2, <1>3, Zenon DEF TInv, Shapes
<1>5. \A x \in Elements(logs') : x \in Elements(logs) \/ x = l
  BY <1>2, <1>3, Zenon DEF Elements
<1>6. \A x \in Known' : x \in Known \/ x = l
  <2>1. InFlight' = Elements(logs') \cup Elements(batch)
                      \cup (IF gate = None THEN {} ELSE Elements(gate.buffered))
    BY Zenon DEF InFlight, Elements
  <2>2. Known' = InFlight' \cup processed' \cup ({mem'[Name], disk'[Name], src'.cp} \ {None})
                   \cup (IF gate' = None THEN {} ELSE {gate'.checkpoint})
    BY Zenon DEF Known
  <2> QED
    BY <1>5, <2>1, <2>2, KnownParts, ZenonT(40)
<1> QED
  BY <1>4, <1>6, NothingInvented, Zenon

\* Emit sends a line of the log.
LEMMA EmitTyped == ASSUME TInv, Emit PROVE TInv'
<1> DEFINE l == Line(src.id, NextLine)
<1>1. /\ UNCHANGED <<dockerVars, gate, initialStart, batch, acked, mem, disk, processed, lastStart>>
      /\ NextLine <= Len(log[src.id]) /\ Len(logs) < ChannelSize /\ logs' = Append(logs, l)
      /\ src' = [src EXCEPT !.pos = NextLine + 1]
  BY Zenon DEF Emit, consVars, storeVars, history
<1>2. Real(log, l) /\ NextLine \in Nat /\ src \in SrcRec
  BY <1>1, NextIsReal, Zenon DEF TInv, Shapes
<1> HIDE DEF l
<1>3. l \in LineRec /\ Shown(log, l) /\ NextLine + 1 \in Nat
  <2>1. NextLine + 1 \in Nat
    BY <1>2
  <2> QED
    BY <1>2, <2>1, Zenon DEF Real, Shown
<1>4. src' \in SrcRec /\ src'.cp = src.cp
  BY <1>1, <1>2, <1>3, Zenon DEF SrcRec
<1> QED
  BY <1>1, <1>3, <1>4, AppendTyped, Zenon

\* A piece has the identity and the place of its line.
LEMMA PieceTyped ==
  ASSUME NEW r \in LineRec, NEW l \in PiecesOf(r)
  PROVE  l \in LineRec /\ l.id = r.id /\ l.pos = r.pos
<1>1. PICK text \in Pieces : l = [r EXCEPT !.text = text] \/ l = [r EXCEPT !.ts = 0, !.text = text]
  BY Zenon DEF PiecesOf
<1>2. 0 \in Nat /\ text \in Texts \cup Pieces
  OBVIOUS
<1> QED
  BY <1>1, <1>2, Zenon DEF LineRec

\* Disconnect may send a piece of the line under way.
LEMMA DisconnectTyped == ASSUME TInv, Disconnect PROVE TInv'
<1> DEFINE r == Line(src.id, NextLine)
<1>1. UNCHANGED <<dockerVars, gate, initialStart, batch, acked, mem, disk, processed, lastStart>>
  BY Zenon DEF Disconnect, consVars, storeVars, history
<1>2. src \in SrcRec /\ initialStart \in Int \cup {None} /\ lastStart \in Int \cup {None}
  BY Zenon DEF TInv, Shapes
<1>3. src' \in SrcRec /\ src'.cp = src.cp
  BY <1>2, Zenon DEF Disconnect, SrcRec
<1>4. CASE logs' = logs
  BY <1>1, <1>2, <1>3, <1>4, QuietTyped, Zenon
<1>5. CASE logs' # logs
  <2>1. /\ NextLine <= Len(log[src.id]) /\ Len(logs) < ChannelSize
        /\ \E piece \in PiecesOf(r) : logs' = Append(logs, piece)
    BY <1>5, Zenon DEF Disconnect
  <2>2. Real(log, r)
    BY <2>1, NextIsReal, Zenon
  <2> HIDE DEF r
  <2>3. PICK l \in PiecesOf(r) : logs' = Append(logs, l)
    BY <2>1
  <2>4. l \in LineRec /\ Shown(log, l)
    BY <2>2, PieceTyped, Zenon DEF Real, Shown
  <2> QED
    BY <1>1, <1>3, <2>1, <2>3, <2>4, AppendTyped, Zenon
<1> QED
  BY <1>4, <1>5

\* The gate stays a gate for the same checkpoint.
LEMMA GateTyped ==
  ASSUME NEW g \in GateRec, NEW l \in LineRec
  PROVE  /\ AcceptLines(g, l) \in Seq(LineRec)
         /\ AcceptGate(g, l) \in GateRec /\ AcceptGate(g, l).checkpoint = g.checkpoint
<1> DEFINE r == Append(g.buffered, l)
<1>1. g.buffered \in Seq(LineRec)
  BY Zenon DEF GateRec
<1>2. r \in Seq(LineRec) /\ <<l>> \in Seq(LineRec) /\ <<>> \in Seq(LineRec) /\ FALSE \in BOOLEAN
  BY <1>1
<1> HIDE DEF r
<1>3. AcceptLines(g, l) \in {<<l>>, r, <<>>}
  BY Zenon DEF AcceptLines, r
<1>4. AcceptGate(g, l) \in {g, Opened(g), [g EXCEPT !.buffered = r]}
  BY Zenon DEF AcceptGate, r
<1>5. /\ Opened(g) \in GateRec /\ Opened(g).checkpoint = g.checkpoint
      /\ [g EXCEPT !.buffered = r] \in GateRec
      /\ [g EXCEPT !.buffered = r].checkpoint = g.checkpoint
  BY <1>2, Zenon DEF Opened, GateRec
<1> QED
  BY <1>2, <1>3, <1>4, <1>5, Zenon

\* Receive moves lines between the channel, the gate and the batch.
LEMMA ReceiveTyped == ASSUME TInv, Receive PROVE TInv'
<1> DEFINE h == logs[1]
<1>1. /\ UNCHANGED <<dockerVars, src, initialStart, acked, mem, disk, processed, lastStart>>
      /\ batch = <<>> /\ logs # <<>> /\ logs' = Tail(logs)
      /\ IF gate = None
         THEN batch' = <<Head(logs)>> /\ gate' = gate
         ELSE batch' = AcceptLines(gate, Head(logs)) /\ gate' = AcceptGate(gate, Head(logs))
  BY Zenon DEF Receive, storeVars, history
<1>2. /\ logs \in Seq(LineRec) /\ Len(logs) <= ChannelSize /\ (gate # None => gate \in GateRec)
      /\ ~acked
  BY <1>1, Zenon DEF TInv, Shapes
<1>3. /\ Head(logs) = h /\ h \in LineRec /\ Tail(logs) \in Seq(LineRec)
      /\ Len(Tail(logs)) <= ChannelSize /\ <<h>> \in Seq(LineRec)
  BY <1>1, <1>2, BoundsAssumption
<1>4. Elements(Tail(logs)) \subseteq Elements(logs) /\ h \in Elements(logs)
  BY <1>1, <1>2, TailElements, Zenon
<1> HIDE DEF h
<1>5. Elements(<<h>>) = {h}
  BY DEF Elements
<1>6. /\ batch' \in Seq(LineRec) /\ \A l \in Elements(batch') : l \in Known
      /\ gate' # None => /\ gate # None /\ gate' \in GateRec
                         /\ gate'.checkpoint = gate.checkpoint
                         /\ \A l \in Elements(gate'.buffered) : l \in Known
  <2>0. h \in Known
    BY <1>4, KnownParts, Zenon
  <2>1. CASE gate = None
    BY <1>1, <1>3, <1>5, <2>0, <2>1, Zenon
  <2>2. CASE gate # None
    <3>1. batch' = AcceptLines(gate, h) /\ gate' = AcceptGate(gate, h) /\ gate \in GateRec
      BY <1>1, <1>2, <1>3, <2>2, Zenon
    <3>2. gate.buffered \in Seq(LineRec)
      BY <3>1, Zenon DEF GateRec
    <3>3. /\ Elements(batch') \subseteq Elements(gate.buffered) \cup {h}
          /\ Elements(gate'.buffered) \subseteq Elements(gate.buffered) \cup {h}
      BY <1>3, <3>1, <3>2, GateLines, Zenon
    <3>4. batch' \in Seq(LineRec) /\ gate' \in GateRec /\ gate'.checkpoint = gate.checkpoint
      BY <1>3, <3>1, GateTyped, Zenon
    <3> QED
      BY <2>0, <2>2, <3>3, <3>4, KnownParts, Zenon
  <2> QED
    BY <2>1, <2>2
<1>7. Shapes'
  BY <1>1, <1>2, <1>3, <1>6, Zenon DEF TInv, Shapes
<1>8. \A l \in Known' : l \in Known
  <2>1. InFlight' = Elements(logs') \cup Elements(batch')
                      \cup (IF gate' = None THEN {} ELSE Elements(gate'.buffered))
    BY Zenon DEF InFlight, Elements
  <2>2. Known' = InFlight' \cup processed' \cup ({mem'[Name], disk'[Name], src'.cp} \ {None})
                   \cup (IF gate' = None THEN {} ELSE {gate'.checkpoint})
    BY Zenon DEF Known
  <2> QED
    BY <1>1, <1>4, <1>6, <2>1, <2>2, KnownParts, ZenonT(40)
<1> QED
  BY <1>1, <1>7, <1>8, NothingInvented, Zenon

\* Process and SaveCheckpoint take the first line of the batch.
LEMMA BatchTyped == ASSUME TInv, Process \/ SaveCheckpoint PROVE TInv'
<1>1. /\ UNCHANGED <<dockerVars, src, logs, gate, initialStart, lastStart>>
      /\ processed' \subseteq processed \cup {Head(batch)}
      /\ batch' \in {batch, Tail(batch)} /\ acked' \in BOOLEAN
      /\ acked' => batch' # <<>>
      /\ mem' \in {mem, [mem EXCEPT ![Name] = Head(batch)]} /\ disk' \in {disk, mem'}
      /\ batch # <<>>
  BY Zenon DEF Process, SaveCheckpoint, Store!Put, storeVars, history, TInv, Shapes
<1>2. batch \in Seq(LineRec)
  BY Zenon DEF TInv, Shapes
<1>3. Head(batch) = batch[1] /\ Head(batch) \in LineRec /\ Tail(batch) \in Seq(LineRec)
  BY <1>1, <1>2
<1>4. Elements(Tail(batch)) \subseteq Elements(batch) /\ Head(batch) \in Elements(batch)
  BY <1>1, <1>2, <1>3, TailElements, Zenon
<1>5. /\ mem' \in [{Name} -> LineRec \cup {None}] /\ disk' \in [{Name} -> LineRec \cup {None}]
      /\ mem'[Name] \in {mem[Name], Head(batch)}
      /\ disk'[Name] \in {disk[Name], mem[Name], Head(batch)}
  <2>1. mem \in [{Name} -> LineRec \cup {None}] /\ disk \in [{Name} -> LineRec \cup {None}]
    BY Zenon DEF TInv, Shapes
  <2> QED
    BY <1>1, <1>3, <2>1, Zenon
<1>6. Shapes'
  BY <1>1, <1>2, <1>3, <1>5, Zenon DEF TInv, Shapes
<1>7. \A l \in Known' : l \in Known
  <2>1. InFlight' = Elements(logs) \cup Elements(batch')
                      \cup (IF gate = None THEN {} ELSE Elements(gate.buffered))
    BY <1>1, Zenon DEF InFlight, Elements
  <2>2. Known' = InFlight' \cup processed' \cup ({mem'[Name], disk'[Name], src'.cp} \ {None})
                   \cup (IF gate' = None THEN {} ELSE {gate'.checkpoint})
    BY Zenon DEF Known
  <2> QED
    <3>1. Head(batch) \in Known
      BY <1>4, KnownParts, Zenon
    <3>2. \A l \in InFlight' : l \in Known
      BY <1>1, <1>4, <2>1, KnownParts, Zenon
    <3>3. \A l \in processed' : l \in Known
      BY <1>1, <3>1, KnownParts, Zenon
    <3>4. \A l \in {mem'[Name], disk'[Name], src'.cp} \ {None} : l \in Known
      BY <1>1, <1>5, <3>1, KnownParts, Zenon
    <3>5. gate' # None => gate'.checkpoint \in Known
      BY <1>1, KnownParts, Zenon
    <3> QED
      BY <2>2, <3>2, <3>3, <3>4, <3>5, Zenon
<1> QED
  BY <1>1, <1>6, <1>7, NothingInvented, Zenon

\* A restarted watcher has what the database has.
LEMMA CrashTyped == ASSUME TInv, Crash PROVE TInv'
<1>1. /\ UNCHANGED <<dockerVars, disk, processed, lastStart>> /\ mem' = disk
      /\ src' = NewSource /\ logs' = <<>> /\ gate' = None /\ initialStart' = None
      /\ batch' = <<>> /\ acked' = FALSE
  BY Zenon DEF Crash, Store!Reopen, history
<1>2. src' \in SrcRec /\ src'.cp = None
  BY <1>1, BoundsAssumption DEF NewSource, SrcRec, Containers
<1>3. Len(logs') <= ChannelSize /\ <<>> \in Seq(LineRec) /\ \A k \in 1 .. Len(<<>>) : FALSE
  BY <1>1, BoundsAssumption
<1>4. Shapes'
  BY <1>1, <1>2, <1>3, Zenon DEF TInv, Shapes
<1>5. \A l \in Known' : l \in Known
  <2>1. InFlight' = {}
    BY <1>1, <1>3, Zenon DEF InFlight, Elements
  <2>2. Known' = InFlight' \cup processed' \cup ({mem'[Name], disk'[Name], src'.cp} \ {None})
                   \cup (IF gate' = None THEN {} ELSE {gate'.checkpoint})
    BY Zenon DEF Known
  <2> QED
    BY <1>1, <1>2, <2>1, <2>2, KnownParts, Zenon
<1> QED
  BY <1>1, <1>4, <1>5, NothingInvented, Zenon

\* TInv is inductive.
LEMMA NextTInv == TInv /\ [Next]_vars => TInv'
<1> SUFFICES ASSUME TInv, [Next]_vars PROVE TInv'
  OBVIOUS
<1>1. CASE (\E text \in Texts : WriteLine(text)) \/ Tick \/ Recreate \/ Rotate
  BY <1>1, DockerTyped, Zenon
<1>2. CASE Source \/ Disconnect \/ Flush \/ UNCHANGED vars
  BY <1>2, SourceTyped, AttachGateTyped, EmitTyped, DisconnectTyped, Zenon DEF Source
<1>3. CASE Consumer \/ Crash
  BY <1>3, ReceiveTyped, BatchTyped, CrashTyped, Zenon DEF Consumer
<1> QED
  BY <1>1, <1>2, <1>3, Zenon DEF Next


\* Type correctness: every line in the channel, the batch, the gate and the store is
\* a line of its container's log or a piece of one (TypeOK), with its place in it,
\* whether or not lines share a timestamp or are cut.
THEOREM ReplayTypeCorrect == Spec => []TypeOK
<1>1. TInv => TypeOK
  <2> SUFFICES ASSUME TInv PROVE TypeOK
    OBVIOUS
  <2>1. \A l : Shown(log, l) => LineType(l)
    <3> SUFFICES ASSUME NEW l, NEW r, Real(log, r), l \in {r} \cup PiecesOf(r) PROVE LineType(l)
      BY Zenon DEF Shown
    <3>1. /\ r \in LineRec /\ r.id \in Containers /\ r.pos \in 1 .. Len(log[r.id])
          /\ r = Line(r.id, r.pos)
      BY Zenon DEF Real, LineRec, LineAt, Line
    <3>2. l.id = r.id /\ l.pos = r.pos
      BY <3>1, PieceTyped, Zenon
    <3> QED
      BY <3>1, <3>2, Zenon DEF LineType
  <2>2. \A l \in Known : LineType(l)
    BY <2>1, Zenon DEF TInv
  <2>3. \A l \in Elements(logs) \cup Elements(batch) \cup processed : LineType(l)
    BY <2>2, KnownParts, Zenon
  <2>4. gate # None => /\ LineType(gate.checkpoint)
                       /\ \A l \in Elements(gate.buffered) : LineType(l)
    BY <2>2, KnownParts, Zenon
  <2>5. \A cp \in {mem[Name], disk[Name], src.cp} \ {None} : LineType(cp)
    BY <2>2, KnownParts, Zenon
  <2>6. /\ src.pc \in {"discover", "load", "gate", "start", "stream"}
        /\ src.id \in Containers /\ src.pos \in Nat
    BY Zenon DEF TInv, Shapes, SrcRec
  <2>7. \A c \in Containers : \A i \in 1 .. Len(log[c]) :
          log[c][i].ts \in 1 .. now /\ log[c][i].text \in Texts
    <3>1. \A c \in Containers : \A i \in 1 .. Len(log[c]) : log[c][i] \in Entry
      BY DEF TInv, LogTyped
    <3> QED
      BY <3>1, Zenon DEF TInv, LogTyped, Entry
  <2>8. {initialStart, lastStart} \subseteq Int \cup {None}
    BY Zenon DEF TInv, Shapes
  <2> QED
    BY <2>3, <2>4, <2>5, <2>6, <2>7, <2>8, Zenon DEF TInv, LogTyped, Shapes, TypeOK
<1> QED
  BY <1>1, InitTInv, NextTInv, PTL DEF Spec

\* The replay uses the checkpoint store only as DurableMap allows: what Load, Save, the
\* flush loop and a restart do to it are steps of the map the store is shown to
\* implement, and no other step touches it.
THEOREM ReplayUsesStore == Spec => Store!Spec
<1>1. Init => Store!Init
  <2> SUFFICES ASSUME Init PROVE Store!Init
    OBVIOUS
  <2>1. mem = [n \in {Name} |-> None] /\ disk = mem
    BY Zenon DEF Init
  <2> QED
    BY <2>1 DEF Store!Init
<1>2. TInv /\ [Next]_vars => [Store!Next]_<<mem, disk>>
  <2> SUFFICES ASSUME TInv, [Next]_vars, ~UNCHANGED <<mem, disk>> PROVE Store!Next
    OBVIOUS
  <2>1. SaveCheckpoint \/ Flush \/ Crash
    <3>1. (\E text \in Texts : WriteLine(text)) \/ Tick \/ Recreate \/ Rotate
            => UNCHANGED <<mem, disk>>
      BY Zenon DEF WriteLine, Tick, Recreate, Rotate, storeVars
    <3>2. Source \/ Disconnect => UNCHANGED <<mem, disk>>
      BY Zenon DEF Source, Discover, AttachLoad, AttachGate, StreamFromCheckpoint,
         StreamInitially, StreamWithoutStore, Emit, Disconnect, storeVars
    <3>3. Receive \/ Process => UNCHANGED <<mem, disk>>
      BY Zenon DEF Receive, Process, storeVars
    <3>4. UNCHANGED vars => UNCHANGED <<mem, disk>>
      BY Zenon DEF vars, storeVars
    <3> QED
      BY <3>1, <3>2, <3>3, <3>4, Zenon DEF Next, Consumer
  <2>2. CASE SaveCheckpoint
    <3>1. Head(batch) \in [id : Nat, ts : Nat, text : Texts \cup Pieces, pos : Nat]
      <4>1. batch \in Seq(LineRec) /\ batch # <<>>
        BY <2>2, Zenon DEF TInv, Shapes, SaveCheckpoint
      <4>2. Head(batch) \in LineRec
        BY <4>1
      <4>3. Containers \subseteq Nat
        BY DEF Containers
      <4> QED
        BY <4>2, <4>3, Zenon DEF LineRec
    <3>2. Store!Put(Name, Head(batch)) /\ Name \in {Name}
      BY <2>2, Zenon DEF SaveCheckpoint, storeVars
    <3> QED
      BY <3>1, <3>2, Zenon DEF Store!Next
  <2>3. CASE Flush \/ Crash
    BY <2>3, Zenon DEF Flush, Crash, Store!Next
  <2> QED
    BY <2>1, <2>2, <2>3
<1> QED
  BY <1>1, <1>2, InitTInv, NextTInv, PTL DEF Spec, Store!Spec
=============================================================================
