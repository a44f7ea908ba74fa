-------------------------- MODULE DetectionProofs --------------------------
(***************************************************************************)
(* What TLAPS proves about the detection path and the aggregator it feeds: *)
(* which rules count a line, that its steps are the aggregator's, that a   *)
(* fingerprint stands for one incident; then the theorems about the        *)
(* aggregator alone, and at the end those of them that carry over.         *)
(***************************************************************************)
EXTENDS Detection, SequenceTheorems, FiniteSetTheorems, WellFoundedInduction, TLAPS

-----------------------------------------------------------------------------
(* Loops over a slice.                                                     *)

\* Every nonempty set of natural numbers has a least element.
LEMMA LeastNatural ==
  ASSUME NEW T, T \subseteq Nat, T # {}
  PROVE  \E x \in T : \A y \in T : x <= y
<1> DEFINE R == { ss \in Nat \X Nat : ss[1] < ss[2] }
<1>1. IsWellFoundedOn(R, Nat)
  BY NatLessThanWellFounded DEF OpToRel
<1>2. PICK x \in T : \A y \in T : ~(<<y, x>> \in R)
  <2> HIDE DEF R
  <2> QED
    BY <1>1, WFMin, Zenon
<1>3. ASSUME NEW y \in T PROVE x <= y
  <2>1. <<y, x>> \in Nat \X Nat /\ ~(<<y, x>> \in R)
    BY <1>2
  <2>2. ~(y < x)
    BY <2>1
  <2> QED
    BY <2>2
<1> QED
  BY <1>3

Turns(V, n) == [1 .. n -> [V -> V]]

Iterates(f, V, n, start, turn) ==
  /\ f \in [0 .. n -> V]
  /\ f[0] = start
  /\ \A i \in 1 .. n : f[i] = turn[i][f[i - 1]]

\* A loop of n turns has a value after each turn.
LEMMA LoopHasValues ==
  ASSUME NEW V, NEW n \in Nat, NEW start \in V, NEW turn \in Turns(V, n)
  PROVE  \E f : Iterates(f, V, n, start, turn)
<1> DEFINE P(m) == \E f \in [0 .. m -> V] :
                     f[0] = start /\ \A i \in 1 .. m : f[i] = turn[i][f[i - 1]]
           B == { m \in 0 .. n : ~P(m) }
<1>1. P(0)
  <2> DEFINE f == [i \in 0 .. 0 |-> start]
  <2>1. f \in [0 .. 0 -> V] /\ f[0] = start /\ \A i \in 1 .. 0 : f[i] = turn[i][f[i - 1]]
    OBVIOUS
  <2> QED
    BY <2>1, Zenon
<1>2. ASSUME NEW m \in 1 .. n, P(m - 1) PROVE P(m)
  <2>1. PICK f \in [0 .. m - 1 -> V] :
          f[0] = start /\ \A i \in 1 .. m - 1 : f[i] = turn[i][f[i - 1]]
    BY <1>2
  <2> DEFINE g == [i \in 0 .. m |-> IF i = m THEN turn[m][f[m - 1]] ELSE f[i]]
  <2>2. m - 1 \in 0 .. m - 1 /\ turn[m] \in [V -> V]
    BY DEF Turns
  <2>3. turn[m][f[m - 1]] \in V
    BY <2>2
  <2>4. g \in [0 .. m -> V]
    BY <2>3
  <2>5. g[0] = start
    BY <2>1
  <2>6. ASSUME NEW i \in 1 .. m PROVE g[i] = turn[i][g[i - 1]]
    <3>1. i - 1 \in 0 .. m /\ i - 1 # m /\ i \in 0 .. m
      OBVIOUS
    <3>2. g[i - 1] = f[i - 1]
      BY <3>1
    <3>3. CASE i = m
      BY <3>1, <3>2, <3>3
    <3>4. CASE i # m
      <4>1. g[i] = f[i] /\ i \in 1 .. m - 1
        BY <3>1, <3>4
      <4> QED
        BY <2>1, <3>2, <4>1
    <3> QED
      BY <3>3, <3>4
  <2> HIDE DEF g
  <2> QED
    BY <2>4, <2>5, <2>6
<1> HIDE DEF P
<1>3. ASSUME B # {} PROVE FALSE
  <2>0. B \subseteq Nat
    OBVIOUS
  <2>1. PICK m \in B : \A k \in B : m <= k
    <3> HIDE DEF B
    <3> QED
      BY <1>3, <2>0, LeastNatural, Zenon
  <2>2. m \in 1 .. n /\ m - 1 \in 0 .. n
    BY <1>1
  <2>3. m - 1 \notin B
    BY <2>1, <2>2
  <2> QED
    BY <1>2, <2>2, <2>3
<1>4. P(n)
  BY <1>3
<1> QED
  BY <1>4, Zenon DEF P, Iterates

-----------------------------------------------------------------------------
(* Engine.Match.                                                           *)

Selected(i, e) ==
  Matches(RuleList[i], e)
  /\ \A j \in 1 .. i - 1 : Matches(RuleList[j], e) => ~RuleList[j].stopOnMatch

MatchTurn(acc, i, e) ==
  IF acc.stopped \/ ~Matches(RuleList[i], e) THEN acc
  ELSE [matches |-> Append(acc.matches, i), stopped |-> RuleList[i].stopOnMatch]

MatchStart == [matches |-> <<>>, stopped |-> FALSE]

MatchLoop(f, e) ==
  f = [i \in 0 .. Len(RuleList) |->
         IF i = 0 THEN MatchStart ELSE MatchTurn(f[i - 1], i, e)]

LEMMA MatchIsLoop ==
  ASSUME NEW e
  PROVE  Match(e) = (CHOOSE f : MatchLoop(f, e))[Len(RuleList)].matches
BY Zenon DEF Match, MatchLoop, MatchTurn, MatchStart

LEMMA MatchLoopTurn ==
  ASSUME NEW e, NEW f, MatchLoop(f, e), NEW i \in 0 .. Len(RuleList)
  PROVE  f[i] = IF i = 0 THEN MatchStart ELSE MatchTurn(f[i - 1], i, e)
BY Zenon DEF MatchLoop

LEMMA MatchLoopExists ==
  ASSUME NEW e
  PROVE  \E f : MatchLoop(f, e)
<1> DEFINE n == Len(RuleList)
           V == [matches : Seq(Nat), stopped : BOOLEAN]
           turn == [i \in 1 .. n |-> [acc \in V |-> MatchTurn(acc, i, e)]]
<1>1. MatchStart \in V
  BY DEF MatchStart
<1>2. ASSUME NEW i \in 1 .. n, NEW acc \in V PROVE MatchTurn(acc, i, e) \in V
  <2>1. RuleList[i].stopOnMatch \in BOOLEAN
    BY DataAssumption
  <2>2. Append(acc.matches, i) \in Seq(Nat)
    OBVIOUS
  <2> HIDE DEF V
  <2>3. [matches |-> Append(acc.matches, i), stopped |-> RuleList[i].stopOnMatch] \in V
    BY <2>1, <2>2 DEF V
  <2> QED
    BY <2>3, Zenon DEF MatchTurn
<1>3. turn \in Turns(V, n)
  BY <1>2, Zenon DEF Turns
<1>4. n \in Nat
  BY DataAssumption
<1> HIDE DEF n, V, turn
<1>5. PICK f : Iterates(f, V, n, MatchStart, turn)
  BY <1>1, <1>3, <1>4, LoopHasValues, Zenon
<1>6. ASSUME NEW i \in 0 .. n, i # 0 PROVE f[i] = MatchTurn(f[i - 1], i, e)
  <2>1. i \in 1 .. n /\ i - 1 \in 0 .. n
    BY <1>4, <1>6
  <2>2. f[i - 1] \in V /\ f[i] = turn[i][f[i - 1]]
    BY <1>5, <2>1 DEF Iterates
  <2>3. turn[i] = [acc \in V |-> MatchTurn(acc, i, e)]
    BY <2>1, Zenon DEF turn
  <2> QED
    BY <2>2, <2>3, Zenon
<1>7. f = [i \in 0 .. n |-> IF i = 0 THEN MatchStart ELSE MatchTurn(f[i - 1], i, e)]
  BY <1>5, <1>6, Zenon DEF Iterates
<1> QED
  BY <1>7, Zenon DEF MatchLoop, n

Elements(s) == { s[k] : k \in 1 .. Len(s) }

LEMMA AppendElements ==
  ASSUME NEW S, NEW s \in Seq(S), NEW x \in S
  PROVE  Elements(Append(s, x)) = Elements(s) \cup {x}
<1>1. Len(Append(s, x)) = Len(s) + 1 /\ Append(s, x)[Len(s) + 1] = x /\ Len(s) \in Nat
  OBVIOUS
<1>2. \A k \in 1 .. Len(s) : Append(s, x)[k] = s[k]
  OBVIOUS
<1>3. 1 .. Len(s) + 1 = 1 .. Len(s) \cup {Len(s) + 1}
  BY <1>1
<1> QED
  BY <1>1, <1>2, <1>3, Zenon DEF Elements

\* Match returns the matching rules up to the first that stops.
LEMMA MatchSelects ==
  ASSUME NEW e
  PROVE  /\ Match(e) \in Seq(DOMAIN RuleList)
         /\ Elements(Match(e)) = { i \in DOMAIN RuleList : Selected(i, e) }
<1> DEFINE n == Len(RuleList)
           f == CHOOSE g : MatchLoop(g, e)
           Stops(i) == RuleList[i].stopOnMatch
           Good(i) == /\ f[i].matches \in Seq(1 .. n)
                      /\ Elements(f[i].matches) = { j \in 1 .. i : Selected(j, e) }
                      /\ f[i].stopped \in BOOLEAN
                      /\ f[i].stopped <=> \E j \in 1 .. i : Selected(j, e) /\ Stops(j)
<1>1. MatchLoop(f, e)
  BY MatchLoopExists, Zenon
<1>2. n \in Nat /\ DOMAIN RuleList = 1 .. n
  BY DataAssumption
<1> HIDE DEF f
<1>3. Good(0)
  <2>1. f[0] = MatchStart
    BY <1>1, <1>2, MatchLoopTurn
  <2> QED
    BY <2>1 DEF MatchStart, Elements
<1>4. ASSUME NEW i \in 1 .. n, Good(i - 1) PROVE Good(i)
  <2> DEFINE acc == f[i - 1]
  <2>1. f[i] = MatchTurn(acc, i, e)
    BY <1>1, <1>2, MatchLoopTurn
  <2>2. \A j \in 1 .. i : j # i => j \in 1 .. i - 1
    OBVIOUS
  <2>3. 1 .. i - 1 \subseteq 1 .. i /\ i \in 1 .. i
    OBVIOUS
  <2>4. CASE acc.stopped
    <3>1. f[i] = acc
      BY <2>1, <2>4, Zenon DEF MatchTurn
    <3>2. ~Selected(i, e)
      BY <1>4, <2>4, Zenon DEF Selected
    <3> QED
      BY <1>4, <2>2, <2>3, <3>1, <3>2, Zenon
  <2>5. CASE ~acc.stopped /\ ~Matches(RuleList[i], e)
    <3>1. f[i] = acc
      BY <2>1, <2>5, Zenon DEF MatchTurn
    <3>2. ~Selected(i, e)
      BY <2>5, Zenon DEF Selected
    <3> QED
      BY <1>4, <2>2, <2>3, <3>1, <3>2, Zenon
  <2>6. CASE ~acc.stopped /\ Matches(RuleList[i], e)
    <3>1. f[i] = [matches |-> Append(acc.matches, i), stopped |-> Stops(i)]
      BY <2>1, <2>6, Zenon DEF MatchTurn
    <3>2. f[i].matches = Append(acc.matches, i) /\ f[i].stopped = Stops(i)
      BY <3>1
    <3>3. Selected(i, e)
      <4>1. ASSUME NEW j \in 1 .. i - 1, Matches(RuleList[j], e), Stops(j) PROVE FALSE
        <5> DEFINE J == { k \in 1 .. i - 1 : Matches(RuleList[k], e) /\ Stops(k) }
        <5>1. J \subseteq Nat /\ j \in J
          BY <4>1
        <5>2. PICK k \in J : \A l \in J : k <= l
          <6> HIDE DEF J
          <6> QED
            BY <5>1, LeastNatural, Zenon
        <5>3. \A l \in 1 .. k - 1 : l \in 1 .. i - 1 /\ ~(k <= l)
          BY <5>2
        <5>4. Selected(k, e)
          BY <5>2, <5>3 DEF Selected
        <5> QED
          BY <1>4, <2>6, <5>2, <5>4
      <4> QED
        BY <2>6, <4>1 DEF Selected
    <3>4. Elements(f[i].matches) = Elements(acc.matches) \cup {i}
      BY <1>4, <3>2, AppendElements
    <3>5. f[i].matches \in Seq(1 .. n)
      BY <1>4, <3>2
    <3>6. Stops(i) \in BOOLEAN
      BY <1>2, DataAssumption
    <3>7. \A j \in 1 .. i - 1 : ~(Selected(j, e) /\ Stops(j))
      BY <1>4, <2>6, Zenon
    <3>8. f[i].stopped <=> \E j \in 1 .. i : Selected(j, e) /\ Stops(j)
      BY <2>2, <2>3, <3>2, <3>3, <3>7, Zenon
    <3>9. Elements(f[i].matches) = { j \in 1 .. i : Selected(j, e) }
      BY <1>4, <2>2, <2>3, <3>3, <3>4, Zenon
    <3> QED
      BY <3>2, <3>5, <3>6, <3>8, <3>9, Zenon
  <2> QED
    BY <2>4, <2>5, <2>6
<1> HIDE DEF Good
<1>5. Good(n)
  <2> DEFINE B == { i \in 0 .. n : ~Good(i) }
  <2>1. ASSUME B # {} PROVE FALSE
    <3>1. B \subseteq Nat
      OBVIOUS
    <3>2. PICK m \in B : \A k \in B : m <= k
      <4> HIDE DEF B
      <4> QED
        BY <2>1, <3>1, LeastNatural, Zenon
    <3>3. m \in 1 .. n /\ m - 1 \in 0 .. n /\ m - 1 \notin B
      BY <1>3, <3>2
    <3> QED
      BY <1>4, <3>2, <3>3
  <2> QED
    BY <1>2, <2>1
<1>6. Match(e) = f[n].matches
  BY MatchIsLoop, Zenon DEF f
<1> QED
  BY <1>2, <1>5, <1>6, Zenon DEF Good

-----------------------------------------------------------------------------
(* Process records every selected rule, and its steps are the aggregator's. *)

CountedRules(e) ==
  { i \in DOMAIN RuleList : e.level \in AlertCandidates \cup {LevelUnknown} /\ Selected(i, e) }

DInv ==
  /\ todo \in Seq([rule : DOMAIN RuleList, timestamp : EventTimes])
  /\ todo # <<>> => line \in Lines
  /\ line # NoLine => hits \cup { todo[k].rule : k \in 1 .. Len(todo) } = CountedRules(line)

\* The gate: a line is matched when its level is a candidate or unknown.
LEMMA MatchedCounts ==
  ASSUME NEW e
  PROVE  Matched(e) \in Seq(DOMAIN RuleList) /\ Elements(Matched(e)) = CountedRules(e)
<1>1. EntersRuleEngine(e) <=> e.level \in AlertCandidates
  <2>1. CASE e.level \in AlertCandidates
    BY <2>1 DEF EntersRuleEngine, Route
  <2>2. CASE e.level \notin AlertCandidates
    <3>1. CASE e.level \in ContextLevels \ AlertCandidates
      BY <2>2, <3>1 DEF EntersRuleEngine, Route
    <3>2. CASE e.level \notin ContextLevels \ AlertCandidates
      BY <2>2, <3>2 DEF EntersRuleEngine, Route
    <3> QED
      BY <3>1, <3>2
  <2> QED
    BY <2>1, <2>2
<1>2. CASE e.level \in AlertCandidates \cup {LevelUnknown}
  <2>1. Matched(e) = Match(e)
    BY <1>1, <1>2, Zenon DEF Matched
  <2>2. CountedRules(e) = { i \in DOMAIN RuleList : Selected(i, e) }
    BY <1>2, Zenon DEF CountedRules
  <2> QED
    BY <2>1, <2>2, MatchSelects, Zenon
<1>3. CASE e.level \notin AlertCandidates \cup {LevelUnknown}
  <2>1. Matched(e) = <<>>
    BY <1>1, <1>3, Zenon DEF Matched
  <2>2. CountedRules(e) = {}
    BY <1>3, Zenon DEF CountedRules
  <2>3. Elements(<<>>) = {} /\ <<>> \in Seq(DOMAIN RuleList)
    BY DEF Elements
  <2> QED
    BY <2>1, <2>2, <2>3, Zenon
<1> QED
  BY <1>2, <1>3

LEMMA HeadAndRest ==
  ASSUME NEW S, NEW s \in Seq(S), s # <<>>
  PROVE  /\ Head(s) \in S /\ Tail(s) \in Seq(S)
         /\ Len(Tail(s)) = Len(s) - 1 /\ Len(s) - 1 \in Nat
         /\ \A k \in 1 .. Len(s) - 1 : Tail(s)[k] = s[k + 1] /\ s[k + 1] \in S
         /\ Elements(s) = {Head(s)} \cup { s[k + 1] : k \in 1 .. Len(s) - 1 }
<1>1. Len(s) \in Nat \ {0} /\ Head(s) = s[1] /\ \A k \in 1 .. Len(s) : s[k] \in S
  OBVIOUS
<1>2. Tail(s) \in Seq(S) /\ Len(Tail(s)) = Len(s) - 1
      /\ \A k \in 1 .. Len(s) - 1 : Tail(s)[k] = s[k + 1]
  OBVIOUS
<1>3. \A k \in 1 .. Len(s) - 1 : k + 1 \in 1 .. Len(s)
  BY <1>1
<1>4. \A k \in 1 .. Len(s) : k # 1 => k - 1 \in 1 .. Len(s) - 1 /\ (k - 1) + 1 = k
  BY <1>1
<1>5. 1 \in 1 .. Len(s) /\ Len(s) - 1 \in Nat
  BY <1>1
<1>6. Elements(s) \subseteq {Head(s)} \cup { s[k + 1] : k \in 1 .. Len(s) - 1 }
  <2> SUFFICES ASSUME NEW k \in 1 .. Len(s)
               PROVE  s[k] \in {Head(s)} \cup { s[l + 1] : l \in 1 .. Len(s) - 1 }
    BY Zenon DEF Elements
  <2>1. CASE k = 1
    BY <1>1, <2>1, Zenon
  <2>2. CASE k # 1
    <3>1. k - 1 \in 1 .. Len(s) - 1 /\ s[(k - 1) + 1] = s[k]
      BY <1>4, <2>2
    <3> QED
      BY <3>1, Zenon
  <2> QED
    BY <2>1, <2>2
<1>7. {Head(s)} \cup { s[k + 1] : k \in 1 .. Len(s) - 1 } \subseteq Elements(s)
  BY <1>1, <1>3, <1>5, Zenon DEF Elements
<1>8. \A k \in 1 .. Len(s) - 1 : s[k + 1] \in S
  BY <1>1, <1>3, Zenon
<1>9. Head(s) \in S
  BY <1>1, <1>5, Zenon
<1> QED
  BY <1>2, <1>5, <1>6, <1>7, <1>8, <1>9, Zenon

LEMMA RecordMatchRecords ==
  ASSUME NEW i \in DOMAIN RuleList, NEW e \in Lines, NEW timestamp \in EventTimes,
         RecordMatch(i, e, timestamp)
  PROVE  Next
<1>1. Fingerprint(RuleList[i], e) \in Fingerprints /\ rawIdentity(e) \in Samples
  BY DetectionAssumption, Zenon
<1>2. Record(Fingerprint(RuleList[i], e), timestamp, rawIdentity(e))
  BY Zenon DEF RecordMatch
<1> QED
  BY <1>1, <1>2, Zenon DEF Next

LEMMA ProcessKeeps ==
  ASSUME DInv, NEW e \in Lines, NEW timestamp \in EventTimes, Process(e, timestamp)
  PROVE  DInv' /\ [Next]_vars
<1> DEFINE m == Matched(e)
           T == [rule : DOMAIN RuleList, timestamp : EventTimes]
<1>1. m \in Seq(DOMAIN RuleList) /\ Elements(m) = CountedRules(e)
  BY MatchedCounts
<1>2. line' = e /\ todo = <<>> /\ e \in Lines
  BY Zenon DEF Process
<1> HIDE DEF m
<1>3. CASE m = <<>>
  <2>1. hits' = {} /\ todo' = todo /\ UNCHANGED vars
    BY <1>3, Zenon DEF Process, m, vars
  <2>2. Elements(<<>>) = {} /\ { <<>>[k].rule : k \in 1 .. Len(<<>>) } = {}
    BY DEF Elements
  <2>3. hits' \cup { todo'[k].rule : k \in 1 .. Len(todo') } = CountedRules(line')
    BY <1>1, <1>2, <1>3, <2>1, <2>2, ZenonT(30)
  <2> QED
    BY <1>2, <2>1, <2>3, Zenon DEF DInv, CountedRules, Selected
<1>4. CASE m # <<>>
  <2> DEFINE d == [k \in 1 .. Len(m) - 1 |-> [rule |-> m[k + 1], timestamp |-> timestamp]]
  <2>1. hits' = {Head(m)} /\ todo' = d /\ RecordMatch(Head(m), e, timestamp)
    BY <1>4, Zenon DEF Process, m
  <2>2. /\ Head(m) \in DOMAIN RuleList /\ Len(m) - 1 \in Nat
        /\ \A k \in 1 .. Len(m) - 1 : m[k + 1] \in DOMAIN RuleList
        /\ Elements(m) = {Head(m)} \cup { m[k + 1] : k \in 1 .. Len(m) - 1 }
    BY <1>1, <1>4, HeadAndRest, Zenon
  <2>3. \A k \in 1 .. Len(m) - 1 : d[k] \in T /\ d[k].rule = m[k + 1]
    BY <2>2
  <2>4. d \in Seq(T) /\ Len(d) = Len(m) - 1
    BY <2>2, <2>3
  <2> HIDE DEF d
  <2>5. { d[k].rule : k \in 1 .. Len(d) } = { m[k + 1] : k \in 1 .. Len(m) - 1 }
    BY <2>3, <2>4, Zenon
  <2>6. hits' \cup { todo'[k].rule : k \in 1 .. Len(todo') } = CountedRules(line')
    BY <1>1, <1>2, <2>1, <2>2, <2>5, Zenon
  <2>7. Next
    BY <2>1, <2>2, RecordMatchRecords, Zenon
  <2> QED
    BY <1>2, <2>1, <2>4, <2>6, <2>7, Zenon DEF DInv, CountedRules, Selected
<1> QED
  BY <1>3, <1>4

LEMMA ProcessNextKeeps ==
  ASSUME DInv, ProcessNext
  PROVE  DInv' /\ Next
<1> DEFINE T == [rule : DOMAIN RuleList, timestamp : EventTimes]
           Rules(s) == { s[k].rule : k \in 1 .. Len(s) }
<1>1. todo \in Seq(T) /\ todo # <<>> /\ line \in Lines /\ todo' = Tail(todo)
      /\ hits' = hits \cup {Head(todo).rule} /\ line' = line
      /\ RecordMatch(Head(todo).rule, line, Head(todo).timestamp)
  BY Zenon DEF DInv, ProcessNext
<1> HIDE DEF T
<1>2. /\ Head(todo) \in T /\ Tail(todo) \in Seq(T)
      /\ Len(Tail(todo)) = Len(todo) - 1 /\ Len(todo) - 1 \in Nat
      /\ \A k \in 1 .. Len(todo) - 1 : Tail(todo)[k] = todo[k + 1]
      /\ Elements(todo) = {Head(todo)} \cup { todo[k + 1] : k \in 1 .. Len(todo) - 1 }
  BY <1>1, HeadAndRest, Zenon
<1>3. Head(todo).rule \in DOMAIN RuleList /\ Head(todo).timestamp \in EventTimes
  BY <1>2 DEF T
<1>4. Next
  BY <1>1, <1>3, RecordMatchRecords, Zenon
<1>5. Rules(todo) = { x.rule : x \in Elements(todo) }
  BY Zenon DEF Elements
<1>6. Rules(Tail(todo)) = { x.rule : x \in { todo[k + 1] : k \in 1 .. Len(todo) - 1 } }
  <2>1. Rules(Tail(todo)) = { Tail(todo)[k].rule : k \in 1 .. Len(todo) - 1 }
    BY <1>2, Zenon
  <2>2. { Tail(todo)[k].rule : k \in 1 .. Len(todo) - 1 }
          = { todo[k + 1].rule : k \in 1 .. Len(todo) - 1 }
    BY <1>2
  <2>3. { todo[k + 1].rule : k \in 1 .. Len(todo) - 1 }
          = { x.rule : x \in { todo[k + 1] : k \in 1 .. Len(todo) - 1 } }
    OBVIOUS
  <2> QED
    BY <2>1, <2>2, <2>3, Zenon
<1>7. Rules(todo) = {Head(todo).rule} \cup Rules(Tail(todo))
  BY <1>2, <1>5, <1>6, Zenon
<1>8. line' # NoLine => hits' \cup Rules(todo') = CountedRules(line')
  <2> SUFFICES ASSUME line # NoLine PROVE hits' \cup Rules(todo') = CountedRules(line)
    BY <1>1, Zenon
  <2>1. hits \cup Rules(todo) = CountedRules(line)
    BY Zenon DEF DInv
  <2> HIDE DEF Rules
  <2> QED
    BY <1>1, <1>7, <2>1, Zenon
<1> QED
  BY <1>1, <1>2, <1>4, <1>8, Zenon DEF DInv, T, CountedRules, Selected

LEMMA DInvStays ==
  ASSUME DInv, UNCHANGED <<line, todo, hits>>
  PROVE  DInv'
<1>1. line' = line /\ todo' = todo /\ hits' = hits
  OBVIOUS
<1>2. CountedRules(line)' = CountedRules(line)
  BY <1>1 DEF CountedRules, Selected
<1>3. { todo[k].rule : k \in 1 .. Len(todo) }' = { todo[k].rule : k \in 1 .. Len(todo) }
  BY <1>1
<1> QED
  BY <1>1, <1>2, <1>3 DEF DInv

LEMMA DNextKeeps == DInv /\ [DNext]_dvars => DInv' /\ [Next]_vars
<1> SUFFICES ASSUME DInv, [DNext]_dvars PROVE DInv' /\ [Next]_vars
  OBVIOUS
<1>1. CASE UNCHANGED dvars
  BY <1>1, DInvStays, Zenon DEF dvars, vars
<1>2. ASSUME NEW e \in Lines, NEW timestamp \in EventTimes, Process(e, timestamp)
      PROVE  DInv' /\ [Next]_vars
  BY <1>2, ProcessKeeps
<1>3. CASE ProcessNext
  BY <1>3, ProcessNextKeeps
<1>4. CASE Aside
  <2>1. DInv' /\ (Tick \/ LenOrState)
    BY <1>4, DInvStays, Zenon DEF Aside
  <2> QED
    BY <2>1, Zenon DEF Next
<1> QED
  BY <1>1, <1>2, <1>3, <1>4, Zenon DEF DNext

LEMMA DInitInv == DInit => DInv /\ Init
<1> SUFFICES ASSUME DInit PROVE DInv /\ Init
  OBVIOUS
<1>1. todo = <<>> /\ line = NoLine /\ Init
  BY Zenon DEF DInit
<1> QED
  BY <1>1 DEF DInv

LEMMA AlwaysDInv == DSpec => []DInv
BY DInitInv, DNextKeeps, PTL DEF DSpec

\* Process and the other callers use the aggregator as its specification says: every
\* step of the detection path is one Record, Len, State or tick of the clock, or leaves
\* the aggregator alone.
THEOREM DetectionUsesAggregator == DSpec => Spec
BY DInitInv, DNextKeeps, AlwaysDInv, PTL DEF DSpec, Spec

\* Engine.Match and the loop of Process: once a line is done, the rules that counted it
\* are the matching ones up to the first that stops, and none when its level is gated.
THEOREM DetectionCountedByRules == DSpec => []CountedByRules
<1>1. DInv => CountedByRules
  <2> SUFFICES ASSUME DInv, line # NoLine, todo = <<>> PROVE hits = CountedRules(line)
    BY Zenon DEF CountedByRules, CountedRules, Selected
  <2>1. { todo[k].rule : k \in 1 .. Len(todo) } = {}
    OBVIOUS
  <2> QED
    BY <2>1, Zenon DEF DInv
<1> QED
  BY <1>1, AlwaysDInv, PTL

-----------------------------------------------------------------------------
(* The bytes hashed tell the parts.                                        *)

WrittenTurn(bytes, parts, i) == bytes \o writePart(parts[i])

WrittenLoop(f, parts) ==
  f = [i \in 0 .. Len(parts) |-> IF i = 0 THEN <<>> ELSE WrittenTurn(f[i - 1], parts, i)]

LEMMA WrittenIsLoop ==
  ASSUME NEW parts
  PROVE  Written(parts) = (CHOOSE f : WrittenLoop(f, parts))[Len(parts)]
BY Zenon DEF Written, WrittenLoop, WrittenTurn

LEMMA WrittenLoopTurn ==
  ASSUME NEW parts, NEW f, WrittenLoop(f, parts), NEW i \in 0 .. Len(parts)
  PROVE  f[i] = IF i = 0 THEN <<>> ELSE WrittenTurn(f[i - 1], parts, i)
BY Zenon DEF WrittenLoop

Joins(c, s, t) ==
  /\ Len(c) = Len(s) + Len(t)
  /\ \A x \in 1 .. Len(s) : c[x] = s[x]
  /\ \A x \in 1 .. Len(t) : c[Len(s) + x] = t[x]

LEMMA ConcatJoins ==
  ASSUME NEW S, NEW s \in Seq(S), NEW t \in Seq(S)
  PROVE  s \o t \in Seq(S) /\ Joins(s \o t, s, t)
<1> DEFINE c == s \o t
<1>1. c \in Seq(S) /\ Len(c) = Len(s) + Len(t)
      /\ \A i \in 1 .. Len(s) + Len(t) : c[i] = IF i <= Len(s) THEN s[i] ELSE t[i - Len(s)]
  BY ConcatProperties, Zenon
<1>2. Len(s) \in Nat /\ Len(t) \in Nat
  OBVIOUS
<1> HIDE DEF c
<1>3. ASSUME NEW x \in 1 .. Len(s) PROVE c[x] = s[x]
  <2>1. x \in 1 .. Len(s) + Len(t) /\ x <= Len(s)
    BY <1>2
  <2> QED
    BY <1>1, <2>1, Zenon
<1>4. ASSUME NEW x \in 1 .. Len(t) PROVE c[Len(s) + x] = t[x]
  <2> DEFINE y == Len(s) + x
  <2>1. y \in 1 .. Len(s) + Len(t) /\ ~(y <= Len(s)) /\ y - Len(s) = x
    BY <1>2
  <2> HIDE DEF y
  <2>2. c[y] = t[y - Len(s)]
    BY <1>1, <2>1, Zenon
  <2> QED
    BY <2>1, <2>2, Zenon DEF y
<1> QED
  BY <1>1, <1>3, <1>4, Zenon DEF c, Joins

\* writePart writes a length and as many bytes.
LEMMA WritePart ==
  ASSUME NEW value \in Strings
  PROVE  /\ writePart(value) \in Strings
         /\ Len(writePart(value)) = 1 + Len(value)
         /\ writePart(value)[1] = Len(value)
         /\ \A k \in 1 .. Len(value) : writePart(value)[1 + k] = value[k]
<1>1. value \in Seq(Nat) /\ Len(value) \in Nat
  BY DEF Strings
<1> DEFINE h == <<Len(value)>>
<1>2. h \in Seq(Nat) /\ Len(h) = 1 /\ h[1] = Len(value)
  BY <1>1
<1> HIDE DEF h
<1>3. /\ h \o value \in Seq(Nat) /\ Len(h \o value) = 1 + Len(value)
      /\ (h \o value)[1] = h[1]
      /\ \A k \in 1 .. Len(value) : (h \o value)[1 + k] = value[k]
  <2>1. h \o value \in Seq(Nat) /\ Joins(h \o value, h, value)
    BY <1>1, <1>2, ConcatJoins, Zenon
  <2> QED
    BY <1>1, <1>2, <2>1 DEF Joins
<1>4. writePart(value) = h \o value
  BY Zenon DEF writePart, h
<1> QED
  BY <1>2, <1>3, <1>4, Zenon DEF Strings

LEMMA WrittenTurnString ==
  ASSUME NEW parts \in Seq(Strings), NEW i \in 1 .. Len(parts), NEW bytes \in Strings
  PROVE  WrittenTurn(bytes, parts, i) \in Strings
<1>1. parts[i] \in Strings
  OBVIOUS
<1>2. writePart(parts[i]) \in Strings
  BY <1>1, WritePart, Zenon
<1> HIDE DEF Strings
<1>3. bytes \o writePart(parts[i]) \in Strings
  BY <1>2 DEF Strings
<1> QED
  BY <1>3 DEF WrittenTurn

LEMMA WrittenLoopExists ==
  ASSUME NEW parts \in Seq(Strings)
  PROVE  \E f : WrittenLoop(f, parts)
<1> DEFINE n == Len(parts)
           turn == [i \in 1 .. n |-> [bytes \in Strings |-> WrittenTurn(bytes, parts, i)]]
<1>1. <<>> \in Strings
  BY DEF Strings
<1>2. \A i \in 1 .. n, bytes \in Strings : WrittenTurn(bytes, parts, i) \in Strings
  BY WrittenTurnString, Zenon
<1>3. turn \in Turns(Strings, n)
  BY <1>2, Zenon DEF Turns
<1>4. n \in Nat
  OBVIOUS
<1> HIDE DEF n, turn
<1>5. PICK f : Iterates(f, Strings, n, <<>>, turn)
  BY <1>1, <1>3, <1>4, LoopHasValues, Zenon
<1>6. ASSUME NEW i \in 0 .. n, i # 0 PROVE f[i] = WrittenTurn(f[i - 1], parts, i)
  <2>1. i \in 1 .. n /\ i - 1 \in 0 .. n
    BY <1>4, <1>6
  <2>2. f[i - 1] \in Strings /\ f[i] = turn[i][f[i - 1]]
    BY <1>5, <2>1 DEF Iterates
  <2>3. turn[i] = [bytes \in Strings |-> WrittenTurn(bytes, parts, i)]
    BY <2>1, Zenon DEF turn
  <2> QED
    BY <2>2, <2>3, Zenon
<1>7. f = [i \in 0 .. n |-> IF i = 0 THEN <<>> ELSE WrittenTurn(f[i - 1], parts, i)]
  BY <1>5, <1>6, Zenon DEF Iterates
<1> QED
  BY <1>7, Zenon DEF WrittenLoop, n

\* Where a part stands in bytes, when the ones before it take at bytes.
PartAt(bytes, at, part) ==
  /\ at + 1 + Len(part) <= Len(bytes)
  /\ bytes[at + 1] = Len(part)
  /\ \A k \in 1 .. Len(part) : bytes[at + 1 + k] = part[k]

KeepsParts(bytes, longer) ==
  \A at \in Nat, part \in Strings : PartAt(bytes, at, part) => PartAt(longer, at, part)

LEMMA AppendedPart ==
  ASSUME NEW bytes \in Strings, NEW part \in Strings
  PROVE  /\ bytes \o writePart(part) \in Strings
         /\ Len(bytes \o writePart(part)) = Len(bytes) + 1 + Len(part)
         /\ PartAt(bytes \o writePart(part), Len(bytes), part)
         /\ KeepsParts(bytes, bytes \o writePart(part))
<1> DEFINE w == writePart(part)
           b == bytes \o w
<1>1. /\ w \in Seq(Nat) /\ Len(w) = 1 + Len(part) /\ w[1] = Len(part)
      /\ \A k \in 1 .. Len(part) : w[1 + k] = part[k]
  BY WritePart, Zenon DEF Strings
<1>2. bytes \in Seq(Nat) /\ part \in Seq(Nat) /\ Len(bytes) \in Nat /\ Len(part) \in Nat
  BY DEF Strings
<1> HIDE DEF w
<1>3. /\ b \in Seq(Nat) /\ Len(b) = Len(bytes) + Len(w)
      /\ \A x \in 1 .. Len(bytes) : b[x] = bytes[x]
      /\ \A x \in 1 .. Len(w) : b[Len(bytes) + x] = w[x]
  <2>1. b \in Seq(Nat) /\ Joins(b, bytes, w)
    BY <1>1, <1>2, ConcatJoins, Zenon
  <2> QED
    BY <2>1, Zenon DEF Joins
<1> HIDE DEF b
<1>4. PartAt(b, Len(bytes), part)
  <2>1. Len(bytes) + 1 + Len(part) <= Len(b)
    BY <1>1, <1>2, <1>3
  <2>2. b[Len(bytes) + 1] = Len(part)
    BY <1>1, <1>2, <1>3
  <2>3. ASSUME NEW k \in 1 .. Len(part) PROVE b[Len(bytes) + 1 + k] = part[k]
    <3>1. 1 + k \in 1 .. Len(w) /\ Len(bytes) + 1 + k = Len(bytes) + (1 + k)
      BY <1>1, <1>2
    <3> QED
      BY <1>1, <1>3, <3>1, Zenon
  <2> QED
    BY <2>1, <2>2, <2>3 DEF PartAt
<1>5. ASSUME NEW at \in Nat, NEW earlier \in Strings, PartAt(bytes, at, earlier)
      PROVE  PartAt(b, at, earlier)
  <2>1. Len(earlier) \in Nat
    BY DEF Strings
  <2>2. at + 1 + Len(earlier) <= Len(bytes)
    BY <1>5 DEF PartAt
  <2>3. at + 1 + Len(earlier) <= Len(b) /\ at + 1 \in 1 .. Len(bytes)
        /\ \A k \in 1 .. Len(earlier) : at + 1 + k \in 1 .. Len(bytes)
    <3>1. Len(b) = Len(bytes) + 1 + Len(part)
      BY <1>1, <1>3
    <3> QED
      BY <1>2, <2>1, <2>2, <3>1
  <2> QED
    BY <1>3, <1>5, <2>3, Zenon DEF PartAt
<1>6. Len(b) = Len(bytes) + 1 + Len(part) /\ b \in Strings
  BY <1>1, <1>2, <1>3 DEF Strings
<1>7. KeepsParts(bytes, b)
  BY <1>5, Zenon DEF KeepsParts
<1> QED
  BY <1>4, <1>6, <1>7, Zenon DEF b, w
\* at[i] is where the i-th part ends.
Encodes(at, bytes, parts) ==
  /\ at \in [0 .. Len(parts) -> Nat]
  /\ at[0] = 0 /\ at[Len(parts)] = Len(bytes)
  /\ \A i \in 1 .. Len(parts) :
       /\ at[i] = at[i - 1] + 1 + Len(parts[i])
       /\ PartAt(bytes, at[i - 1], parts[i])

LEMMA WrittenEncodes ==
  ASSUME NEW parts \in Seq(Strings)
  PROVE  Written(parts) \in Strings /\ \E at : Encodes(at, Written(parts), parts)
<1> DEFINE n == Len(parts)
           f == CHOOSE g : WrittenLoop(g, parts)
           Good(m) == /\ \A j \in 0 .. m : f[j] \in Strings
                      /\ \A i \in 1 .. m : /\ Len(f[i]) = Len(f[i - 1]) + 1 + Len(parts[i])
                                           /\ PartAt(f[m], Len(f[i - 1]), parts[i])
<1>1. WrittenLoop(f, parts)
  BY WrittenLoopExists, Zenon
<1>2. n \in Nat /\ \A i \in 1 .. n : parts[i] \in Strings
  OBVIOUS
<1> HIDE DEF f
<1>3. f[0] = <<>>
  BY <1>1, <1>2, WrittenLoopTurn
<1>4. Good(0)
  <2>1. <<>> \in Strings /\ 0 .. 0 = {0} /\ 1 .. 0 = {}
    BY DEF Strings
  <2> QED
    BY <1>3, <2>1, Zenon
<1>5. ASSUME NEW m \in 1 .. n, Good(m - 1) PROVE Good(m)
  <2>1. m # 0 /\ m \in 0 .. n /\ m - 1 \in 0 .. m - 1
    BY <1>2
  <2>2. f[m] = f[m - 1] \o writePart(parts[m])
    BY <1>1, <2>1, WrittenLoopTurn, Zenon DEF WrittenTurn
  <2>3. f[m - 1] \in Strings /\ parts[m] \in Strings
    BY <1>2, <1>5, <2>1, Zenon
  <2>4. /\ f[m] \in Strings
        /\ Len(f[m]) = Len(f[m - 1]) + 1 + Len(parts[m])
        /\ PartAt(f[m], Len(f[m - 1]), parts[m])
        /\ KeepsParts(f[m - 1], f[m])
    BY <2>2, <2>3, AppendedPart, Zenon
  <2>5. ASSUME NEW j \in 0 .. m PROVE f[j] \in Strings
    <3>1. CASE j = m
      BY <2>4, <3>1
    <3>2. CASE j # m
      <4>1. j \in 0 .. m - 1
        BY <3>2
      <4> QED
        BY <1>5, <4>1, Zenon
    <3> QED
      BY <3>1, <3>2
  <2>6. ASSUME NEW i \in 1 .. m
        PROVE  /\ Len(f[i]) = Len(f[i - 1]) + 1 + Len(parts[i])
               /\ PartAt(f[m], Len(f[i - 1]), parts[i])
    <3>1. CASE i = m
      BY <2>4, <3>1, Zenon
    <3>2. CASE i # m
      <4>1. i \in 1 .. m - 1 /\ i - 1 \in 0 .. m - 1 /\ i \in 1 .. n
        BY <3>2
      <4>2. /\ Len(f[i]) = Len(f[i - 1]) + 1 + Len(parts[i])
            /\ PartAt(f[m - 1], Len(f[i - 1]), parts[i])
            /\ f[i - 1] \in Strings
        BY <1>5, <4>1, Zenon
      <4>3. Len(f[i - 1]) \in Nat
        BY <4>2 DEF Strings
      <4> QED
        BY <1>2, <2>4, <4>1, <4>2, <4>3, Zenon DEF KeepsParts
    <3> QED
      BY <3>1, <3>2, Zenon
  <2> QED
    BY <2>5, <2>6, Zenon
<1>6. Good(n)
  <2> HIDE DEF Good
  <2> DEFINE B == { i \in 0 .. n : ~Good(i) }
  <2>1. ASSUME B # {} PROVE FALSE
    <3>1. B \subseteq Nat
      OBVIOUS
    <3>2. PICK m \in B : \A k \in B : m <= k
      <4> HIDE DEF B
      <4> QED
        BY <2>1, <3>1, LeastNatural, Zenon
    <3>3. m \in 1 .. n /\ m - 1 \in 0 .. n /\ m - 1 \notin B
      BY <1>4, <3>2
    <3> QED
      BY <1>5, <3>2, <3>3
  <2> QED
    BY <1>2, <2>1
<1>7. Written(parts) = f[n]
  BY WrittenIsLoop, Zenon DEF f
<1> DEFINE at == [i \in 0 .. n |-> Len(f[i])]
<1>8. at \in [0 .. n -> Nat]
  <2>1. \A i \in 0 .. n : f[i] \in Seq(Nat)
    BY <1>6, Zenon DEF Strings
  <2>2. \A i \in 0 .. n : Len(f[i]) \in Nat
    BY <2>1
  <2> QED
    BY <2>2, Zenon
<1>9. at[0] = 0 /\ at[n] = Len(f[n]) /\ n \in 0 .. n
  BY <1>2, <1>3
<1>10. \A i \in 1 .. n : at[i] = Len(f[i]) /\ at[i - 1] = Len(f[i - 1])
  BY <1>2
<1> HIDE DEF at
<1>11. Encodes(at, f[n], parts)
  BY <1>6, <1>8, <1>9, <1>10, Zenon DEF Encodes
<1>12. f[n] \in Strings
  BY <1>6, <1>9, Zenon
<1> QED
  BY <1>7, <1>11, <1>12, Zenon

LEMMA PartsAgree ==
  ASSUME NEW p \in Seq(Strings), NEW q \in Seq(Strings), NEW bytes, NEW a, NEW b,
         Encodes(a, bytes, p), Encodes(b, bytes, q),
         NEW i \in Nat, i <= Len(p), i <= Len(q)
  PROVE  a[i] = b[i] /\ (i # 0 => p[i] = q[i])
<1> DEFINE Agree(m) == a[m] = b[m] /\ (m # 0 => p[m] = q[m])
<1>0. Len(p) \in Nat /\ Len(q) \in Nat
  OBVIOUS
<1>1. Agree(0)
  BY DEF Encodes
<1>2. ASSUME NEW m \in 1 .. i, Agree(m - 1) PROVE Agree(m)
  <2>1. m \in 1 .. Len(p) /\ m \in 1 .. Len(q) /\ m - 1 \in 0 .. Len(p)
    BY <1>0
  <2> DEFINE x == a[m - 1]
  <2>2. x \in Nat /\ x = b[m - 1]
    BY <1>2, <2>1 DEF Encodes
  <2>3. PartAt(bytes, x, p[m]) /\ PartAt(bytes, x, q[m])
        /\ a[m] = x + 1 + Len(p[m]) /\ b[m] = x + 1 + Len(q[m])
    BY <2>1, <2>2, Zenon DEF Encodes
  <2>4. p[m] \in Seq(Nat) /\ q[m] \in Seq(Nat)
    BY <2>1 DEF Strings
  <2> HIDE DEF x
  <2>5. Len(p[m]) = Len(q[m])
    BY <2>3, Zenon DEF PartAt
  <2>6. \A k \in 1 .. Len(p[m]) : p[m][k] = q[m][k]
    BY <2>3, <2>5, Zenon DEF PartAt
  <2>7. p[m] = q[m]
    BY <2>4, <2>5, <2>6, SeqEqual, Zenon
  <2> QED
    BY <2>3, <2>7
<1> HIDE DEF Agree
<1>3. Agree(i)
  <2> DEFINE B == { m \in 0 .. i : ~Agree(m) }
  <2>1. ASSUME B # {} PROVE FALSE
    <3>1. B \subseteq Nat
      OBVIOUS
    <3>2. PICK m \in B : \A k \in B : m <= k
      <4> HIDE DEF B
      <4> QED
        BY <2>1, <3>1, LeastNatural, Zenon
    <3>3. m \in 1 .. i /\ m - 1 \in 0 .. i /\ m - 1 \notin B
      BY <1>1, <3>2
    <3> QED
      BY <1>2, <3>2, <3>3
  <2> QED
    BY <2>1
<1> QED
  BY <1>3 DEF Agree

LEMMA NotShorter ==
  ASSUME NEW p \in Seq(Strings), NEW q \in Seq(Strings), NEW bytes, NEW a, NEW b,
         Encodes(a, bytes, p), Encodes(b, bytes, q)
  PROVE  ~(Len(p) < Len(q))
<1> SUFFICES ASSUME Len(p) < Len(q) PROVE FALSE
  OBVIOUS
<1> DEFINE m == Len(p)
<1>1. m \in Nat /\ Len(q) \in Nat /\ m <= m /\ m <= Len(q)
      /\ m + 1 \in 1 .. Len(q) /\ (m + 1) - 1 = m /\ m \in 0 .. Len(q)
  OBVIOUS
<1> HIDE DEF m
<1>2. a[m] = b[m]
  BY <1>1, PartsAgree DEF m
<1>3. a[m] = Len(bytes)
  BY DEF Encodes, m
<1>4. PartAt(bytes, b[(m + 1) - 1], q[m + 1])
  BY <1>1, Zenon DEF Encodes
<1>5. b[m] + 1 + Len(q[m + 1]) <= Len(bytes)
  BY <1>1, <1>4 DEF PartAt
<1>6. b[m] \in Nat
  BY <1>1 DEF Encodes
<1>7. q[m + 1] \in Seq(Nat)
  BY <1>1 DEF Strings
<1>8. Len(q[m + 1]) \in Nat
  BY <1>7
<1>9. b[m] + 1 + Len(q[m + 1]) <= b[m]
  BY <1>2, <1>3, <1>5, Zenon
<1> QED
  BY <1>6, <1>8, <1>9

\* The bytes determine the parts written.
LEMMA WrittenInjective ==
  ASSUME NEW p \in Seq(Strings), NEW q \in Seq(Strings), Written(p) = Written(q)
  PROVE  p = q
<1>1. PICK a : Encodes(a, Written(p), p)
  BY WrittenEncodes, Zenon
<1>2. PICK b : Encodes(b, Written(p), q)
  BY WrittenEncodes, Zenon
<1>3. Len(p) \in Nat /\ Len(q) \in Nat
  OBVIOUS
<1>4. ~(Len(p) < Len(q)) /\ ~(Len(q) < Len(p))
  BY <1>1, <1>2, NotShorter, Zenon
<1>5. Len(p) = Len(q)
  BY <1>3, <1>4
<1>6. ASSUME NEW i \in 1 .. Len(p) PROVE p[i] = q[i]
  <2>1. i \in Nat /\ i <= Len(p) /\ i <= Len(q) /\ i # 0
    BY <1>5
  <2> QED
    BY <1>1, <1>2, <2>1, PartsAgree, Zenon
<1> QED
  BY <1>5, <1>6, SeqEqual, Zenon

-----------------------------------------------------------------------------
(* The fields are sorted, and none is lost.                                *)

LEMMA ConcatElements ==
  ASSUME NEW S, NEW s \in Seq(S), NEW t \in Seq(S)
  PROVE  Elements(s \o t) = Elements(s) \cup Elements(t)
<1> DEFINE c == s \o t
<1>1. Joins(c, s, t)
  BY ConcatJoins, Zenon
<1>2. Len(s) \in Nat /\ Len(t) \in Nat
  OBVIOUS
<1> HIDE DEF c
<1>3. ASSUME NEW k \in 1 .. Len(c) PROVE c[k] \in Elements(s) \cup Elements(t)
  <2>0. Len(c) = Len(s) + Len(t)
    BY <1>1 DEF Joins
  <2>1. CASE k <= Len(s)
    <3>1. k \in 1 .. Len(s)
      BY <1>2, <2>0, <2>1
    <3> QED
      BY <1>1, <3>1, Zenon DEF Joins, Elements
  <2>2. CASE ~(k <= Len(s))
    <3>1. k - Len(s) \in 1 .. Len(t) /\ Len(s) + (k - Len(s)) = k
      BY <1>2, <2>0, <2>2
    <3>2. c[k] = t[k - Len(s)]
      <4>1. c[Len(s) + (k - Len(s))] = t[k - Len(s)]
        BY <1>1, <3>1, Zenon DEF Joins
      <4> QED
        BY <3>1, <4>1
    <3> QED
      BY <3>1, <3>2, Zenon DEF Elements
  <2> QED
    BY <2>1, <2>2
<1>4. ASSUME NEW k \in 1 .. Len(s) PROVE s[k] \in Elements(c)
  <2>1. k \in 1 .. Len(c) /\ c[k] = s[k]
    BY <1>1, <1>2 DEF Joins
  <2> QED
    BY <2>1, Zenon DEF Elements
<1>5. ASSUME NEW k \in 1 .. Len(t) PROVE t[k] \in Elements(c)
  <2>1. Len(s) + k \in 1 .. Len(c) /\ c[Len(s) + k] = t[k]
    BY <1>1, <1>2 DEF Joins
  <2> QED
    BY <2>1, Zenon DEF Elements
<1>6. Elements(c) \subseteq Elements(s) \cup Elements(t)
  BY <1>3, Zenon DEF Elements
<1>7. Elements(s) \subseteq Elements(c) /\ Elements(t) \subseteq Elements(c)
  BY <1>4, <1>5, Zenon DEF Elements
<1> QED
  BY <1>6, <1>7, Zenon DEF c

LEMMA InsertElements ==
  ASSUME NEW S, NEW s \in Seq(S), NEW x \in S
  PROVE  Insert(s, x) \in Seq(S) /\ Elements(Insert(s, x)) = Elements(s) \cup {x}
<1> DEFINE K == { j \in DOMAIN s : ~StringLess(x, s[j]) }
           k == Cardinality(K)
           n == Len(s)
           u == SubSeq(s, 1, k)
           v == SubSeq(s, k + 1, n)
<1>1. n \in Nat /\ DOMAIN s = 1 .. n
  OBVIOUS
<1>2. k \in 0 .. n
  <2>1. IsFiniteSet(1 .. n) /\ Cardinality(1 .. n) = n
    <3>1. 1 \in Int /\ n \in Int
      BY <1>1
    <3>2. IsFiniteSet(1 .. n) /\ Cardinality(1 .. n) = IF 1 > n THEN 0 ELSE n - 1 + 1
      BY <3>1, FS_Interval, Zenon
    <3> QED
      BY <1>1, <3>2
  <2>2. K \subseteq 1 .. n
    BY <1>1
  <2> HIDE DEF K
  <2>3. k \in Nat /\ k <= n
    BY <2>1, <2>2, FS_Subset, FS_CardinalityType, Zenon
  <2> QED
    BY <1>1, <2>3
<1>3. Insert(s, x) = u \o <<x>> \o v
  BY Zenon DEF Insert
<1> HIDE DEF K, k, n
<1>4. u \in Seq(S) /\ v \in Seq(S) /\ u \o v = s
  <2>1. u \in Seq(S) /\ v \in Seq(S)
    BY <1>1, <1>2 DEF n
  <2>2. u \o v = SubSeq(s, 1, n)
    <3>1. 1 \in 1 .. n + 1 /\ k \in 1 - 1 .. n /\ n \in k .. n
      BY <1>1, <1>2
    <3> QED
      BY <1>1, <1>2, <3>1, ConcatAdjacentSubSeq, Zenon DEF n
  <2>3. SubSeq(s, 1, n) = s
    BY SubSeqFull, Zenon DEF n
  <2> QED
    BY <2>1, <2>2, <2>3, Zenon
<1> DEFINE one == <<x>>
           w == u \o one
<1>5. one \in Seq(S) /\ Elements(one) = {x}
  BY DEF Elements
<1> HIDE DEF u, v, one
<1>6. w \in Seq(S) /\ Elements(w) = Elements(u) \cup Elements(one)
  <2>1. w \in Seq(S)
    BY <1>4, <1>5, ConcatJoins, Zenon
  <2> QED
    BY <1>4, <1>5, <2>1, ConcatElements
<1> HIDE DEF w
<1>7. w \o v \in Seq(S) /\ Elements(w \o v) = Elements(w) \cup Elements(v)
  <2>1. w \o v \in Seq(S)
    BY <1>4, <1>6, ConcatJoins, Zenon
  <2> QED
    BY <1>4, <1>6, <2>1, ConcatElements
<1>8. Elements(s) = Elements(u) \cup Elements(v)
  BY <1>4, ConcatElements, ZenonT(30)
<1>9. Insert(s, x) = w \o v
  BY <1>3, Zenon DEF w, one
<1> QED
  BY <1>5, <1>6, <1>7, <1>8, <1>9, Zenon

SortLoop(f, list) ==
  f = [i \in 0 .. Len(list) |-> IF i = 0 THEN <<>> ELSE Insert(f[i - 1], list[i])]

LEMMA SortIsLoop ==
  ASSUME NEW list
  PROVE  SortStrings(list) = (CHOOSE f : SortLoop(f, list))[Len(list)]
BY Zenon DEF SortStrings, SortLoop

LEMMA SortLoopTurn ==
  ASSUME NEW list, NEW f, SortLoop(f, list), NEW i \in 0 .. Len(list)
  PROVE  f[i] = IF i = 0 THEN <<>> ELSE Insert(f[i - 1], list[i])
BY Zenon DEF SortLoop

LEMMA SortLoopExists ==
  ASSUME NEW S, NEW list \in Seq(S)
  PROVE  \E f : SortLoop(f, list)
<1> DEFINE n == Len(list)
           V == Seq(S)
           turn == [i \in 1 .. n |-> [s \in V |-> Insert(s, list[i])]]
<1>1. <<>> \in V /\ n \in Nat /\ \A i \in 1 .. n : list[i] \in S
  OBVIOUS
<1>2. \A i \in 1 .. n, s \in V : Insert(s, list[i]) \in V
  BY <1>1, InsertElements, Zenon
<1>3. turn \in Turns(V, n)
  BY <1>2, Zenon DEF Turns
<1> HIDE DEF n, V, turn
<1>5. PICK f : Iterates(f, V, n, <<>>, turn)
  BY <1>1, <1>3, LoopHasValues, Zenon
<1>6. ASSUME NEW i \in 0 .. n, i # 0 PROVE f[i] = Insert(f[i - 1], list[i])
  <2>1. i \in 1 .. n /\ i - 1 \in 0 .. n
    BY <1>1, <1>6
  <2>2. f[i - 1] \in V /\ f[i] = turn[i][f[i - 1]]
    BY <1>5, <2>1 DEF Iterates
  <2>3. turn[i] = [s \in V |-> Insert(s, list[i])]
    BY <2>1, Zenon DEF turn
  <2> QED
    BY <2>2, <2>3, Zenon
<1>7. f = [i \in 0 .. n |-> IF i = 0 THEN <<>> ELSE Insert(f[i - 1], list[i])]
  BY <1>5, <1>6, Zenon DEF Iterates
<1> QED
  BY <1>7, Zenon DEF SortLoop, n

LEMMA SortKeepsElements ==
  ASSUME NEW S, NEW list \in Seq(S)
  PROVE  SortStrings(list) \in Seq(S) /\ Elements(SortStrings(list)) = Elements(list)
<1> DEFINE n == Len(list)
           f == CHOOSE g : SortLoop(g, list)
           Good(i) == f[i] \in Seq(S) /\ Elements(f[i]) = { list[k] : k \in 1 .. i }
<1>1. SortLoop(f, list)
  BY SortLoopExists, Zenon
<1>2. n \in Nat /\ \A i \in 1 .. n : list[i] \in S
  OBVIOUS
<1> HIDE DEF f
<1>3. Good(0)
  <2>1. f[0] = <<>>
    BY <1>1, <1>2, SortLoopTurn
  <2>2. <<>> \in Seq(S) /\ Elements(<<>>) = {} /\ { list[k] : k \in 1 .. 0 } = {}
    BY DEF Elements
  <2> QED
    BY <2>1, <2>2, Zenon
<1>4. ASSUME NEW i \in 1 .. n, Good(i - 1) PROVE Good(i)
  <2>1. i \in 0 .. n /\ i # 0 /\ 1 .. i = 1 .. i - 1 \cup {i}
    BY <1>2
  <2>2. f[i] = Insert(f[i - 1], list[i])
    BY <1>1, <2>1, SortLoopTurn, Zenon
  <2>3. f[i] \in Seq(S) /\ Elements(f[i]) = { list[k] : k \in 1 .. i - 1 } \cup {list[i]}
    <3>1. f[i - 1] \in Seq(S) /\ list[i] \in S
      BY <1>2, <1>4
    <3>2. f[i] \in Seq(S)
      BY <2>2, <3>1, InsertElements
    <3>3. Elements(f[i]) = Elements(f[i - 1]) \cup {list[i]}
      BY <2>2, <3>1, InsertElements
    <3>4. Elements(f[i - 1]) = { list[k] : k \in 1 .. i - 1 }
      BY <1>4
    <3> QED
      BY <3>2, <3>3, <3>4
  <2>4. { list[k] : k \in 1 .. i } = { list[k] : k \in 1 .. i - 1 } \cup {list[i]}
    BY <2>1, Zenon
  <2> QED
    BY <2>3, <2>4, Zenon
<1> HIDE DEF Good
<1>5. Good(n)
  <2> DEFINE B == { i \in 0 .. n : ~Good(i) }
  <2>1. ASSUME B # {} PROVE FALSE
    <3>1. B \subseteq Nat
      OBVIOUS
    <3>2. PICK m \in B : \A k \in B : m <= k
      <4> HIDE DEF B
      <4> QED
        BY <2>1, <3>1, LeastNatural, Zenon
    <3>3. m \in 1 .. n /\ m - 1 \in 0 .. n /\ m - 1 \notin B
      BY <1>3, <3>2
    <3> QED
      BY <1>4, <3>2, <3>3
  <2> QED
    BY <1>2, <2>1
<1>6. SortStrings(list) = f[n]
  BY SortIsLoop, Zenon DEF f
<1> QED
  BY <1>5, <1>6, Zenon DEF Good, Elements

-----------------------------------------------------------------------------
(* One fingerprint, one incident.                                          *)

LEMMA LineStrings ==
  ASSUME NEW i \in DOMAIN RuleList, NEW e \in Lines
  PROVE  LET r == RuleList[i]
         IN /\ rawIdentity(e) \in Strings
            /\ Normalize(r, e.message) \in Strings
            /\ r.id \in Strings /\ e.container \in Strings
            /\ r.fields \in Seq(Strings)
            /\ r.mode \in {"exact", "normalized", "fields", "rule"}
            /\ \A field : fieldValue(r.id, e, field) \in Strings
<1> DEFINE r == RuleList[i]
<1>1. /\ r.id \in Strings /\ r.fields \in Seq(Strings)
      /\ r.mode \in {"exact", "normalized", "fields", "rule"}
      /\ Normalize(r, e.message) \in Strings
  BY DataAssumption, Zenon
<1>2. /\ e.container \in Strings /\ e.raw \in Strings /\ e.message \in Strings
      /\ \A name \in DOMAIN e.fields : e.fields[name] \in Strings
  BY DataAssumption, Zenon
<1> HIDE DEF r
<1>3. <<>> \in Strings
  BY DEF Strings
<1>4. \A field : Field(e, field) \in Strings
  BY <1>2, <1>3, Zenon DEF Field
<1>5. ASSUME NEW field PROVE fieldValue(r.id, e, field) \in Strings
  <2>0. Word.rule # Word.container
    <3>1. Word.rule = <<101>> /\ Word.container = <<102>>
      BY DEF Word
    <3>2. <<101>> # <<102>>
      OBVIOUS
    <3> QED
      BY <3>1, <3>2
  <2>1. CASE field = Word.rule
    <3>1. fieldValue(r.id, e, field) = r.id
      BY <2>0, <2>1 DEF fieldValue
    <3> QED
      BY <1>1, <3>1
  <2>2. CASE field # Word.rule /\ field = Word.container
    BY <1>2, <2>2 DEF fieldValue
  <2>3. CASE field # Word.rule /\ field # Word.container
    BY <1>4, <2>3 DEF fieldValue
  <2> QED
    BY <2>1, <2>2, <2>3
<1>6. rawIdentity(e) \in Strings
  BY <1>2, Zenon DEF rawIdentity
<1> QED
  BY <1>1, <1>2, <1>5, <1>6, Zenon DEF r

FieldParts(r, e) ==
  LET sorted == SortStrings(r.fields)
  IN [k \in 1 .. 2 * Len(sorted) |->
        IF k % 2 = 1 THEN sorted[(k + 1) \div 2] ELSE fieldValue(r.id, e, sorted[k \div 2])]

LEMMA PartsByMode ==
  ASSUME NEW r, NEW e
  PROVE  /\ r.mode = "exact" => Parts(r, e) = <<Word.raw, rawIdentity(e)>>
         /\ r.mode = "normalized" => Parts(r, e) = <<Word.message, Normalize(r, e.message)>>
         /\ r.mode = "fields" => Parts(r, e) = FieldParts(r, e)
         /\ r.mode = "rule" => Parts(r, e) = <<>>
<1>1. r.mode = "exact" => Parts(r, e) = <<Word.raw, rawIdentity(e)>>
  BY DEF Parts
<1>2. r.mode = "normalized" => Parts(r, e) = <<Word.message, Normalize(r, e.message)>>
  BY DEF Parts
<1>3. r.mode = "fields" => Parts(r, e) = FieldParts(r, e)
  BY DEF Parts, FieldParts
<1>4. r.mode = "rule" => Parts(r, e) = <<>>
  BY DEF Parts
<1> QED
  BY <1>1, <1>2, <1>3, <1>4

LEMMA WhatByMode ==
  ASSUME NEW r, NEW e
  PROVE  /\ r.mode = "exact" => What(r, e) = rawIdentity(e)
         /\ r.mode = "normalized" => What(r, e) = Normalize(r, e.message)
         /\ r.mode = "fields" =>
              What(r, e) = [field \in { r.fields[k] : k \in DOMAIN r.fields } |->
                              fieldValue(r.id, e, field)]
         /\ r.mode = "rule" => What(r, e) = <<>>
<1>1. r.mode = "exact" => What(r, e) = rawIdentity(e)
  BY DEF What
<1>2. r.mode = "normalized" => What(r, e) = Normalize(r, e.message)
  BY DEF What
<1>3. r.mode = "fields" =>
        What(r, e) = [field \in { r.fields[k] : k \in DOMAIN r.fields } |->
                        fieldValue(r.id, e, field)]
  BY DEF What
<1>4. r.mode = "rule" => What(r, e) = <<>>
  BY DEF What
<1> QED
  BY <1>1, <1>2, <1>3, <1>4

LEMMA FieldPartsAre ==
  ASSUME NEW i \in DOMAIN RuleList, NEW e \in Lines
  PROVE  LET r == RuleList[i]
             sorted == SortStrings(r.fields)
         IN /\ FieldParts(r, e) \in Seq(Strings)
            /\ Len(FieldParts(r, e)) = 2 * Len(sorted) /\ Len(sorted) \in Nat
            /\ Elements(sorted) = { r.fields[k] : k \in DOMAIN r.fields }
            /\ \A k \in 1 .. Len(sorted) :
                 FieldParts(r, e)[2 * k] = fieldValue(r.id, e, sorted[k])
<1> DEFINE r == RuleList[i]
           sorted == SortStrings(r.fields)
           n == Len(sorted)
           v(x) == fieldValue(r.id, e, x)
           p == [k \in 1 .. 2 * n |-> IF k % 2 = 1 THEN sorted[(k + 1) \div 2] ELSE v(sorted[k \div 2])]
<1>1. r.fields \in Seq(Strings) /\ \A x : v(x) \in Strings
  BY LineStrings, Zenon
<1> HIDE DEF r
<1>2. sorted \in Seq(Strings) /\ Elements(sorted) = Elements(r.fields)
  BY <1>1, SortKeepsElements
<1>3. Elements(r.fields) = { r.fields[k] : k \in DOMAIN r.fields }
  BY <1>1 DEF Elements
<1>4. FieldParts(r, e) = p
  BY Zenon DEF FieldParts
<1> HIDE DEF sorted, v
<1>5. n \in Nat /\ \A k \in 1 .. n : sorted[k] \in Strings
  BY <1>2
<1> HIDE DEF n
<1>6. \A k \in 1 .. 2 * n : k % 2 = 1 => (k + 1) \div 2 \in 1 .. n
  BY <1>5
<1>7. \A k \in 1 .. 2 * n : p[k] \in Strings
  BY <1>1, <1>5, <1>6, Zenon
<1>8. p \in Seq(Strings) /\ Len(p) = 2 * n
  BY <1>5, <1>7
<1>9. \A k \in 1 .. n : 2 * k \in 1 .. 2 * n /\ (2 * k) % 2 # 1 /\ (2 * k) \div 2 = k
  BY <1>5
<1>10. \A k \in 1 .. n : p[2 * k] = v(sorted[k])
  BY <1>9
<1> HIDE DEF p
<1> QED
  BY <1>2, <1>3, <1>4, <1>5, <1>8, <1>10 DEF n, r, sorted, v
LEMMA PartsStrings ==
  ASSUME NEW i \in DOMAIN RuleList, NEW e \in Lines
  PROVE  Parts(RuleList[i], e) \in Seq(Strings)
<1> DEFINE r == RuleList[i]
<1>1. /\ rawIdentity(e) \in Strings /\ Normalize(r, e.message) \in Strings
      /\ r.mode \in {"exact", "normalized", "fields", "rule"}
  BY LineStrings, Zenon
<1>2. Word.raw \in Strings /\ Word.message \in Strings
  BY DEF Word, Strings
<1>3. FieldParts(r, e) \in Seq(Strings)
  BY FieldPartsAre, Zenon
<1>4. \A a, b \in Strings : <<a, b>> \in Seq(Strings)
  OBVIOUS
<1>5. <<>> \in Seq(Strings)
  OBVIOUS
<1> HIDE DEF r
<1>6. CASE r.mode = "exact"
  BY <1>1, <1>2, <1>4, <1>6, PartsByMode, Zenon DEF r
<1>7. CASE r.mode = "normalized"
  BY <1>1, <1>2, <1>4, <1>7, PartsByMode, Zenon DEF r
<1>8. CASE r.mode = "fields"
  BY <1>3, <1>8, PartsByMode, Zenon DEF r
<1>9. CASE r.mode = "rule"
  BY <1>5, <1>9, PartsByMode, Zenon DEF r
<1> QED
  BY <1>1, <1>6, <1>7, <1>8, <1>9

FirstParts(r, e) ==
  <<Word.rule, r.id, Word.container, e.container, Word.mode, Word[r.mode]>>

LEMMA FirstPartsStrings ==
  ASSUME NEW i \in DOMAIN RuleList, NEW e \in Lines
  PROVE  /\ FirstParts(RuleList[i], e) \in Seq(Strings)
         /\ Len(FirstParts(RuleList[i], e)) = 6
         /\ FirstParts(RuleList[i], e)[2] = RuleList[i].id
         /\ FirstParts(RuleList[i], e)[4] = e.container
<1> DEFINE r == RuleList[i]
<1>1. /\ r.id \in Strings /\ e.container \in Strings
      /\ r.mode \in {"exact", "normalized", "fields", "rule"}
  BY LineStrings, Zenon
<1>2. Word.rule \in Strings /\ Word.container \in Strings /\ Word.mode \in Strings
  BY DEF Word, Strings
<1>3. Word[r.mode] \in Strings
  <2>1. Word["exact"] \in Strings /\ Word["normalized"] \in Strings
        /\ Word["fields"] \in Strings /\ Word["rule"] \in Strings
    BY DEF Word, Strings
  <2> QED
    BY <1>1, <2>1
<1> HIDE DEF r
<1> QED
  BY <1>1, <1>2, <1>3 DEF FirstParts, r

\* The parts of two events are the same exactly when the rules' IDs, the containers and
\* what the mode adds are.
LEMMA AllPartsAre ==
  ASSUME NEW i \in DOMAIN RuleList, NEW e \in Lines
  PROVE  /\ AllParts(RuleList[i], e) \in Seq(Strings)
         /\ Len(AllParts(RuleList[i], e)) = 6 + Len(Parts(RuleList[i], e))
         /\ AllParts(RuleList[i], e)[2] = RuleList[i].id
         /\ AllParts(RuleList[i], e)[4] = e.container
         /\ \A k \in 1 .. Len(Parts(RuleList[i], e)) :
              AllParts(RuleList[i], e)[6 + k] = Parts(RuleList[i], e)[k]
<1> DEFINE a == FirstParts(RuleList[i], e)
           b == Parts(RuleList[i], e)
<1>1. a \in Seq(Strings) /\ Len(a) = 6 /\ a[2] = RuleList[i].id /\ a[4] = e.container
  BY FirstPartsStrings, Zenon
<1>2. b \in Seq(Strings)
  BY PartsStrings, Zenon
<1>3. AllParts(RuleList[i], e) = a \o b
  BY Zenon DEF AllParts, FirstParts
<1> HIDE DEF a, b
<1>4. a \o b \in Seq(Strings) /\ Joins(a \o b, a, b)
  BY <1>1, <1>2, ConcatJoins, Zenon
<1>5. 2 \in 1 .. 6 /\ 4 \in 1 .. 6
  OBVIOUS
<1>6. /\ Len(a \o b) = 6 + Len(b) /\ (a \o b)[2] = a[2] /\ (a \o b)[4] = a[4]
      /\ \A k \in 1 .. Len(b) : (a \o b)[6 + k] = b[k]
  BY <1>1, <1>4, <1>5, Zenon DEF Joins
<1> QED
  BY <1>1, <1>3, <1>4, <1>6, Zenon DEF b

LEMMA SamePartsSameWhat ==
  ASSUME NEW i \in DOMAIN RuleList, NEW d \in Lines, NEW e \in Lines,
         Parts(RuleList[i], d) = Parts(RuleList[i], e)
  PROVE  What(RuleList[i], d) = What(RuleList[i], e)
<1> DEFINE r == RuleList[i]
           sorted == SortStrings(r.fields)
<1>1. r.mode \in {"exact", "normalized", "fields", "rule"}
  BY LineStrings, Zenon
<1>2. /\ Elements(sorted) = { r.fields[k] : k \in DOMAIN r.fields }
      /\ \A k \in 1 .. Len(sorted) : FieldParts(r, d)[2 * k] = fieldValue(r.id, d, sorted[k])
      /\ \A k \in 1 .. Len(sorted) : FieldParts(r, e)[2 * k] = fieldValue(r.id, e, sorted[k])
  BY FieldPartsAre, Zenon
<1> HIDE DEF r, sorted
<1>3. Parts(r, d) = Parts(r, e)
  BY Zenon DEF r
<1>4. \A a, b, c : <<a, b>> = <<a, c>> => b = c
  OBVIOUS
<1>5. CASE r.mode = "exact"
  <2>1. /\ Parts(r, d) = <<Word.raw, rawIdentity(d)>>
        /\ Parts(r, e) = <<Word.raw, rawIdentity(e)>>
    BY <1>5, PartsByMode, Zenon
  <2>2. What(r, d) = rawIdentity(d) /\ What(r, e) = rawIdentity(e)
    BY <1>5, WhatByMode, Zenon
  <2>3. rawIdentity(d) = rawIdentity(e)
    BY <1>3, <1>4, <2>1, Zenon
  <2> QED
    BY <2>2, <2>3 DEF r
<1>6. CASE r.mode = "normalized"
  <2>1. /\ Parts(r, d) = <<Word.message, Normalize(r, d.message)>>
        /\ Parts(r, e) = <<Word.message, Normalize(r, e.message)>>
    BY <1>6, PartsByMode, Zenon
  <2>2. What(r, d) = Normalize(r, d.message) /\ What(r, e) = Normalize(r, e.message)
    BY <1>6, WhatByMode, Zenon
  <2>3. Normalize(r, d.message) = Normalize(r, e.message)
    BY <1>3, <1>4, <2>1, Zenon
  <2> QED
    BY <2>2, <2>3 DEF r
<1>7. CASE r.mode = "fields"
  <2> DEFINE F == { r.fields[k] : k \in DOMAIN r.fields }
  <2>1. FieldParts(r, d) = FieldParts(r, e)
    BY <1>3, <1>7, PartsByMode, ZenonT(30)
  <2>2. ASSUME NEW field \in F PROVE fieldValue(r.id, d, field) = fieldValue(r.id, e, field)
    <3>1. PICK k \in 1 .. Len(sorted) : field = sorted[k]
      BY <1>2, Zenon DEF Elements
    <3> QED
      BY <1>2, <2>1, <3>1, Zenon
  <2>3. /\ What(r, d) = [field \in F |-> fieldValue(r.id, d, field)]
        /\ What(r, e) = [field \in F |-> fieldValue(r.id, e, field)]
    BY <1>7, WhatByMode, Zenon
  <2> HIDE DEF F
  <2>4. What(r, d) = What(r, e)
    BY <2>2, <2>3, Zenon
  <2> QED
    BY <2>4 DEF r
<1>8. CASE r.mode = "rule"
  BY <1>8, WhatByMode, Zenon DEF r
<1> QED
  BY <1>1, <1>5, <1>6, <1>7, <1>8

LEMMA SameWhatSameParts ==
  ASSUME NEW i \in DOMAIN RuleList, NEW d \in Lines, NEW e \in Lines,
         What(RuleList[i], d) = What(RuleList[i], e)
  PROVE  Parts(RuleList[i], d) = Parts(RuleList[i], e)
<1> DEFINE r == RuleList[i]
           sorted == SortStrings(r.fields)
           n == Len(sorted)
<1>1. r.mode \in {"exact", "normalized", "fields", "rule"}
  BY LineStrings, Zenon
<1>2. n \in Nat /\ Elements(sorted) = { r.fields[k] : k \in DOMAIN r.fields }
  BY FieldPartsAre, Zenon
<1>3. What(r, d) = What(r, e)
  OBVIOUS
<1> HIDE DEF r, sorted
<1>5. CASE r.mode = "exact"
  <2>1. /\ Parts(r, d) = <<Word.raw, rawIdentity(d)>>
        /\ Parts(r, e) = <<Word.raw, rawIdentity(e)>>
    BY <1>5, PartsByMode, Zenon
  <2>2. What(r, d) = rawIdentity(d) /\ What(r, e) = rawIdentity(e)
    BY <1>5, WhatByMode, Zenon
  <2>3. rawIdentity(d) = rawIdentity(e)
    BY <1>3, <2>2, Zenon
  <2>4. Parts(r, d) = Parts(r, e)
    BY <2>1, <2>3
  <2> QED
    BY <2>4 DEF r
<1>6. CASE r.mode = "normalized"
  <2>1. /\ Parts(r, d) = <<Word.message, Normalize(r, d.message)>>
        /\ Parts(r, e) = <<Word.message, Normalize(r, e.message)>>
    BY <1>6, PartsByMode, Zenon
  <2>2. What(r, d) = Normalize(r, d.message) /\ What(r, e) = Normalize(r, e.message)
    BY <1>6, WhatByMode, Zenon
  <2>3. Normalize(r, d.message) = Normalize(r, e.message)
    BY <1>3, <2>2, Zenon
  <2>4. Parts(r, d) = Parts(r, e)
    BY <2>1, <2>3
  <2> QED
    BY <2>4 DEF r
<1>7. CASE r.mode = "fields"
  <2> DEFINE F == { r.fields[k] : k \in DOMAIN r.fields }
  <2>0. /\ What(r, d) = [field \in F |-> fieldValue(r.id, d, field)]
        /\ What(r, e) = [field \in F |-> fieldValue(r.id, e, field)]
    BY <1>7, WhatByMode, ZenonT(30)
  <2>1. [field \in F |-> fieldValue(r.id, d, field)] = [field \in F |-> fieldValue(r.id, e, field)]
    <3> HIDE DEF F
    <3> QED
      BY <1>3, <2>0, Zenon
  <2>2. \A field \in F : fieldValue(r.id, d, field) = fieldValue(r.id, e, field)
    <3> HIDE DEF F
    <3> QED
      BY <2>1, Zenon
  <2>3. \A k \in 1 .. n : sorted[k] \in F
    BY <1>2, Zenon DEF Elements
  <2>4. \A k \in 1 .. 2 * n : k % 2 # 1 => k \div 2 \in 1 .. n
    BY <1>2
  <2> HIDE DEF F, n
  <2>5. \A k \in 1 .. 2 * n : k % 2 # 1 =>
          fieldValue(r.id, d, sorted[k \div 2]) = fieldValue(r.id, e, sorted[k \div 2])
    BY <2>2, <2>3, <2>4, Zenon
  <2>6. FieldParts(r, d) = FieldParts(r, e)
    BY <2>5, Zenon DEF FieldParts, sorted, n
  <2> QED
    BY <1>7, <2>6, PartsByMode, Zenon DEF r
<1>8. CASE r.mode = "rule"
  BY <1>8, PartsByMode, Zenon DEF r
<1> QED
  BY <1>1, <1>5, <1>6, <1>7, <1>8

\* Two events have the same fingerprint exactly when they are the same incident.
LEMMA FingerprintIsIncident ==
  ASSUME NEW i \in DOMAIN RuleList, NEW j \in DOMAIN RuleList, NEW d \in Lines, NEW e \in Lines
  PROVE  Fingerprint(RuleList[i], d) = Fingerprint(RuleList[j], e)
           <=> Incident(RuleList[i], d) = Incident(RuleList[j], e)
<1> DEFINE p == AllParts(RuleList[i], d)
           q == AllParts(RuleList[j], e)
           s == Parts(RuleList[i], d)
           t == Parts(RuleList[j], e)
<1>1. /\ p \in Seq(Strings) /\ Len(p) = 6 + Len(s) /\ p[2] = RuleList[i].id
      /\ p[4] = d.container /\ \A k \in 1 .. Len(s) : p[6 + k] = s[k]
  BY AllPartsAre, Zenon
<1>2. /\ q \in Seq(Strings) /\ Len(q) = 6 + Len(t) /\ q[2] = RuleList[j].id
      /\ q[4] = e.container /\ \A k \in 1 .. Len(t) : q[6 + k] = t[k]
  BY AllPartsAre, Zenon
<1>3. s \in Seq(Strings) /\ t \in Seq(Strings)
  BY PartsStrings, Zenon
<1>4. ASSUME Fingerprint(RuleList[i], d) = Fingerprint(RuleList[j], e)
      PROVE  Incident(RuleList[i], d) = Incident(RuleList[j], e)
  <2>1. Written(p) = Written(q)
    BY <1>4, IdentityAssumption, Zenon DEF Hashed
  <2> HIDE DEF p, q, s, t
  <2>2. p = q
    BY <1>1, <1>2, <2>1, WrittenInjective, Zenon
  <2>3. i = j /\ d.container = e.container
    BY <1>1, <1>2, <2>2, IdentityAssumption, ZenonT(40)
  <2>4. Len(s) = Len(t)
    BY <1>1, <1>2, <1>3, <2>2
  <2>5. \A k \in 1 .. Len(s) : s[k] = t[k]
    BY <1>1, <1>2, <2>2, <2>4, Zenon
  <2>6. s = t
    BY <1>3, <2>4, <2>5, SeqEqual, Zenon
  <2>7. What(RuleList[i], d) = What(RuleList[j], e)
    BY <2>3, <2>6, SamePartsSameWhat, Zenon DEF s, t
  <2> QED
    BY <2>3, <2>7, Zenon DEF Incident
<1>5. ASSUME Incident(RuleList[i], d) = Incident(RuleList[j], e)
      PROVE  Fingerprint(RuleList[i], d) = Fingerprint(RuleList[j], e)
  <2>1. /\ RuleList[i].id = RuleList[j].id /\ d.container = e.container
        /\ What(RuleList[i], d) = What(RuleList[j], e)
    BY <1>5 DEF Incident
  <2>2. i = j
    BY <2>1, IdentityAssumption, Zenon
  <2>3. s = t
    BY <2>1, <2>2, SameWhatSameParts, Zenon
  <2>4. AllParts(RuleList[i], d) = AllParts(RuleList[j], e)
    BY <2>1, <2>2, <2>3, Zenon DEF AllParts
  <2> QED
    BY <2>4, Zenon DEF Fingerprint, Hashed
<1> QED
  BY <1>4, <1>5

-----------------------------------------------------------------------------
(* The members of the groups.                                              *)

\* The incident that gives a group its fingerprint, and no other.
OneIncident(f, m) ==
  \E i \in DOMAIN RuleList, e \in Lines :
    f = Fingerprint(RuleList[i], e) /\ m = {Incident(RuleList[i], e)}

MInv ==
  /\ DOMAIN members = Active
  /\ \A f \in Active : OneIncident(f, members[f])

LEMMA RecordedGroups ==
  ASSUME NEW fp, NEW timestamp, NEW sample, Record(fp, timestamp, sample)
  PROVE  DOMAIN groups' \subseteq Active \cup {fp}
<1> DEFINE live == evictExpired
           room == IF fp \in DOMAIN live THEN live ELSE evictForInsert(live)
<1>1. DOMAIN live \subseteq Active
  BY DEF evictExpired, Keep
<1>2. DOMAIN room \subseteq DOMAIN live
  BY DEF evictForInsert, Keep
<1>3. DOMAIN groups' = DOMAIN room \cup {fp}
  BY Zenon DEF Record
<1> QED
  BY <1>1, <1>2, <1>3, Zenon

LEMMA RecordMatchMembers ==
  ASSUME MInv, NEW i \in DOMAIN RuleList, NEW e \in Lines, NEW timestamp,
         RecordMatch(i, e, timestamp)
  PROVE  MInv'
<1> DEFINE f == Fingerprint(RuleList[i], e)
           earlier == IF f \in Active /\ ~Expired(groups[f]) THEN members[f] ELSE {}
           one == {Incident(RuleList[i], e)}
<1>1. members' = [g \in DOMAIN groups' |-> IF g = f THEN earlier \cup one ELSE members[g]]
  BY Zenon DEF RecordMatch
<1>2. DOMAIN groups' \subseteq Active \cup {f}
  BY RecordedGroups, Zenon DEF RecordMatch
<1>3. earlier \cup one = one
  <2>1. CASE f \in Active
    <3>1. PICK j \in DOMAIN RuleList, d \in Lines :
            f = Fingerprint(RuleList[j], d) /\ members[f] = {Incident(RuleList[j], d)}
      BY <2>1, Zenon DEF MInv, OneIncident
    <3>2. Incident(RuleList[j], d) = Incident(RuleList[i], e)
      BY <3>1, FingerprintIsIncident, ZenonT(40)
    <3>3. earlier = one \/ earlier = {}
      BY <3>1, <3>2, Zenon
    <3> QED
      BY <3>3, Zenon
  <2>2. CASE f \notin Active
    BY <2>2, Zenon
  <2> QED
    BY <2>1, <2>2
<1> HIDE DEF earlier
<1>4. DOMAIN members' = Active'
  BY <1>1, Zenon DEF Active
<1>5. ASSUME NEW g \in Active'
      PROVE  OneIncident(g, members'[g])
  <2>1. g \in DOMAIN groups'
    BY Zenon DEF Active
  <2>2. CASE g = f
    <3>1. members'[g] = one
      BY <1>1, <1>3, <2>1, <2>2, Zenon
    <3> QED
      BY <2>2, <3>1, Zenon DEF OneIncident
  <2>3. CASE g # f
    <3>1. g \in Active /\ members'[g] = members[g]
      BY <1>1, <1>2, <2>1, <2>3, Zenon
    <3> QED
      BY <3>1, Zenon DEF MInv
  <2> QED
    BY <2>2, <2>3
<1> QED
  BY <1>4, <1>5, Zenon DEF MInv

LEMMA DNextMembers == DInv /\ MInv /\ [DNext]_dvars => MInv'
<1> SUFFICES ASSUME DInv, MInv, [DNext]_dvars PROVE MInv'
  OBVIOUS
<1>1. ASSUME members' = members, groups' = groups PROVE MInv'
  BY <1>1, Zenon DEF MInv, Active
<1>2. CASE UNCHANGED dvars
  BY <1>1, <1>2, Zenon DEF dvars
<1>3. ASSUME NEW e \in Lines, NEW timestamp \in EventTimes, Process(e, timestamp)
      PROVE  MInv'
  <2> DEFINE m == Matched(e)
  <2>1. m \in Seq(DOMAIN RuleList)
    BY MatchedCounts
  <2>2. CASE m = <<>>
    BY <1>1, <1>3, <2>2, Zenon DEF Process
  <2>3. CASE m # <<>>
    <3>1. RecordMatch(Head(m), e, timestamp)
      BY <1>3, <2>3, Zenon DEF Process
    <3> HIDE DEF m
    <3>2. Head(m) \in DOMAIN RuleList
      BY <2>1, <2>3, HeadAndRest, Zenon
    <3> QED
      BY <3>1, <3>2, RecordMatchMembers, Zenon
  <2> QED
    BY <2>2, <2>3
<1>4. CASE ProcessNext
  <2> DEFINE T == [rule : DOMAIN RuleList, timestamp : EventTimes]
  <2>1. /\ todo \in Seq(T) /\ todo # <<>> /\ line \in Lines
        /\ RecordMatch(Head(todo).rule, line, Head(todo).timestamp)
    BY <1>4, Zenon DEF DInv, ProcessNext
  <2>2. Head(todo) \in T
    <3> HIDE DEF T
    <3> QED
      BY <2>1, HeadAndRest, Zenon
  <2>3. Head(todo).rule \in DOMAIN RuleList
    BY <2>2
  <2> QED
    BY <2>1, <2>3, RecordMatchMembers, Zenon
<1>5. CASE Aside
  <2>1. members' = Keep(members, DOMAIN groups')
    BY <1>5, Zenon DEF Aside
  <2>2. DOMAIN groups' \subseteq Active
    <3>1. CASE Tick
      BY <3>1, Zenon DEF Tick, Active
    <3>2. CASE LenOrState
      BY <3>2 DEF LenOrState, evictExpired, Keep, Active
    <3> QED
      BY <1>5, <3>1, <3>2, Zenon DEF Aside
  <2>3. DOMAIN members' = Active'
    BY <2>1, Zenon DEF Keep, Active
  <2>4. ASSUME NEW g \in Active' PROVE g \in Active /\ members'[g] = members[g]
    BY <2>1, <2>2, Zenon DEF Keep, Active
  <2> QED
    BY <2>3, <2>4, Zenon DEF MInv
<1> QED
  BY <1>2, <1>3, <1>4, <1>5, Zenon DEF DNext

\* Fingerprint and the aggregator's map: a group holds events of one incident only, and
\* an incident has one group.  It rests on the length that writePart puts before each
\* part, on unique rule IDs and on sha256 not colliding.
THEOREM DetectionOneIncidentPerGroup == DSpec => []OneIncidentPerGroup
<1>1. DInit => MInv
  <2> SUFFICES ASSUME DInit PROVE MInv
    OBVIOUS
  <2>1. members = << >> /\ groups = << >>
    BY Zenon DEF DInit, Init
  <2>2. DOMAIN members = {} /\ Active = {}
    BY <2>1 DEF Active
  <2> QED
    BY <2>2, Zenon DEF MInv
<1>2. MInv => OneIncidentPerGroup
  <2> SUFFICES ASSUME MInv PROVE OneIncidentPerGroup
    OBVIOUS
  <2>1. ASSUME NEW f \in Active PROVE Cardinality(members[f]) = 1
    <3>0. OneIncident(f, members[f])
      BY Zenon DEF MInv
    <3>1. PICK i \in DOMAIN RuleList, e \in Lines : members[f] = {Incident(RuleList[i], e)}
      BY <3>0, Zenon DEF OneIncident
    <3> QED
      BY <3>1, FS_Singleton, Zenon
  <2>2. ASSUME NEW f \in Active, NEW g \in Active, members[f] = members[g] PROVE f = g
    <3>1. PICK i \in DOMAIN RuleList, d \in Lines :
            f = Fingerprint(RuleList[i], d) /\ members[f] = {Incident(RuleList[i], d)}
      BY Zenon DEF MInv, OneIncident
    <3>2. PICK j \in DOMAIN RuleList, e \in Lines :
            g = Fingerprint(RuleList[j], e) /\ members[g] = {Incident(RuleList[j], e)}
      BY Zenon DEF MInv, OneIncident
    <3>3. Incident(RuleList[i], d) = Incident(RuleList[j], e)
      <4>1. {Incident(RuleList[i], d)} = {Incident(RuleList[j], e)}
        BY <2>2, <3>1, <3>2
      <4>2. \A a, b : {a} = {b} => a = b
        OBVIOUS
      <4> QED
        BY <4>1, <4>2, Zenon
    <3>4. Fingerprint(RuleList[i], d) = Fingerprint(RuleList[j], e)
      BY <3>3, FingerprintIsIncident, ZenonT(40)
    <3> QED
      BY <3>1, <3>2, <3>4
  <2> QED
    BY <2>1, <2>2, Zenon DEF OneIncidentPerGroup
<1> QED
  BY <1>1, <1>2, AlwaysDInv, DNextMembers, PTL DEF DSpec

-----------------------------------------------------------------------------
(* The aggregator: a window is a sorted slice.                             *)

Sorted(values) == \A i, j \in 1 .. Len(values) : i < j => values[i] <= values[j]

From(values, cutoff) == \A i \in 1 .. Len(values) : values[i] >= cutoff

-----------------------------------------------------------------------------
(* The searches.                                                           *)

\* Elements of a sorted slice are ordered as their places are.
LEMMA SortedAt ==
  ASSUME NEW values \in Seq(Nat), Sorted(values),
         NEW a \in 1 .. Len(values), NEW b \in 1 .. Len(values), a <= b
  PROVE  values[a] <= values[b]
<1>1. values[a] \in Nat
  OBVIOUS
<1> QED
  BY <1>1 DEF Sorted

\* discardBefore: what is left is sorted and inside the window, and a slice that
\* was inside the window is left alone.
LEMMA DiscardBefore ==
  ASSUME NEW values \in Seq(Nat), Sorted(values), NEW cutoff \in Int
  PROVE  /\ discardBefore(values, cutoff) \in Seq(Nat)
         /\ Sorted(discardBefore(values, cutoff))
         /\ From(discardBefore(values, cutoff), cutoff)
         /\ From(values, cutoff) => discardBefore(values, cutoff) = values
         /\ \E a \in 1 .. Len(values) + 1 :
              /\ discardBefore(values, cutoff) = SubSeq(values, a, Len(values))
              /\ \A i \in 1 .. a - 1 : values[i] < cutoff
<1> DEFINE Found(i) == /\ \A j \in 1 .. i - 1 : values[j] < cutoff
                       /\ i <= Len(values) => values[i] >= cutoff
           index == CHOOSE i \in 1 .. Len(values) + 1 : Found(i)
           n == Len(values)
<1>0. n \in Nat /\ \A i \in 1 .. n : values[i] \in Nat
  OBVIOUS
<1>1. \E i \in 1 .. n + 1 : Found(i)
  <2> DEFINE T == { i \in 1 .. n + 1 : i <= n => values[i] >= cutoff }
  <2>1. T \subseteq Nat /\ n + 1 \in T
    BY <1>0
  <2>2. PICK i \in T : \A k \in T : i <= k
    BY <2>1, LeastNatural, Zenon
  <2>3. ASSUME NEW j \in 1 .. i - 1 PROVE values[j] < cutoff
    BY <1>0, <2>2, <2>3
  <2> QED
    BY <2>2, <2>3
<1>2. index \in 1 .. n + 1 /\ Found(index)
  <2> HIDE DEF Found, n
  <2> QED
    BY <1>1 DEF n
<1> HIDE DEF index
<1>3. discardBefore(values, cutoff) = SubSeq(values, index, n)
  BY DEF discardBefore, index
<1> DEFINE r == SubSeq(values, index, n)
<1>4. /\ r \in Seq(Nat)
      /\ Len(r) = n - index + 1
      /\ \A i \in 1 .. n - index + 1 : r[i] = values[index + i - 1]
  <2>1. \A i \in index .. n : values[i] \in Nat
    BY <1>0, <1>2
  <2> HIDE DEF n
  <2>2. index \in Int /\ n \in Int /\ index <= n + 1
    BY <1>0, <1>2
  <2> QED
    BY <2>1, <2>2, SubSeqProperties
<1> HIDE DEF r
<1>5. Sorted(r)
  <2> SUFFICES ASSUME NEW i \in 1 .. Len(r), NEW j \in 1 .. Len(r), i < j
               PROVE  r[i] <= r[j]
    BY DEF Sorted
  <2>1. /\ index + i - 1 \in 1 .. n /\ r[i] = values[index + i - 1]
        /\ index + j - 1 \in 1 .. n /\ r[j] = values[index + j - 1]
        /\ index + i - 1 <= index + j - 1
    BY <1>0, <1>2, <1>4, SMTT(30)
  <2> QED
    BY <2>1, SortedAt
<1>6. From(r, cutoff)
  <2> SUFFICES ASSUME NEW i \in 1 .. Len(r) PROVE r[i] >= cutoff
    BY DEF From
  <2>1. index + i - 1 \in index .. n /\ r[i] = values[index + i - 1]
    BY <1>0, <1>2, <1>4
  <2>2. values[index] >= cutoff
    BY <1>0, <1>2, <2>1
  <2>3. values[index] <= values[index + i - 1]
    <3>1. index \in 1 .. n /\ index + i - 1 \in 1 .. n /\ index <= index + i - 1
      BY <1>0, <1>2, <2>1
    <3> QED
      BY <3>1, SortedAt
  <2> QED
    BY <1>0, <1>2, <2>1, <2>2, <2>3, SMTT(30)
<1>7. ASSUME From(values, cutoff) PROVE r = values
  <2>1. index = 1
    BY <1>0, <1>2, <1>7 DEF From
  <2> QED
    BY <2>1, SubSeqFull DEF r
<1>8. \E a \in 1 .. n + 1 : r = SubSeq(values, a, n) /\ \A i \in 1 .. a - 1 : values[i] < cutoff
  <2>1. r = SubSeq(values, index, n)
    BY DEF r
  <2> HIDE DEF n
  <2> QED
    BY <1>2, <2>1, Zenon
<1> QED
  BY <1>3, <1>4, <1>5, <1>6, <1>7, <1>8, Zenon DEF r

\* insertTimestamp keeps the slice sorted and puts nothing stale into it.
LEMMA InsertTimestamp ==
  ASSUME NEW values \in Seq(Nat), Sorted(values), NEW value \in Nat
  PROVE  /\ insertTimestamp(values, value) \in Seq(Nat)
         /\ Sorted(insertTimestamp(values, value))
         /\ \A cutoff \in Int : From(values, cutoff) /\ value >= cutoff
                                  => From(insertTimestamp(values, value), cutoff)
         /\ \E a \in 1 .. Len(values) + 1 :
              insertTimestamp(values, value) =
                [k \in 1 .. Len(values) + 1 |->
                   IF k < a THEN values[k] ELSE IF k = a THEN value ELSE values[k - 1]]
<1> DEFINE Found(i) == /\ \A j \in 1 .. i - 1 : values[j] <= value
                       /\ i <= Len(values) => values[i] > value
           index == CHOOSE i \in 1 .. Len(values) + 1 : Found(i)
           n == Len(values)
<1>0. n \in Nat /\ \A i \in 1 .. n : values[i] \in Nat
  OBVIOUS
<1>1. \E i \in 1 .. n + 1 : Found(i)
  <2> DEFINE T == { i \in 1 .. n + 1 : i <= n => values[i] > value }
  <2>1. T \subseteq Nat /\ n + 1 \in T
    BY <1>0
  <2>2. PICK i \in T : \A k \in T : i <= k
    BY <2>1, LeastNatural, Zenon
  <2>3. ASSUME NEW j \in 1 .. i - 1 PROVE values[j] <= value
    BY <1>0, <2>2, <2>3
  <2> QED
    BY <2>2, <2>3
<1>2. index \in 1 .. n + 1 /\ Found(index)
  <2> HIDE DEF Found, n
  <2> QED
    BY <1>1 DEF n
<1> HIDE DEF index
<1> DEFINE r == [k \in 1 .. n + 1 |->
                   IF k < index THEN values[k]
                   ELSE IF k = index THEN value ELSE values[k - 1]]
<1>3. insertTimestamp(values, value) = r
  BY DEF insertTimestamp, index
<1>4. r \in Seq(Nat) /\ Len(r) = n + 1
  <2>1. \A k \in 1 .. n + 1 : r[k] \in Nat
    BY <1>0, <1>2
  <2> QED
    BY <1>0, <2>1
<1>5. Sorted(r)
  <2> SUFFICES ASSUME NEW i \in 1 .. n + 1, NEW j \in 1 .. n + 1, i < j
               PROVE  r[i] <= r[j]
    BY <1>4 DEF Sorted
  <2>1. CASE j < index
    BY <1>0, <1>2, <2>1 DEF Sorted
  <2>2. CASE j = index
    BY <1>0, <1>2, <2>2
  <2>3. CASE j > index /\ i < index
    BY <1>0, <1>2, <2>3, SMTT(30) DEF Sorted
  <2>4. CASE j > index /\ i = index
    <3>1. r[j] = values[j - 1] /\ j - 1 \in index .. n
      BY <1>0, <1>2, <2>4
    <3>2. values[index] > value /\ values[index] <= values[j - 1]
      BY <1>0, <1>2, <3>1 DEF Sorted
    <3> QED
      BY <1>0, <1>2, <2>4, <3>1, <3>2
  <2>5. CASE j > index /\ i > index
    <3>1. /\ r[i] = values[i - 1] /\ i - 1 \in 1 .. n
          /\ r[j] = values[j - 1] /\ j - 1 \in 1 .. n
          /\ i - 1 <= j - 1
      BY <1>0, <1>2, <2>5
    <3> QED
      BY <3>1, SortedAt, Zenon
  <2> QED
    BY <1>0, <1>2, <2>1, <2>2, <2>3, <2>4, <2>5
<1>6. ASSUME NEW cutoff \in Int, From(values, cutoff), value >= cutoff
      PROVE  From(r, cutoff)
  BY <1>0, <1>2, <1>4, <1>6 DEF From
<1>7. \E a \in 1 .. n + 1 : r = [k \in 1 .. n + 1 |->
                                  IF k < a THEN values[k]
                                  ELSE IF k = a THEN value ELSE values[k - 1]]
  BY <1>2, Zenon
<1> QED
  BY <1>3, <1>4, <1>5, <1>6, <1>7

-----------------------------------------------------------------------------
(* One group.                                                              *)

GroupInv(g, fp) ==
  /\ Sorted(g.timestamps)
  /\ From(g.timestamps, g.watermark - Window[fp])
  /\ Len(g.timestamps) >= Threshold[fp] =>
       g.lastAlertAt # 0 /\ g.cooldownUntil >= g.watermark - Window[fp]

USE FingerprintsAssumption, EventTimesAssumption, RuleAssumption, ConfigAssumption,
    BoundsAssumption

\* The window after an event: sorted, nothing stale, and untouched by an event
\* that is itself stale.
LEMMA SlideWindow ==
  ASSUME NEW values \in Seq(Nat), Sorted(values), NEW w \in Nat, NEW window \in Nat,
         NEW at \in Nat
  PROVE  /\ Slide(values, w, window, at) \in Seq(Nat)
         /\ Sorted(Slide(values, w, window, at))
         /\ From(Slide(values, w, window, at), w - window)
         /\ at < w - window /\ From(values, w - window)
              => Slide(values, w, window, at) = values
<1> DEFINE kept == discardBefore(values, w - window)
<1>0. w - window \in Int
  OBVIOUS
<1>1. /\ kept \in Seq(Nat) /\ Sorted(kept) /\ From(kept, w - window)
      /\ From(values, w - window) => kept = values
  BY <1>0, DiscardBefore, Zenon
<1> HIDE DEF kept
<1>2. CASE at >= w - window
  <2>1. Slide(values, w, window, at) = insertTimestamp(kept, at)
    BY <1>2 DEF Slide, kept
  <2>2. /\ insertTimestamp(kept, at) \in Seq(Nat)
        /\ Sorted(insertTimestamp(kept, at))
        /\ \A cutoff \in Int : From(kept, cutoff) /\ at >= cutoff
                                 => From(insertTimestamp(kept, at), cutoff)
    BY <1>1, InsertTimestamp, Zenon
  <2>3. From(insertTimestamp(kept, at), w - window)
    BY <1>0, <1>1, <1>2, <2>2
  <2>4. ~(at < w - window)
    BY <1>0, <1>2
  <2> QED
    BY <2>1, <2>2, <2>3, <2>4, ZenonT(40)
<1>3. CASE ~(at >= w - window)
  BY <1>0, <1>1, <1>3 DEF Slide, kept
<1> QED
  BY <1>2, <1>3

\* The types of the fields of a group.
LEMMA GroupFields ==
  ASSUME NEW g \in Group
  PROVE  /\ g.firstSeen \in Nat /\ g.lastSeen \in Nat /\ g.watermark \in Nat
         /\ g.timestamps \in Seq(Nat) /\ Len(g.timestamps) \in Nat
         /\ g.total \in Nat /\ g.lastAlertAt \in Nat /\ g.cooldownUntil \in Nat
         /\ g.suppressed \in Nat /\ g.updatedAt \in Nat
         /\ g.firstSample \in Samples \cup {EmptySample}
         /\ g.samples \in Seq(Samples \cup {EmptySample})
<1>1. g.timestamps \in Seq(Nat)
  BY DEF Group
<1> QED
  BY <1>1 DEF Group

\* Counting an event moves the watermark and the window, and leaves the alert
\* bookkeeping alone.
LEMMA CountedGroup ==
  ASSUME NEW g \in Group, NEW fp \in Fingerprints, NEW at \in Nat,
         NEW sample \in Samples, now \in Nat, Sorted(g.timestamps)
  PROVE  LET c == Counted(g, fp, at, sample)
             w == Later(g.watermark, at)
         IN /\ c \in Group
            /\ c.watermark = w
            /\ c.timestamps = Slide(g.timestamps, w, Window[fp], at)
            /\ c.lastAlertAt = g.lastAlertAt
            /\ c.cooldownUntil = g.cooldownUntil
<1> DEFINE w == Later(g.watermark, at)
           stamps == Slide(g.timestamps, w, Window[fp], at)
<1>1. w \in Nat /\ Later(g.lastSeen, at) \in Nat
  BY GroupFields DEF Later
<1>2. stamps \in Seq(Nat)
  <2>1. g.timestamps \in Seq(Nat) /\ Window[fp] \in Nat
    BY GroupFields
  <2> HIDE DEF w
  <2> QED
    BY <1>1, <2>1, SlideWindow
<1>3. addSample(g.samples, sample) \in Seq(Samples \cup {EmptySample})
  BY GroupFields DEF addSample
<1> DEFINE first == IF g.firstSeen = 0 \/ at < g.firstSeen THEN at ELSE g.firstSeen
           last == Later(g.lastSeen, at)
           sample1 == IF g.firstSample = EmptySample THEN sample ELSE g.firstSample
           more == addSample(g.samples, sample)
           total == g.total + 1
<1>4. first \in Nat /\ total \in Nat /\ sample1 \in Samples \cup {EmptySample}
  BY GroupFields
<1>5. Counted(g, fp, at, sample) =
        [g EXCEPT !.watermark = w, !.timestamps = stamps, !.firstSeen = first,
                  !.lastSeen = last, !.total = total, !.firstSample = sample1,
                  !.latestSample = sample, !.samples = more, !.updatedAt = now]
  BY Zenon DEF Counted, Group
<1> HIDE DEF w, stamps, first, last, sample1, more, total
<1>6. Counted(g, fp, at, sample) \in Group
  <2>1. /\ w \in Nat /\ stamps \in Seq(Nat) /\ last \in Nat
        /\ sample \in Samples \cup {EmptySample}
        /\ more \in Seq(Samples \cup {EmptySample})
    BY <1>1, <1>2, <1>3 DEF last, more
  <2>2. [g EXCEPT !.watermark = w, !.timestamps = stamps, !.firstSeen = first] \in Group
    BY <1>4, <2>1, Zenon DEF Group
  <2>3. ASSUME NEW h \in Group
        PROVE  [h EXCEPT !.lastSeen = last, !.total = total, !.firstSample = sample1] \in Group
    BY <1>4, <2>1, Zenon DEF Group
  <2>4. ASSUME NEW h \in Group
        PROVE  [h EXCEPT !.latestSample = sample, !.samples = more, !.updatedAt = now] \in Group
    BY <2>1, Zenon DEF Group
  <2> QED
    BY <1>5, <2>2, <2>3, <2>4, ZenonT(30)
<1>7. /\ Counted(g, fp, at, sample).watermark = w
      /\ Counted(g, fp, at, sample).timestamps = stamps
      /\ Counted(g, fp, at, sample).lastAlertAt = g.lastAlertAt
      /\ Counted(g, fp, at, sample).cooldownUntil = g.cooldownUntil
  BY <1>5 DEF Group
<1> QED
  BY <1>6, <1>7 DEF w, stamps

\* One event of Record: the group keeps its invariant, and it raises an alert only
\* for an event inside the window.
LEMMA JudgedGroup ==
  ASSUME NEW g \in Group, NEW fp \in Fingerprints, NEW at \in Nat \ {0},
         NEW sample \in Samples, now \in Nat, GroupInv(g, fp)
  PROVE  LET c == Counted(g, fp, at, sample)
             j == Judged(c, fp, at)
         IN /\ j \in Group
            /\ GroupInv(j, fp)
            /\ c.suppressed \in Nat
            /\ Alerts(c, fp, at) => at >= j.watermark - Window[fp]
<1> DEFINE c == Counted(g, fp, at, sample)
           j == Judged(c, fp, at)
           w == Later(g.watermark, at)
           W == Window[fp]
<1> SUFFICES /\ j \in Group
             /\ GroupInv(j, fp)
             /\ c.suppressed \in Nat
             /\ Alerts(c, fp, at) => at >= j.watermark - W
  OBVIOUS
<1>1. /\ c \in Group /\ c.watermark = w
      /\ c.timestamps = Slide(g.timestamps, w, W, at)
      /\ c.lastAlertAt = g.lastAlertAt /\ c.cooldownUntil = g.cooldownUntil
  BY CountedGroup DEF GroupInv
<1>2. /\ w \in Nat /\ W \in Nat /\ w >= at /\ w >= g.watermark
      /\ w = at \/ w = g.watermark
  <2>1. at \in Nat /\ g.watermark \in Nat /\ W \in Nat
    BY GroupFields, Zenon
  <2>2. w = IF g.watermark < at THEN at ELSE g.watermark
    BY Zenon DEF Later
  <2> HIDE DEF w, W
  <2> QED
    BY <2>1, <2>2
<1>3. /\ Sorted(c.timestamps)
      /\ From(c.timestamps, w - W)
      /\ at < w - W /\ From(g.timestamps, w - W) => c.timestamps = g.timestamps
  <2>1. g.timestamps \in Seq(Nat) /\ Sorted(g.timestamps)
    BY GroupFields, ZenonT(40) DEF GroupInv
  <2> HIDE DEF c, w, W
  <2> QED
    BY <1>1, <1>2, <2>1, SlideWindow
<1>4. /\ j \in Group
      /\ j.watermark = w /\ j.timestamps = c.timestamps
      /\ Suppresses(c, at) => j.lastAlertAt = c.lastAlertAt /\ j.cooldownUntil = c.cooldownUntil
      /\ Alerts(c, fp, at) => j.lastAlertAt = at /\ j.cooldownUntil = at + Cooldown[fp]
      /\ ~Suppresses(c, at) /\ ~Alerts(c, fp, at) => j = c
  <2> HIDE DEF c
  <2>0. c.suppressed + 1 \in Nat /\ at + Cooldown[fp] \in Nat
    BY <1>1, GroupFields, SMTT(30)
  <2>1. CASE Suppresses(c, at)
    <3>1. j = [c EXCEPT !.suppressed = c.suppressed + 1] /\ ~Alerts(c, fp, at)
      BY <1>1, <2>1 DEF Judged, Alerts, Group
    <3> HIDE DEF j
    <3> QED
      BY <1>1, <2>0, <2>1, <3>1, Zenon DEF Group
  <2>2. CASE Alerts(c, fp, at)
    <3>1. /\ j = [c EXCEPT !.lastAlertAt = at, !.cooldownUntil = at + Cooldown[fp],
                            !.suppressed = 0]
          /\ ~Suppresses(c, at)
      BY <2>2 DEF Judged, Alerts, raise
    <3> HIDE DEF j
    <3> QED
      BY <1>1, <2>0, <2>2, <3>1, Zenon DEF Group
  <2>3. CASE ~Suppresses(c, at) /\ ~Alerts(c, fp, at)
    BY <1>1, <2>3, ZenonT(40) DEF Judged
  <2> QED
    BY <2>1, <2>2, <2>3, ZenonT(40)
<1> HIDE DEF c, j, w, W
<1>5. CASE at < w - W
  <2>1. w = g.watermark /\ c.timestamps = g.timestamps
    BY <1>2, <1>3, <1>5 DEF GroupInv, W
  <2>2. Len(c.timestamps) >= Threshold[fp] => Suppresses(c, at)
    <3> SUFFICES ASSUME Len(c.timestamps) >= Threshold[fp] PROVE Suppresses(c, at)
      OBVIOUS
    <3>1. g.lastAlertAt # 0 /\ g.cooldownUntil >= w - W
      BY <2>1 DEF GroupInv, W
    <3>2. at < g.cooldownUntil
      BY <1>2, <1>5, <3>1, GroupFields
    <3> QED
      BY <1>1, <3>1, <3>2 DEF Suppresses
  <2>3. ~Alerts(c, fp, at)
    BY <2>2 DEF Alerts
  <2>4. j.lastAlertAt = g.lastAlertAt /\ j.cooldownUntil = g.cooldownUntil
    BY <1>1, <1>4, <2>3, ZenonT(40)
  <2> QED
    BY <1>1, <1>3, <1>4, <2>1, <2>3, <2>4, GroupFields, ZenonT(40) DEF GroupInv, W
<1>6. CASE at >= w - W
  <2>1. Len(c.timestamps) >= Threshold[fp] => Suppresses(c, at) \/ Alerts(c, fp, at)
    BY DEF Alerts
  <2>2. Suppresses(c, at) => j.lastAlertAt # 0 /\ j.cooldownUntil >= w - W
    BY <1>1, <1>2, <1>4, <1>6, GroupFields DEF Suppresses
  <2>3. Alerts(c, fp, at) => j.lastAlertAt # 0 /\ j.cooldownUntil >= w - W
    BY <1>2, <1>4, <1>6
  <2> QED
    BY <1>1, <1>3, <1>4, <1>6, <2>1, <2>2, <2>3, GroupFields, ZenonT(40) DEF GroupInv, W
<1> QED
  BY <1>2, <1>5, <1>6

\* A group that has just been inserted.
LEMMA NewGroupInv ==
  ASSUME NEW fp \in Fingerprints
  PROVE  NewGroup \in Group /\ GroupInv(NewGroup, fp)
<1>1. NewGroup \in Group
  <2>1. 0 \in Nat /\ <<>> \in Seq(Nat) /\ <<>> \in Seq(Samples \cup {EmptySample})
    OBVIOUS
  <2> QED
    BY <2>1, ZenonT(40) DEF NewGroup, Group
<1>2. NewGroup.timestamps = <<>> /\ Len(<<>>) = 0
  BY DEF NewGroup
<1>3. Sorted(NewGroup.timestamps)
  BY <1>2 DEF Sorted
<1>4. From(NewGroup.timestamps, NewGroup.watermark - Window[fp])
  BY <1>2 DEF From
<1>5. ~(Len(NewGroup.timestamps) >= Threshold[fp])
  <2>1. Threshold[fp] \in Nat \ {0}
    OBVIOUS
  <2> QED
    BY <1>2, <2>1
<1> QED
  BY <1>1, <1>3, <1>4, <1>5, ZenonT(40) DEF GroupInv

-----------------------------------------------------------------------------
(* Eviction.                                                               *)

\* Among finitely or infinitely many groups one is the oldest, so the scan of
\* evictForInsert always finds a group to delete.
LEMMA OldestExists ==
  ASSUME NEW gs, NEW D, D = DOMAIN gs, D \subseteq Nat, D # {},
         \A f \in D : gs[f].updatedAt \in Nat
  PROVE  \E f \in D : Oldest(gs, f)
<1> DEFINE T == { gs[f].updatedAt : f \in D }
<1>1. PICK t \in T : \A u \in T : t <= u
  <2>1. T \subseteq Nat /\ T # {}
    OBVIOUS
  <2> QED
    BY <2>1, LeastNatural, Zenon
<1> DEFINE F == { f \in D : gs[f].updatedAt = t }
<1>2. PICK f \in F : \A h \in F : f <= h
  <2>1. F \subseteq Nat /\ F # {}
    BY <1>1
  <2> QED
    BY <2>1, LeastNatural, Zenon
<1>3. ASSUME NEW h \in D
      PROVE  \/ gs[f].updatedAt < gs[h].updatedAt
             \/ gs[f].updatedAt = gs[h].updatedAt /\ f <= h
  <2>1. gs[f].updatedAt = t /\ t <= gs[h].updatedAt /\ t \in Nat /\ gs[h].updatedAt \in Nat
    BY <1>1, <1>2
  <2>2. CASE gs[h].updatedAt = t
    BY <1>2, <2>1, <2>2
  <2>3. CASE gs[h].updatedAt # t
    BY <2>1, <2>3
  <2> QED
    BY <2>2, <2>3, ZenonT(40)
<1> QED
  BY <1>2, <1>3 DEF Oldest

\* evictForInsert makes room for one more group and changes none that stays.
LEMMA EvictMakesRoom ==
  ASSUME NEW gs, NEW D, D = DOMAIN gs, D \subseteq Nat, IsFiniteSet(D),
         Cardinality(D) <= MaxGroups, \A f \in D : gs[f].updatedAt \in Nat
  PROVE  LET room == evictForInsert(gs)
         IN /\ DOMAIN room \subseteq D
            /\ IsFiniteSet(DOMAIN room)
            /\ Cardinality(DOMAIN room) < MaxGroups
            /\ \A f \in DOMAIN room : room[f] = gs[f]
<1>0. Cardinality(D) \in Nat
  BY FS_CardinalityType, ZenonT(40)
<1>1. CASE Cardinality(D) < MaxGroups
  BY <1>1 DEF evictForInsert
<1>2. CASE ~(Cardinality(D) < MaxGroups)
  <2> DEFINE K == { f \in D : ~Oldest(gs, f) }
  <2>1. evictForInsert(gs) = [f \in K |-> gs[f]]
    BY <1>2 DEF evictForInsert, Keep
  <2>2. D # {}
    BY <1>0, <1>2, FS_EmptySet
  <2>3. PICK f \in D : Oldest(gs, f)
    BY <2>2, OldestExists
  <2>4. IsFiniteSet(D \ {f}) /\ Cardinality(D \ {f}) = Cardinality(D) - 1
    BY FS_RemoveElement, Zenon
  <2>5. K \in SUBSET (D \ {f})
    BY <2>3
  <2> HIDE DEF K
  <2>6. IsFiniteSet(K) /\ Cardinality(K) <= Cardinality(D \ {f}) /\ Cardinality(K) \in Nat
    BY <2>4, <2>5, FS_Subset, FS_CardinalityType, ZenonT(40)
  <2>7. Cardinality(K) < MaxGroups
    BY <1>0, <2>4, <2>6
  <2> QED
    BY <2>1, <2>5, <2>6, <2>7, ZenonT(40)
<1> QED
  BY <1>1, <1>2

-----------------------------------------------------------------------------
(* The aggregator.                                                         *)

IInv ==
  /\ TypeOK
  /\ IsFiniteSet(Active)
  /\ GroupsBounded
  /\ \A f \in Active : GroupInv(groups[f], f)
  /\ AlertIsCurrent

LEMMA InitIInv == Init => IInv
<1> SUFFICES ASSUME Init PROVE IInv
  OBVIOUS
<1>1. Active = {}
  BY DEF Init, Active
<1>2. IsFiniteSet(Active) /\ Cardinality(Active) = 0
  BY <1>1, FS_EmptySet
<1>3. TypeOK
  BY <1>1 DEF Init, TypeOK, NoResult
<1>4. AlertIsCurrent
  BY <1>1 DEF AlertIsCurrent
<1> QED
  BY <1>1, <1>2, <1>3, <1>4 DEF IInv, GroupsBounded

\* evictExpired only deletes groups.
LEMMA ExpiredShrinks ==
  ASSUME IInv
  PROVE  /\ DOMAIN evictExpired \subseteq Active
         /\ \A f \in DOMAIN evictExpired : evictExpired[f] = groups[f]
         /\ IsFiniteSet(DOMAIN evictExpired)
         /\ Cardinality(DOMAIN evictExpired) <= MaxGroups
<1> DEFINE K == { f \in Active : ~Expired(groups[f]) }
<1>1. evictExpired = [f \in K |-> groups[f]]
  BY DEF evictExpired, Keep
<1>2. K \in SUBSET Active /\ IsFiniteSet(Active) /\ Cardinality(Active) <= MaxGroups
  BY DEF IInv, GroupsBounded
<1> HIDE DEF K
<1>3. /\ IsFiniteSet(K) /\ Cardinality(K) <= Cardinality(Active)
      /\ Cardinality(K) \in Nat /\ Cardinality(Active) \in Nat
  BY <1>2, FS_Subset, FS_CardinalityType, ZenonT(40)
<1> QED
  BY <1>1, <1>2, <1>3

LEMMA RecordIInv ==
  ASSUME IInv, NEW fp \in Fingerprints, NEW timestamp \in EventTimes,
         NEW sample \in Samples, Record(fp, timestamp, sample)
  PROVE  IInv'
<1> DEFINE live == evictExpired
           room == IF fp \in DOMAIN live THEN live ELSE evictForInsert(live)
           item == IF fp \in DOMAIN live THEN live[fp] ELSE NewGroup
           at == IF timestamp = 0 THEN now ELSE timestamp
           c == Counted(item, fp, at, sample)
           j == Judged(c, fp, at)
<1>1. /\ DOMAIN live \subseteq Active /\ Active \subseteq Fingerprints
      /\ \A f \in DOMAIN live : live[f] \in Group /\ GroupInv(live[f], f)
      /\ IsFiniteSet(DOMAIN live) /\ Cardinality(DOMAIN live) <= MaxGroups
  <2>1. \A f \in Active : groups[f] \in Group /\ GroupInv(groups[f], f)
    BY DEF IInv, TypeOK
  <2> QED
    BY <2>1, ExpiredShrinks, Zenon DEF IInv, TypeOK
<1>2. at \in Nat \ {0} /\ now \in Nat
  BY DEF IInv, TypeOK
<1>3. item \in Group /\ GroupInv(item, fp)
  BY <1>1, NewGroupInv, ZenonT(40)
<1>4. /\ j \in Group /\ GroupInv(j, fp) /\ c.suppressed \in Nat
      /\ Alerts(c, fp, at) => at >= j.watermark - Window[fp]
  <2> HIDE DEF item, at
  <2> QED
    BY <1>2, <1>3, JudgedGroup, ZenonT(40)
<1>5. /\ DOMAIN room \subseteq DOMAIN live
      /\ \A f \in DOMAIN room : room[f] = live[f]
      /\ IsFiniteSet(DOMAIN room \cup {fp})
      /\ Cardinality(DOMAIN room \cup {fp}) <= MaxGroups
  <2> HIDE DEF live
  <2>1. CASE fp \in DOMAIN live
    <3>1. DOMAIN room \cup {fp} = DOMAIN live
      BY <2>1, ZenonT(40)
    <3> QED
      BY <1>1, <2>1, <3>1
  <2>2. CASE fp \notin DOMAIN live
    <3>1. \A f \in DOMAIN live : live[f].updatedAt \in Nat
      BY <1>1, GroupFields
    <3>2. /\ DOMAIN room \subseteq DOMAIN live
          /\ IsFiniteSet(DOMAIN room)
          /\ Cardinality(DOMAIN room) < MaxGroups
          /\ \A f \in DOMAIN room : room[f] = live[f]
      BY <1>1, <2>2, <3>1, EvictMakesRoom, Zenon
    <3> HIDE DEF room
    <3>3. /\ IsFiniteSet(DOMAIN room \cup {fp})
          /\ Cardinality(DOMAIN room \cup {fp}) = Cardinality(DOMAIN room) + 1
          /\ Cardinality(DOMAIN room) \in Nat
      BY <1>1, <2>2, <3>2, FS_AddElement, FS_CardinalityType, ZenonT(40)
    <3> QED
      BY <3>2, <3>3
  <2> QED
    BY <2>1, <2>2
<1>6. /\ groups' = [f \in DOMAIN room \cup {fp} |-> IF f = fp THEN j ELSE room[f]]
      /\ result' = [fp |-> fp, at |-> at, alert |-> Alerts(c, fp, at),
                    suppressed |-> Suppresses(c, at),
                    count |-> IF Alerts(c, fp, at) THEN c.suppressed ELSE 0]
      /\ now' = now
  BY ZenonT(40) DEF Record
<1>7. Alerts(c, fp, at) \in BOOLEAN /\ Suppresses(c, at) \in BOOLEAN
  BY SMTT(30) DEF Alerts, Suppresses
<1> HIDE DEF live, room, item, at, c, j
<1>8. /\ Active' = DOMAIN room \cup {fp}
      /\ \A f \in Active' : groups'[f] \in Group /\ GroupInv(groups'[f], f)
      /\ groups'[fp] = j
  BY <1>1, <1>4, <1>5, <1>6, Zenon DEF Active
<1>9. TypeOK'
  <2>1. groups' \in [Active' -> Group] /\ Active' \subseteq Fingerprints
    BY <1>1, <1>5, <1>6, <1>8, Zenon
  <2>2. result' \in [fp : Nat, at : Nat, alert : BOOLEAN, suppressed : BOOLEAN, count : Nat]
    <3>1. (IF Alerts(c, fp, at) THEN c.suppressed ELSE 0) \in Nat /\ fp \in Nat
      BY <1>4
    <3> QED
      BY <1>2, <1>6, <1>7, <3>1, ZenonT(40)
  <2>3. now' \in Nat \ {0}
    BY <1>6, ZenonT(40) DEF IInv, TypeOK
  <2> QED
    BY <2>1, <2>2, <2>3, SMTT(30) DEF TypeOK
<1>10. AlertIsCurrent'
  BY <1>4, <1>6, <1>8, ZenonT(40) DEF AlertIsCurrent, Cutoff
<1> QED
  BY <1>5, <1>8, <1>9, <1>10 DEF IInv, GroupsBounded, GroupInv

LEMMA NextIInv == IInv /\ [Next]_vars => IInv'
<1> SUFFICES ASSUME IInv, [Next]_vars PROVE IInv'
  OBVIOUS
<1>1. CASE Tick
  <2>1. now' \in Nat \ {0} /\ groups' = groups /\ result' = result
    BY <1>1 DEF Tick, IInv, TypeOK
  <2> QED
    BY <2>1, ZenonT(40) DEF IInv, TypeOK, Active, GroupsBounded, GroupInv, AlertIsCurrent, Cutoff
<1>2. ASSUME NEW fp \in Fingerprints, NEW timestamp \in EventTimes, NEW sample \in Samples,
             Record(fp, timestamp, sample)
      PROVE  IInv'
  BY <1>2, RecordIInv, ZenonT(40)
<1>3. CASE LenOrState
  <2>1. groups' = evictExpired /\ UNCHANGED <<now, result>>
    BY <1>3, ZenonT(40) DEF LenOrState
  <2>2. /\ Active' \subseteq Active
        /\ \A f \in Active' : groups'[f] = groups[f]
        /\ IsFiniteSet(Active') /\ Cardinality(Active') <= MaxGroups
    BY <2>1, ExpiredShrinks DEF Active
  <2>3. groups' = [f \in Active' |-> groups[f]]
    BY <2>1, <2>2 DEF evictExpired, Keep, Active
  <2>4. TypeOK'
    BY <2>1, <2>2, <2>3, ZenonT(40) DEF IInv, TypeOK
  <2>5. AlertIsCurrent'
    BY <2>1, <2>2, ZenonT(40) DEF IInv, AlertIsCurrent, Cutoff
  <2>6. \A f \in Active' : GroupInv(groups'[f], f)
    BY <2>2, ZenonT(40) DEF IInv
  <2> QED
    BY <2>2, <2>4, <2>5, <2>6, ZenonT(40) DEF IInv, GroupsBounded, GroupInv
<1>4. CASE UNCHANGED vars
  BY <1>4 DEF vars, IInv, TypeOK, Active, GroupsBounded, GroupInv, AlertIsCurrent, Cutoff
<1> QED
  BY <1>1, <1>2, <1>3, <1>4, ZenonT(40) DEF Next

LEMMA AlwaysIInv == Spec => []IInv
<1> QED
  BY InitIInv, NextIInv, PTL DEF Spec

\* Every group and every result keeps its type, with cutoffs that
\* may be negative.
THEOREM AggregatorTypeCorrect == Spec => []TypeOK
<1>1. IInv => TypeOK
  BY DEF IInv
<1> QED
  BY <1>1, AlwaysIInv, PTL

\* evictExpired and evictForInsert together keep the map within max_groups.
THEOREM AggregatorGroupsBounded == Spec => []GroupsBounded
<1>1. IInv => GroupsBounded
  BY ZenonT(40) DEF IInv
<1> QED
  BY <1>1, AlwaysIInv, PTL

\* Whatever the order of the events, Record leaves no full window unreported.
THEOREM AggregatorFullWindowAlerted == Spec => []FullWindowAlerted
<1>1. IInv => FullWindowAlerted
  BY DEF IInv, FullWindowAlerted, GroupInv, Cutoff
<1> QED
  BY <1>1, AlwaysIInv, PTL

\* Record raises no alert for an event that has left the window.
THEOREM AggregatorAlertIsCurrent == Spec => []AlertIsCurrent
<1>1. IInv => AlertIsCurrent
  BY DEF IInv
<1> QED
  BY <1>1, AlwaysIInv, PTL

-----------------------------------------------------------------------------
(* The cooldown.  A group that expires and is inserted again within one    *)
(* Record is told from one that lives on by its total.                     *)

CooldownSet(g, fp) == g.lastAlertAt # 0 => g.cooldownUntil = g.lastAlertAt + Cooldown[fp]

CInv == \A f \in Active : groups[f].total > 0 /\ CooldownSet(groups[f], f)

LEMMA CountedTotal ==
  ASSUME NEW g \in Group, NEW fp, NEW at, NEW sample
  PROVE  Counted(g, fp, at, sample).total = g.total + 1
BY ZenonT(40) DEF Counted, Group

\* Judging an event keeps the total, dates the cooldown to an alert it raises, and
\* raises one only when the cooldown of the last has passed.
LEMMA JudgedCooldown ==
  ASSUME NEW c \in Group, NEW fp \in Fingerprints, NEW at \in Nat \ {0}, CooldownSet(c, fp)
  PROVE  /\ Judged(c, fp, at).total = c.total
         /\ CooldownSet(Judged(c, fp, at), fp)
         /\ Alerts(c, fp, at) /\ c.lastAlertAt # 0 => at >= c.lastAlertAt + Cooldown[fp]
<1>1. CASE Suppresses(c, at)
  <2>1. Judged(c, fp, at) = [c EXCEPT !.suppressed = c.suppressed + 1]
    BY <1>1 DEF Judged, Group
  <2>2. ~Alerts(c, fp, at)
    BY <1>1 DEF Alerts
  <2> QED
    BY <2>1, <2>2 DEF CooldownSet, Group
<1>2. CASE Alerts(c, fp, at)
  <2>1. Judged(c, fp, at) = [c EXCEPT !.lastAlertAt = at, !.cooldownUntil = at + Cooldown[fp],
                                      !.suppressed = 0]
    BY <1>2 DEF Judged, Alerts, raise
  <2>2. c.lastAlertAt # 0 => ~(at < c.cooldownUntil)
    BY <1>2 DEF Alerts, Suppresses
  <2>3. c.lastAlertAt # 0 => at >= c.lastAlertAt + Cooldown[fp]
    BY <2>2, GroupFields DEF CooldownSet
  <2> QED
    BY <2>1, <2>3 DEF CooldownSet, Group
<1>3. CASE ~Suppresses(c, at) /\ ~Alerts(c, fp, at)
  BY <1>3 DEF Judged
<1> QED
  BY <1>1, <1>2, <1>3

\* What CooldownRespected says of a step.
CooldownStep ==
  \A f \in Active \cap DOMAIN groups' :
    /\ groups'[f].total > groups[f].total
    /\ result'.alert /\ result'.fp = f
    /\ groups[f].lastAlertAt # 0
    => result'.at >= groups[f].lastAlertAt + Cooldown[f]

LEMMA RecordCooldown ==
  ASSUME IInv, CInv, NEW fp \in Fingerprints, NEW timestamp \in EventTimes,
         NEW sample \in Samples, Record(fp, timestamp, sample)
  PROVE  CInv' /\ CooldownStep
<1> DEFINE live == evictExpired
           room == IF fp \in DOMAIN live THEN live ELSE evictForInsert(live)
           item == IF fp \in DOMAIN live THEN live[fp] ELSE NewGroup
           at == IF timestamp = 0 THEN now ELSE timestamp
           c == Counted(item, fp, at, sample)
           j == Judged(c, fp, at)
<1>1. /\ DOMAIN live \subseteq Active
      /\ \A f \in DOMAIN live : live[f] = groups[f]
      /\ \A f \in Active : groups[f] \in Group /\ GroupInv(groups[f], f)
  BY ExpiredShrinks, Zenon DEF IInv, TypeOK
<1>2. at \in Nat \ {0} /\ now \in Nat
  BY DEF IInv, TypeOK
<1>3. item \in Group /\ GroupInv(item, fp) /\ CooldownSet(item, fp)
  <2>1. CASE fp \in DOMAIN live
    BY <1>1, <2>1, ZenonT(40) DEF CInv
  <2>2. CASE fp \notin DOMAIN live
    BY <2>2, NewGroupInv, ZenonT(40) DEF CooldownSet, NewGroup
  <2> QED
    BY <2>1, <2>2, ZenonT(40)
<1>4. /\ c \in Group /\ CooldownSet(c, fp) /\ c.total = item.total + 1
      /\ c.lastAlertAt = item.lastAlertAt
  <2> HIDE DEF item, at
  <2> QED
    BY <1>2, <1>3, CountedGroup, CountedTotal DEF GroupInv, CooldownSet
<1>5. /\ j.total = item.total + 1 /\ CooldownSet(j, fp)
      /\ Alerts(c, fp, at) /\ item.lastAlertAt # 0 => at >= item.lastAlertAt + Cooldown[fp]
  <2> HIDE DEF c, item, at
  <2> QED
    BY <1>2, <1>4, JudgedCooldown, ZenonT(40)
<1>6. item.total \in Nat
  BY <1>3, GroupFields
<1>7. DOMAIN room \subseteq DOMAIN live /\ \A f \in DOMAIN room : room[f] = live[f]
  BY ZenonT(40) DEF evictForInsert, Keep
<1>8. /\ groups' = [f \in DOMAIN room \cup {fp} |-> IF f = fp THEN j ELSE room[f]]
      /\ result' = [fp |-> fp, at |-> at, alert |-> Alerts(c, fp, at),
                    suppressed |-> Suppresses(c, at),
                    count |-> IF Alerts(c, fp, at) THEN c.suppressed ELSE 0]
  BY ZenonT(40) DEF Record
<1>9. fp \in DOMAIN live => item = groups[fp]
  BY <1>1, ZenonT(40)
<1>10. fp \notin DOMAIN live => item.total = 0
  BY ZenonT(40) DEF NewGroup
<1> HIDE DEF live, room, item, at, c, j
<1>11. CInv'
  BY <1>1, <1>5, <1>6, <1>7, <1>8 DEF CInv, Active, CooldownSet
<1>12. CooldownStep
  <2> SUFFICES ASSUME fp \in Active, groups'[fp].total > groups[fp].total,
                      Alerts(c, fp, at), groups[fp].lastAlertAt # 0
               PROVE  at >= groups[fp].lastAlertAt + Cooldown[fp]
    BY <1>8, ZenonT(30) DEF CooldownStep
  <2>1. groups'[fp] = j
    BY <1>8, Zenon
  <2>2. groups[fp].total \in Nat /\ groups[fp].total > 0
    BY <1>1, GroupFields, ZenonT(40) DEF CInv
  <2>3. fp \in DOMAIN live
    BY <1>5, <1>6, <1>10, <2>1, <2>2
  <2> QED
    BY <1>5, <1>9, <2>3, ZenonT(40)
<1> QED
  BY <1>11, <1>12

LEMMA NextCooldown == IInv /\ CInv /\ [Next]_vars => CInv' /\ (CooldownStep \/ UNCHANGED vars)
<1> SUFFICES ASSUME IInv, CInv, [Next]_vars PROVE CInv' /\ (CooldownStep \/ UNCHANGED vars)
  OBVIOUS
<1>1. CASE groups' = groups
  <2>1. \A f \in Active : groups[f].total \in Nat
    BY GroupFields DEF IInv, TypeOK
  <2>2. CooldownStep
    BY <1>1, <2>1 DEF CooldownStep
  <2> QED
    BY <1>1, <2>2 DEF CInv, Active, CooldownSet
<1>2. ASSUME NEW fp \in Fingerprints, NEW timestamp \in EventTimes, NEW sample \in Samples,
             Record(fp, timestamp, sample)
      PROVE  CInv' /\ CooldownStep
  BY <1>2, RecordCooldown, ZenonT(40)
<1>3. CASE LenOrState
  <2>1. /\ DOMAIN groups' \subseteq Active
        /\ \A f \in DOMAIN groups' : groups'[f] = groups[f]
    BY <1>3, ExpiredShrinks, ZenonT(40) DEF LenOrState
  <2>2. \A f \in Active : groups[f].total \in Nat
    BY GroupFields DEF IInv, TypeOK
  <2>3. CooldownStep
    BY <2>1, <2>2 DEF CooldownStep
  <2> QED
    BY <2>1, <2>3, ZenonT(40) DEF CInv, Active, CooldownSet
<1>4. CASE Tick \/ UNCHANGED vars
  BY <1>1, <1>4 DEF Tick, vars
<1> QED
  BY <1>2, <1>3, <1>4 DEF Next

\* While a group lives its alerts are at least the cooldown apart and dated in order,
\* for every order in which events arrive.
THEOREM AggregatorCooldownRespected == Spec => CooldownRespected
<1>1. Init => CInv
  BY DEF Init, CInv, Active
<1>2. CooldownRespected <=> [][CooldownStep]_vars
  BY DEF CooldownRespected, CooldownStep
<1> QED
  BY <1>1, <1>2, AlwaysIInv, NextCooldown, PTL DEF Spec
\* Two finite sets of places that correspond one to one are equally large.
LEMMA SameSize ==
  ASSUME NEW S, NEW T, NEW m \in [S -> T], IsFiniteSet(S),
         \A a, b \in S : m[a] = m[b] => a = b,
         \A t \in T : \E a \in S : m[a] = t
  PROVE  IsFiniteSet(T) /\ Cardinality(T) = Cardinality(S)
<1>1. m \in Bijection(S, T)
  BY DEF Bijection, Injection, Surjection, IsInjective
<1> QED
  BY <1>1, FS_Bijection DEF ExistsBijection

LEMMA OccurrencesFinite ==
  ASSUME NEW values \in Seq(Nat), NEW t
  PROVE  /\ IsFiniteSet({ i \in 1 .. Len(values) : values[i] = t })
         /\ Occurrences(values, t) \in Nat
<1>1. Len(values) \in Nat /\ 1 \in Int
  OBVIOUS
<1>2. IsFiniteSet(1 .. Len(values))
  BY <1>1, FS_Interval
<1>3. IsFiniteSet({ i \in 1 .. Len(values) : values[i] = t })
  BY <1>2, FS_Subset
<1> QED
  BY <1>3, FS_CardinalityType DEF Occurrences

\* discardBefore loses the events before the cutoff and no other.
LEMMA DiscardCounts ==
  ASSUME NEW values \in Seq(Nat), Sorted(values), NEW cutoff \in Int, NEW t \in Nat
  PROVE  Occurrences(discardBefore(values, cutoff), t)
           = IF t >= cutoff THEN Occurrences(values, t) ELSE 0
<1> DEFINE n == Len(values)
           r == discardBefore(values, cutoff)
           P == { i \in 1 .. n : values[i] = t }
           Q == { i \in 1 .. Len(r) : r[i] = t }
<1>0. n \in Nat
  OBVIOUS
<1>1. n \in Nat /\ r \in Seq(Nat) /\ From(r, cutoff)
  <2> HIDE DEF n
  <2> QED
    BY <1>0, DiscardBefore, Zenon
<1>2. PICK a \in 1 .. n + 1 : r = SubSeq(values, a, n) /\ \A i \in 1 .. a - 1 : values[i] < cutoff
  BY DiscardBefore, Zenon
<1>3. Len(r) = n - a + 1 /\ \A i \in 1 .. n - a + 1 : r[i] = values[a + i - 1]
  <2>1. a \in Int /\ n \in Int /\ a <= n + 1 /\ \A i \in a .. n : values[i] \in Nat
    BY <1>1
  <2> HIDE DEF n, r
  <2> QED
    BY <1>2, <2>1, SubSeqProperties, SMTT(30)
<1>4. Occurrences(values, t) = Cardinality(P) /\ Occurrences(r, t) = Cardinality(Q)
  BY DEF Occurrences
<1>5. CASE t >= cutoff
  <2> DEFINE m == [i \in Q |-> a + i - 1]
  <2>1. IsFiniteSet(Q)
    BY <1>1, OccurrencesFinite, Zenon
  <2>2. m \in [Q -> P]
    <3> SUFFICES ASSUME NEW i \in Q PROVE a + i - 1 \in P
      BY Zenon
    <3> HIDE DEF r
    <3>1. i \in 1 .. n - a + 1 /\ values[a + i - 1] = t
      BY <1>3, ZenonT(40)
    <3>2. a + i - 1 \in 1 .. n
      BY <1>1, <3>1
    <3> QED
      BY <3>1, <3>2
  <2>3. \A i, j \in Q : m[i] = m[j] => i = j
    <3> HIDE DEF r
    <3> QED
      BY <1>1, <1>3
  <2>4. ASSUME NEW k \in P PROVE \E i \in Q : m[i] = k
    <3>1. ~(k < a)
      BY <1>1, <1>2, <1>5
    <3>2. k - a + 1 \in 1 .. n - a + 1 /\ a + (k - a + 1) - 1 = k
      BY <1>1, <3>1
    <3> HIDE DEF r
    <3>3. k - a + 1 \in Q
      BY <1>1, <1>3, <3>2, Zenon
    <3> QED
      BY <3>2, <3>3, ZenonT(40)
  <2> HIDE DEF m, P, Q
  <2>5. Cardinality(P) = Cardinality(Q)
    BY <2>1, <2>2, <2>3, <2>4, SameSize, ZenonT(40)
  <2> QED
    BY <1>4, <1>5, <2>5 DEF r
<1>6. CASE ~(t >= cutoff)
  <2>1. Q = {}
    <3> SUFFICES ASSUME NEW i \in Q PROVE FALSE
      OBVIOUS
    <3> HIDE DEF r
    <3> QED
      BY <1>1, <1>6 DEF From
  <2> HIDE DEF r, Q
  <2> QED
    BY <1>4, <1>6, <2>1, FS_EmptySet DEF r
<1> QED
  BY <1>5, <1>6

\* insertTimestamp counts one event more, at its time.
LEMMA InsertCounts ==
  ASSUME NEW values \in Seq(Nat), Sorted(values), NEW value \in Nat, NEW t \in Nat
  PROVE  Occurrences(insertTimestamp(values, value), t)
           = Occurrences(values, t) + (IF t = value THEN 1 ELSE 0)
<1> DEFINE n == Len(values)
           r == insertTimestamp(values, value)
           P == { i \in 1 .. n : values[i] = t }
           Q == { i \in 1 .. Len(r) : r[i] = t }
<1>1. n \in Nat /\ r \in Seq(Nat)
  BY InsertTimestamp
<1>2. PICK a \in 1 .. n + 1 :
        r = [k \in 1 .. n + 1 |->
               IF k < a THEN values[k] ELSE IF k = a THEN value ELSE values[k - 1]]
  BY InsertTimestamp, Zenon
<1> HIDE DEF r
<1>3. Len(r) = n + 1
  BY <1>1, <1>2
<1>4. Occurrences(values, t) = Cardinality(P) /\ Occurrences(r, t) = Cardinality(Q)
  BY DEF Occurrences
<1>5. IsFiniteSet(P) /\ IsFiniteSet(Q) /\ Cardinality(P) \in Nat /\ Cardinality(Q) \in Nat
  BY <1>1, <1>4, OccurrencesFinite, Zenon
<1> DEFINE m == [i \in P |-> IF i < a THEN i ELSE i + 1]
<1>6. m \in [P -> Q \ {a}]
  <2> SUFFICES ASSUME NEW i \in P PROVE (IF i < a THEN i ELSE i + 1) \in Q \ {a}
    OBVIOUS
  <2> QED
    BY <1>1, <1>2, <1>3
<1>7. \A i, j \in P : m[i] = m[j] => i = j
  BY <1>1
<1>8. ASSUME NEW k \in Q \ {a} PROVE \E i \in P : m[i] = k
  <2>1. CASE k < a
    BY <1>1, <1>2, <1>3, <2>1
  <2>2. CASE k > a
    <3>1. k - 1 \in 1 .. n /\ values[k - 1] = t /\ ~(k - 1 < a) /\ (k - 1) + 1 = k
      BY <1>1, <1>2, <1>3, <2>2
    <3> QED
      BY <3>1
  <2>3. k \in Nat /\ k # a
    BY <1>1, <1>3
  <2>4. k < a \/ k > a
    BY <1>1, <2>3
  <2> QED
    BY <2>1, <2>2, <2>4, Zenon
<1>9. a \in Q <=> t = value
  BY <1>1, <1>2, <1>3
<1> HIDE DEF m, P, Q
<1>10. Cardinality(Q \ {a}) = Cardinality(P)
  BY <1>5, <1>6, <1>7, <1>8, SameSize, Zenon
<1>11. CASE t = value
  <2>1. Cardinality(Q \ {a}) = Cardinality(Q) - 1
    BY <1>5, <1>9, <1>11, FS_RemoveElement, Zenon
  <2> QED
    BY <1>4, <1>5, <1>10, <1>11, <2>1 DEF r
<1>12. CASE t # value
  <2>1. Q \ {a} = Q
    BY <1>9, <1>12
  <2> QED
    <3>1. Cardinality(Q) = Cardinality(P)
      BY <1>10, <2>1, Zenon
    <3>2. Cardinality(P) + 0 = Cardinality(P)
      BY <1>5
    <3> QED
      BY <1>4, <1>12, <3>1, <3>2, Zenon DEF r
<1> QED
  BY <1>11, <1>12

\* The window after an event counts it, and forgets what the watermark leaves behind.
LEMMA SlideCounts ==
  ASSUME NEW values \in Seq(Nat), Sorted(values), NEW w \in Nat, NEW window \in Nat,
         NEW at \in Nat, NEW t \in Nat
  PROVE  Occurrences(Slide(values, w, window, at), t)
           = IF t >= w - window
             THEN Occurrences(values, t) + (IF t = at THEN 1 ELSE 0)
             ELSE 0
<1> DEFINE kept == discardBefore(values, w - window)
<1>0. w - window \in Int
  OBVIOUS
<1>1. /\ kept \in Seq(Nat) /\ Sorted(kept)
      /\ Occurrences(kept, t) = IF t >= w - window THEN Occurrences(values, t) ELSE 0
  BY <1>0, DiscardBefore, DiscardCounts, Zenon
<1>2. Occurrences(values, t) \in Nat
  BY OccurrencesFinite, Zenon
<1> HIDE DEF kept
<1>3. CASE at >= w - window
  <2>1. Slide(values, w, window, at) = insertTimestamp(kept, at)
    BY <1>3 DEF Slide, kept
  <2>2. kept \in Seq(Nat) /\ Sorted(kept)
    BY <1>1, Zenon
  <2>3. Occurrences(insertTimestamp(kept, at), t)
          = Occurrences(kept, t) + (IF t = at THEN 1 ELSE 0)
    BY <2>2, InsertCounts, ZenonT(40)
  <2> QED
    BY <1>0, <1>1, <1>2, <1>3, <2>1, <2>3
<1>4. CASE ~(at >= w - window)
  <2>1. Slide(values, w, window, at) = kept
    BY <1>4 DEF Slide, kept
  <2> QED
    BY <1>0, <1>1, <1>2, <1>4, <2>1
<1> QED
  BY <1>3, <1>4

-----------------------------------------------------------------------------
(* The window holds the events of the history seen, each as often as it    *)
(* came.                                                                   *)

Times == EventTimes \cup 1 .. MaxTime

GroupExact(g, h, fp) ==
  \A t \in Times :
    Occurrences(g.timestamps, t) = IF t >= g.watermark - Window[fp] THEN h[t] ELSE 0

EInv ==
  /\ DOMAIN seen = Active
  /\ \A f \in Active : seen[f] \in [Times -> Nat] /\ GroupExact(groups[f], seen[f], f)

\* Judging an event leaves the window alone.
LEMMA JudgedWindow ==
  ASSUME NEW c \in Group, NEW fp, NEW at
  PROVE  /\ Judged(c, fp, at).timestamps = c.timestamps
         /\ Judged(c, fp, at).watermark = c.watermark
BY DEF Judged, raise, Group

\* One event of Record: what was counted is forgotten when the watermark leaves it
\* behind, the event is counted when it is not itself behind.
LEMMA JudgedExact ==
  ASSUME NEW g \in Group, NEW fp \in Fingerprints, NEW at \in Nat \ {0},
         NEW sample \in Samples, now \in Nat, GroupInv(g, fp),
         NEW h \in [Times -> Nat], GroupExact(g, h, fp)
  PROVE  /\ [h EXCEPT ![at] = @ + 1] \in [Times -> Nat]
         /\ GroupExact(Judged(Counted(g, fp, at, sample), fp, at), [h EXCEPT ![at] = @ + 1], fp)
<1> DEFINE c == Counted(g, fp, at, sample)
           w == Later(g.watermark, at)
           W == Window[fp]
           e == [h EXCEPT ![at] = @ + 1]
<1>1. /\ g.timestamps \in Seq(Nat) /\ Sorted(g.timestamps) /\ g.watermark \in Nat
      /\ W \in Nat /\ w \in Nat /\ g.watermark <= w /\ at \in Nat
  BY GroupFields DEF GroupInv, Later
<1>2. c \in Group /\ c.watermark = w /\ c.timestamps = Slide(g.timestamps, w, W, at)
  BY <1>1, CountedGroup
<1>3. e \in [Times -> Nat] /\ \A t \in Times : e[t] = h[t] + (IF t = at THEN 1 ELSE 0)
  <2>1. e = [t \in Times |-> IF t = at THEN h[at] + 1 ELSE h[t]]
    BY Zenon
  <2> HIDE DEF e
  <2>2. \A t \in Times : h[t] \in Nat
    OBVIOUS
  <2> QED
    BY <2>1, <2>2
<1> HIDE DEF c, w, W, e
<1>4. ASSUME NEW t \in Times
      PROVE  Occurrences(c.timestamps, t) = IF t >= w - W THEN e[t] ELSE 0
  <2>1. t \in Nat /\ h[t] \in Nat
    BY DEF Times
  <2>2. Occurrences(c.timestamps, t)
          = IF t >= w - W THEN Occurrences(g.timestamps, t) + (IF t = at THEN 1 ELSE 0) ELSE 0
    <3> DEFINE values == g.timestamps
    <3>1. values \in Seq(Nat) /\ Sorted(values) /\ w \in Nat /\ W \in Nat /\ at \in Nat
      BY <1>1
    <3>2. c.timestamps = Slide(values, w, W, at)
      BY <1>2
    <3> HIDE DEF values
    <3>3. Occurrences(Slide(values, w, W, at), t)
            = IF t >= w - W THEN Occurrences(values, t) + (IF t = at THEN 1 ELSE 0) ELSE 0
      BY <2>1, <3>1, SlideCounts, SMTT(30)
    <3> QED
      BY <3>2, <3>3, Zenon DEF values
  <2>3. t >= w - W => Occurrences(g.timestamps, t) = h[t]
    <3>1. t >= w - W => t >= g.watermark - W
      BY <1>1, <2>1
    <3> QED
      BY <3>1 DEF GroupExact, W
  <2> QED
    BY <1>3, <2>1, <2>2, <2>3, ZenonT(40)
<1>5. /\ Judged(c, fp, at).timestamps = c.timestamps
      /\ Judged(c, fp, at).watermark = w
  BY <1>2, JudgedWindow, ZenonT(40)
<1>6. GroupExact(Judged(c, fp, at), e, fp)
  BY <1>4, <1>5, ZenonT(40) DEF GroupExact, W
<1> QED
  BY <1>3, <1>6, ZenonT(40) DEF c, e

\* A group that has just been made has counted nothing.
LEMMA NewGroupExact ==
  ASSUME NEW fp
  PROVE  /\ [t \in Times |-> 0] \in [Times -> Nat]
         /\ GroupExact(NewGroup, [t \in Times |-> 0], fp)
<1>1. NewGroup.timestamps = <<>>
  BY DEF NewGroup
<1>2. \A t : Occurrences(<<>>, t) = 0
  <2> SUFFICES ASSUME NEW t PROVE Occurrences(<<>>, t) = 0
    OBVIOUS
  <2>1. { i \in 1 .. Len(<<>>) : <<>>[i] = t } = {}
    OBVIOUS
  <2> QED
    BY <2>1, FS_EmptySet, Zenon DEF Occurrences
<1> QED
  BY <1>1, <1>2, ZenonT(40) DEF GroupExact

LEMMA RecordExact ==
  ASSUME IInv, EInv, NEW fp \in Fingerprints, NEW timestamp \in EventTimes,
         NEW sample \in Samples, Record(fp, timestamp, sample)
  PROVE  EInv'
<1> DEFINE live == evictExpired
           room == IF fp \in DOMAIN live THEN live ELSE evictForInsert(live)
           item == IF fp \in DOMAIN live THEN live[fp] ELSE NewGroup
           at == IF timestamp = 0 THEN now ELSE timestamp
           past == IF fp \in DOMAIN live THEN seen[fp] ELSE [t \in Times |-> 0]
           j == Judged(Counted(item, fp, at, sample), fp, at)
           e == [past EXCEPT ![at] = @ + 1]
<1>1. /\ DOMAIN live \subseteq Active
      /\ \A f \in DOMAIN live : live[f] = groups[f]
      /\ \A f \in Active : groups[f] \in Group /\ GroupInv(groups[f], f)
  BY ExpiredShrinks, Zenon DEF IInv, TypeOK
<1>2. at \in Nat \ {0} /\ now \in Nat
  BY DEF IInv, TypeOK
<1>3. item \in Group /\ GroupInv(item, fp) /\ past \in [Times -> Nat] /\ GroupExact(item, past, fp)
  <2>1. CASE fp \in DOMAIN live
    <3>1. item = groups[fp] /\ past = seen[fp] /\ fp \in Active
      BY <1>1, <2>1, ZenonT(40)
    <3> QED
      BY <1>1, <3>1, ZenonT(40) DEF EInv
  <2>2. CASE fp \notin DOMAIN live
    <3>1. item = NewGroup /\ past = [t \in Times |-> 0]
      BY <2>2
    <3> QED
      BY <3>1, NewGroupInv, NewGroupExact, Zenon
  <2> QED
    BY <2>1, <2>2, ZenonT(40)
<1>4. e \in [Times -> Nat] /\ GroupExact(j, e, fp)
  <2> HIDE DEF item, at, past
  <2> QED
    BY <1>2, <1>3, JudgedExact, Zenon
<1>5. DOMAIN room \subseteq DOMAIN live /\ \A f \in DOMAIN room : room[f] = live[f]
  BY DEF evictForInsert, Keep
<1>6. /\ groups' = [f \in DOMAIN room \cup {fp} |-> IF f = fp THEN j ELSE room[f]]
      /\ seen' = [f \in DOMAIN room \cup {fp} |-> IF f = fp THEN e ELSE seen[f]]
  BY Zenon DEF Record, Times
<1> HIDE DEF live, room, item, at, past, j, e
<1>7. DOMAIN seen' = Active'
  BY <1>6 DEF Active
<1>8. ASSUME NEW f \in Active'
      PROVE  seen'[f] \in [Times -> Nat] /\ GroupExact(groups'[f], seen'[f], f)
  <2>1. f \in DOMAIN room \cup {fp}
    BY <1>6 DEF Active
  <2>2. CASE f = fp
    BY <1>4, <1>6, <2>1, <2>2, Zenon
  <2>3. CASE f # fp
    <3>1. f \in Active /\ groups'[f] = groups[f] /\ seen'[f] = seen[f]
      BY <1>1, <1>5, <1>6, <2>1, <2>3, Zenon
    <3> QED
      BY <3>1, Zenon DEF EInv
  <2> QED
    BY <2>2, <2>3
<1> QED
  BY <1>7, <1>8, ZenonT(40) DEF EInv, GroupExact

LEMMA NextExact == IInv /\ EInv /\ [Next]_vars => EInv'
<1> SUFFICES ASSUME IInv, EInv, [Next]_vars PROVE EInv'
  OBVIOUS
<1>1. CASE Tick \/ UNCHANGED vars
  BY <1>1, Zenon DEF Tick, vars, EInv, Active, GroupExact
<1>2. ASSUME NEW fp \in Fingerprints, NEW timestamp \in EventTimes, NEW sample \in Samples,
             Record(fp, timestamp, sample)
      PROVE  EInv'
  BY <1>2, RecordExact
<1>3. CASE LenOrState
  <2>1. /\ Active' \subseteq Active /\ \A f \in Active' : groups'[f] = groups[f]
        /\ seen' = [f \in Active' |-> seen[f]]
    BY <1>3, ExpiredShrinks, Zenon DEF LenOrState, Active, Keep
  <2> QED
    BY <2>1, Zenon DEF EInv, GroupExact
<1> QED
  BY <1>1, <1>2, <1>3 DEF Next

\* discardBefore and insertTimestamp keep the slice of every group sorted and equal, as
\* often as they came, to the events of the last window before the newest one.
THEOREM AggregatorWindowExact == Spec => []WindowExact
<1>1. Init => EInv
  BY DEF Init, EInv, Active
<1>2. IInv /\ EInv => WindowExact
  <2> SUFFICES ASSUME IInv, EInv, NEW f \in Active
               PROVE  /\ Sorted(groups[f].timestamps)
                      /\ \A t \in DOMAIN seen[f] :
                           Occurrences(groups[f].timestamps, t)
                             = IF t >= Cutoff(f) THEN seen[f][t] ELSE 0
    BY DEF WindowExact, Sorted
  <2> QED
    BY ZenonT(40) DEF IInv, GroupInv, EInv, GroupExact, Cutoff
<1> QED
  BY <1>1, <1>2, AlwaysIInv, NextExact, PTL DEF Spec

-----------------------------------------------------------------------------
(* The aggregator as the detection path uses it.                           *)

\* What the aggregator promises holds of the detection path: Process, the clock and the
\* readers of the aggregator together.
THEOREM DetectionAggregates ==
  DSpec => /\ []GroupsBounded /\ []WindowExact /\ []FullWindowAlerted /\ []AlertIsCurrent
           /\ CooldownRespected
BY DetectionUsesAggregator, AggregatorGroupsBounded, AggregatorWindowExact,
   AggregatorFullWindowAlerted, AggregatorAlertIsCurrent, AggregatorCooldownRespected, PTL
=============================================================================
